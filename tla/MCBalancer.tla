----------------------------- MODULE MCBalancer -----------------------------
(***************************************************************************)
(* A small balancer: the health of a member, written by two requests and   *)
(* the active check, and the selection of members.  A behaviour exercises  *)
(* the one that part names.                                                *)
(*                                                                         *)
(* The pool has two primary members of different weight and a backup, and  *)
(* one request at a time: another one would meet the same shared state,    *)
(* the flags and the counters, which the first may find in every           *)
(* combination as it is.                                                   *)
(***************************************************************************)
EXTENDS Balancer, TLC

CONSTANTS m1, m2, m3

VARIABLE part

healthVars == vars
poolVars == <<algorithm, lastResort, flag, rr, weight, req>>
allVars == <<part, healthVars, poolVars>>

MCPlace == m1 :> 0 @@ m2 :> 1 @@ m3 :> 2
MCWeight == m1 :> 1 @@ m2 :> 2 @@ m3 :> 1
MCPriority == m1 :> 2 @@ m2 :> 1 @@ m3 :> 1
MCAlgorithm == {"round_robin", "weighted_round_robin", "least_connections",
                "primary_backup", "random"}

BalancerInit ==
    /\ part \in {"health", "pool"}
    /\ Init /\ Pool!Init
    /\ part = "health" => algorithm = "random" /\ ~lastResort
    /\ part = "pool" => monitored

BalancerNext ==
    \/ part = "health" /\ Next /\ UNCHANGED <<part, poolVars>>
    \/ part = "pool" /\ Pool!Next /\ UNCHANGED <<part, healthVars>>

\* The fairness of MemberHealth; what is asked of the pool is safety.
BalancerSpec ==
    /\ BalancerInit /\ [][BalancerNext]_allVars
    /\ WF_allVars(part = "health" /\ Outcome(Checker) /\ UNCHANGED <<part, poolVars>>)
    /\ \A r \in Recorder :
          WF_allVars(part = "health" /\ Write(r) /\ UNCHANGED <<part, poolVars>>)
=============================================================================
