------------------------------ MODULE MCReload ------------------------------
(***************************************************************************)
(* The two ends of a reload: the life of the WAF's runtimes, and the       *)
(* transactions of the Control Center, for which a reload is one answer.   *)
(* They share no state; a behaviour exercises the one that part names.     *)
(***************************************************************************)
EXTENDS AppLifecycle, TLC

CONSTANTS b1, l1, x1, r1, r2, Absent, Down,
          KeepRevisions, MaxTxns, MaxLate, MaxBackups

VARIABLES part,
          config, rules, revs, backups, mu, req, running, loading, late,
          txns, base, last, broken

appVars == vars
txnVars == <<config, rules, revs, backups, mu, req, running, loading, late,
             txns, base, last, broken>>
allVars == <<part, appVars, txnVars>>

ApiRequest == {r1, r2}

\* One body and one rule file are enough for a transaction to take every path
\* to its answer; nothing here depends on which files build together.
Txn == INSTANCE ConfigTransaction WITH
          Body <- {b1}, Listener <- {l1}, Listen <- b1 :> l1,
          RuleFile <- {x1}, Clash <- {}, Request <- ApiRequest,
          Faults <- {"write", "undo", "reload", "timeout", "restart"}

ReloadInit ==
    /\ part \in {"app", "transaction"}
    /\ Init /\ Txn!Init
    /\ part = "app" => rules = Absent

ReloadNext ==
    \/ part = "app" /\ Next /\ UNCHANGED <<part, txnVars>>
    \/ part = "transaction" /\ Txn!Next /\ UNCHANGED <<part, appVars>>

\* The fairness of each part, while it is the one that is exercised.
ReloadSpec ==
    /\ ReloadInit /\ [][ReloadNext]_allVars
    /\ WF_allVars(part = "app" /\ Deadline /\ UNCHANGED <<part, txnVars>>)
    /\ WF_allVars(part = "app" /\ Drain /\ UNCHANGED <<part, txnVars>>)
    /\ WF_allVars(/\ part = "app" /\ (TakeCurrent \/ TakeRetired \/ CloseEach)
                  /\ UNCHANGED <<part, txnVars>>)
    /\ \A r \in ApiRequest :
          /\ WF_allVars(part = "transaction" /\ Txn!Transact(r) /\ UNCHANGED <<part, appVars>>)
          /\ WF_allVars(/\ part = "transaction" /\ Txn!ReadRevisionRules(r)
                        /\ UNCHANGED <<part, appVars>>)
          /\ SF_allVars(part = "transaction" /\ Txn!Lock(r) /\ UNCHANGED <<part, appVars>>)

\* Every request to the Control Center is answered and configMu is released,
\* also when the WAF hangs (Answered of ConfigTransaction).
Answered == Txn!Answered
=============================================================================
