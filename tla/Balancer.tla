------------------------------ MODULE Balancer ------------------------------
(***************************************************************************)
(* The balancer: the health of a member (extended), and the selection of   *)
(* members, which sees every flag change at any time.                      *)
(***************************************************************************)
EXTENDS MemberHealth

CONSTANTS Member, Place, Backup, Weight, Priority, Request, Algorithm, RRWidth, None

VARIABLES algorithm, lastResort, flag, rr, weight, req

Pool == INSTANCE ServerPool WITH healthy <- flag

ASSUME BalancerConstants == Pool!ServerPoolConstants

\* The properties of ServerPool, stated and explained there: the balance of the
\* weights, healthy members first, and giving up late.
WeightsBalanced == Pool!WeightsBalanced
PrefersHealthy == Pool!PrefersHealthy
GivesUpLate == Pool!GivesUpLate
=============================================================================
