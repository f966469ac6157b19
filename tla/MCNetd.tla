------------------------------- MODULE MCNetd -------------------------------
\* Small instances of Netd: two plans, two or three changes in a run.
EXTENDS Netd, TLC

CONSTANTS p1, p2, t1, t2, t3

Symmetry == Permutations(Plan) \cup Permutations(Token)

NoStop == FaultKind \ {"stop"}
CommandFaults == {"generate", "schedule", "apply", "stop"}
NoFaults == {}
RebootOnly == {"reboot"}
=============================================================================
