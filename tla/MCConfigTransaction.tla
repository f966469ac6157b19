---------------------- MODULE MCConfigTransaction ----------------------
(***************************************************************************)
(* Instances of ConfigTransaction: three bodies, of which the third moves  *)
(* a listener and the second clashes with one of the rule files.           *)
(***************************************************************************)
EXTENDS ConfigTransaction, TLC

CONSTANTS b1, b2, b3, l1, l2, x1, x2, r1, r2

Bodies == {b1, b2, b3}
Listeners == {l1, l2}
Listens == (b1 :> l1) @@ (b2 :> l1) @@ (b3 :> l2)
RuleFiles == {x1, x2}
Clashes == {<<b2, x2>>}
Requests == {r1, r2}

AllFaults == FaultKind

Interchangeable == Permutations(Requests)

VARIABLE part

\* Two instances over the same state.  In the first everything may fail; in
\* the second, which is longer and has backups, only what leaves the files as
\* the transaction means to leave them.
Faulty == INSTANCE ConfigTransaction WITH MaxTxns <- 2, MaxBackups <- 0
Long == INSTANCE ConfigTransaction WITH Faults <- {"write", "reload"}, MaxLate <- 0

ConfigInit == part \in {"faulty", "long"} /\ Init

ConfigNext ==
    /\ \/ part = "faulty" /\ Faulty!Next
       \/ part = "long" /\ Long!Next
    /\ UNCHANGED part

ConfigSpec == ConfigInit /\ [][ConfigNext]_<<part, vars>>
====
