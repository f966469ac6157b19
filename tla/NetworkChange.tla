--------------------------- MODULE NetworkChange ---------------------------
(***************************************************************************)
(* What the network page promises its operator: a new configuration runs   *)
(* on trial, and the trial ends in exactly one of two ways, with the new   *)
(* configuration kept or with the one that ran before it.                  *)
(***************************************************************************)
CONSTANTS Configuration, NoTrial

VARIABLES live,   \* the configuration the interfaces run with
          trial   \* during a trial, the configuration to return to

Init == live \in Configuration /\ trial = NoTrial

\* a configuration goes on trial; an attempt that fails halfway may be undone
Try(c) ==
    /\ trial = NoTrial
    /\ live' = c
    /\ trial' = live

Keep ==
    /\ trial # NoTrial
    /\ trial' = NoTrial
    /\ UNCHANGED live

Revert ==
    /\ trial # NoTrial
    /\ live' = trial
    /\ trial' = NoTrial

Next == (\E c \in Configuration : Try(c)) \/ Keep \/ Revert

Spec == Init /\ [][Next]_<<live, trial>>
=============================================================================
