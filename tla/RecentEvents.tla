---------------------------- MODULE RecentEvents ----------------------------
(***************************************************************************)
(* The ring of recent security events (logging/logger.go), which the       *)
(* control plane reads.  Its lock is taken by each request in its turn, so *)
(* concurrent requests may be remembered in another order than they        *)
(* reported.  The log file the event is written to next is not modelled.   *)
(*                                                                         *)
(* Events are numbered in the order in which requests report them.  An     *)
(* event is copied into and out of the ring, so its slots are values.      *)
(***************************************************************************)
EXTENDS Integers, Sequences, FiniteSets

CONSTANTS
    Reporter,    \* the requests that report events
    Capacity,    \* recentSecurityCapacity
    MaxEvents,   \* bound: the events reported in a behaviour
    None         \* a slot that was never used, and no event

RecentEventsConstants ==
    /\ Capacity \in Nat \ {0}
    /\ MaxEvents \in Nat

VARIABLES
    recent, recentNext, recentCount,
    reporter,    \* the event each request is about to put into the ring
    reported,    \* how many events were reported so far
    remembered   \* the events in the order the ring took them (history)

vars == <<recent, recentNext, recentCount, reporter, reported, remembered>>

Event == 1..MaxEvents

Init ==
    /\ recent = [i \in 0..Capacity-1 |-> None]
    /\ recentNext = 0 /\ recentCount = 0
    /\ reporter = [r \in Reporter |-> None]
    /\ reported = 0
    /\ remembered = <<>>

Report(r) ==
    /\ reporter[r] = None
    /\ reported < MaxEvents
    /\ reported' = reported + 1
    /\ reporter' = [reporter EXCEPT ![r] = reported + 1]
    /\ UNCHANGED <<recent, recentNext, recentCount, remembered>>

RememberSecurity(r) ==
    /\ reporter[r] # None
    /\ recent' = [recent EXCEPT ![recentNext] = reporter[r]]
    /\ recentNext' = (recentNext + 1) % Capacity
    /\ recentCount' = IF recentCount < Capacity THEN recentCount + 1 ELSE recentCount
    /\ remembered' = Append(remembered, reporter[r])
    /\ reporter' = [reporter EXCEPT ![r] = None]
    /\ UNCHANGED reported

Next == \E r \in Reporter : Report(r) \/ RememberSecurity(r)

Spec == Init /\ [][Next]_vars

\* How many events a reader that asks for limit gets; zero asks for all.
Amount(limit) ==
    IF limit = 0 \/ limit > recentCount THEN recentCount ELSE limit

\* Mutant: the oldest event is looked for at slot zero.
RecentSecurityFromZero(limit) ==
    [i \in 1..Amount(limit) |->
        recent[(recentCount - Amount(limit) + i - 1) % Capacity]]

\* What RecentSecurity returns; it holds the lock of the ring while it copies.
RecentSecurity(limit) ==
    LET oldest == (recentNext - recentCount + Capacity) % Capacity
        skip == recentCount - Amount(limit)
    IN  [i \in 1..Amount(limit) |-> recent[(oldest + skip + i - 1) % Capacity]]

TypeOK ==
    /\ recent \in [0..Capacity-1 -> Event \cup {None}]
    /\ recentNext \in 0..Capacity-1
    /\ recentCount \in 0..Capacity
    /\ reported \in 0..MaxEvents
    /\ reporter \in [Reporter -> Event \cup {None}]
    /\ remembered \in Seq(Event)

\* Whatever a reader asks for, before and after the ring wrapped, it gets the
\* newest events that were remembered, as many as it asked for or as there are,
\* in the order of their arrival (RecentSecurity: "returns up to limit events
\* in insertion order").
RecentIsTail ==
    \A limit \in 0..Capacity+1 :
        LET have == Len(remembered)
            kept == IF have < Capacity THEN have ELSE Capacity
            n == IF limit = 0 \/ limit > kept THEN kept ELSE limit
        IN  RecentSecurity(limit) = SubSeq(remembered, have - n + 1, have)
=============================================================================
