--------------------------- MODULE LoginThrottle ---------------------------
(***************************************************************************)
(* The lockout of repeated login failures: authenticate and                *)
(* pruneFailuresLocked in internal/control/store.go.                       *)
(*                                                                         *)
(* An attempt holds the lock twice: to look for a lockout, and, after the  *)
(* password was verified with the lock released, to count the outcome.     *)
(* Time is in ticks; Window is both the counting window and the lockout    *)
(* (15 minutes each), and stale entries are pruned after twice that.       *)
(***************************************************************************)
EXTENDS Integers, FiniteSets, FiniteSetsExt

CONSTANTS Key,          \* remote address and user name
          Attempt,      \* logins that run concurrently
          MaxFailures,  \* 8
          Window,       \* 15 minutes
          PruneAt,      \* 1024, the table size that starts pruning
          MaxKeys,      \* 8192, the table size that starts eviction
          MaxTime,      \* the last tick of a run
          None          \* no entry in the table

ASSUME LoginThrottleConstants ==
    /\ IsFiniteSet(Key) /\ IsFiniteSet(Attempt)
    /\ MaxFailures \in Nat \ {0}
    /\ Window \in Nat \ {0}
    /\ MaxTime \in Nat
    /\ PruneAt \in Nat /\ MaxKeys \in Nat /\ PruneAt <= MaxKeys
    /\ None \notin [count : Nat, start : Nat, until : Nat]

VARIABLES
    now,
    failures,  \* store.failures: count, start of the window, end of the lockout
    attempt,   \* where each attempt is, its key and when it read the clock
    guesses    \* guesses[k][t]: failed verifications of k at tick t that no
               \* success and no eviction has wiped out since

vars == <<now, failures, attempt, guesses>>

Time == 0..MaxTime
Idle == [at |-> "idle", key |-> None, time |-> 0]

Entries(table) == {k \in Key : table[k] # None}
Blocked(k, t) == failures[k] # None /\ t < failures[k].until

Init ==
    /\ now = 0
    /\ failures = [k \in Key |-> None]
    /\ attempt = [a \in Attempt |-> Idle]
    /\ guesses = [k \in Key |-> [t \in Time |-> 0]]

Become(a, state) == attempt' = [attempt EXCEPT ![a] = state]

Tick ==
    /\ now < MaxTime
    /\ now' = now + 1
    /\ UNCHANGED <<failures, attempt, guesses>>

\* authenticate reads the clock before it asks for the lock
Arrive(a, k) ==
    /\ attempt[a].at = "idle"
    /\ Become(a, [at |-> "arrived", key |-> k, time |-> now])
    /\ UNCHANGED <<now, failures, guesses>>

\* Mutant: an entry is dropped as soon as its lockout is over.
ExpiredEarly(t) ==
    {k \in Entries(failures) : t >= failures[k].until}

\* the entries a prune at time t drops: the window is long over and so is the
\* lockout, which is 0 where there was none
Expired(t) ==
    {k \in Entries(failures) : t - failures[k].start > 2 * Window /\ t >= failures[k].until}

\* Mutant: the table is pruned but never cut down to MaxKeys.
NoEviction(t) == {Expired(t)}

\* pruneFailuresLocked: the sets of keys it may drop.  Which ones go beyond the
\* expired ones is up to the order of Go's map iteration.
Pruned(t) ==
    IF Cardinality(Entries(failures)) < PruneAt THEN {{}}
    ELSE LET left == Entries(failures) \ Expired(t)
             excess == IF Cardinality(left) > MaxKeys THEN Cardinality(left) - MaxKeys ELSE 0
         IN  {Expired(t) \cup e : e \in kSubset(excess, left)}

\* the first hold of the lock
Begin(a) ==
    LET k == attempt[a].key
        t == attempt[a].time
    IN  /\ attempt[a].at = "arrived"
        /\ \E dropped \in Pruned(t) :
              /\ failures' = [j \in Key |-> IF j \in dropped THEN None ELSE failures[j]]
              /\ guesses' = [j \in Key |-> IF j \in dropped \ Expired(t)
                                           THEN [u \in Time |-> 0] ELSE guesses[j]]
              /\ \/ k \notin dropped /\ Blocked(k, t) /\ Become(a, Idle)
                 \/ /\ k \in dropped \/ ~Blocked(k, t)
                    /\ Become(a, [attempt[a] EXCEPT !.at = "verify"])
        /\ UNCHANGED now

\* Mutant: the lockout is not looked at again after the verification.
AcceptUnchecked(a) ==
    LET k == attempt[a].key
    IN  /\ attempt[a].at = "verify"
        /\ failures' = [failures EXCEPT ![k] = None]
        /\ guesses' = [guesses EXCEPT ![k] = [t \in Time |-> 0]]
        /\ Become(a, [attempt[a] EXCEPT !.at = "accepted"])
        /\ UNCHANGED now

\* the second hold of the lock, with the right password.  The failures are
\* forgotten also when saving the login then fails.
Accept(a) ==
    LET k == attempt[a].key
    IN  /\ attempt[a].at = "verify"
        /\ ~Blocked(k, now)
        /\ failures' = [failures EXCEPT ![k] = None]
        /\ guesses' = [guesses EXCEPT ![k] = [t \in Time |-> 0]]
        /\ \/ Become(a, [attempt[a] EXCEPT !.at = "accepted"])
           \/ Become(a, Idle)
        /\ UNCHANGED now

\* the entry after one more failure at time t
Counted(f, t) ==
    LET g == IF f = None \/ t - f.start > Window THEN [count |-> 0, start |-> t, until |-> 0] ELSE f
    IN  [g EXCEPT !.count = @ + 1, !.until = IF g.count + 1 >= MaxFailures THEN t + Window ELSE @]

\* ... and with a wrong one, an unknown user or a disabled account
Fail(a) ==
    LET k == attempt[a].key
    IN  /\ attempt[a].at = "verify"
        /\ ~Blocked(k, now)
        /\ failures' = [failures EXCEPT ![k] = Counted(failures[k], now)]
        /\ guesses' = [guesses EXCEPT ![k][now] = @ + 1]
        /\ Become(a, Idle)
        /\ UNCHANGED now

\* a lockout that began during the verification
Refuse(a) ==
    /\ attempt[a].at = "verify"
    /\ Blocked(attempt[a].key, now)
    /\ Become(a, Idle)
    /\ UNCHANGED <<now, failures, guesses>>

\* the handler goes on to createSession and answers
Answer(a) ==
    /\ attempt[a].at = "accepted"
    /\ Become(a, Idle)
    /\ UNCHANGED <<now, failures, guesses>>

Next ==
    \/ Tick
    \/ \E a \in Attempt : \/ \E k \in Key : Arrive(a, k)
                          \/ Begin(a) \/ Accept(a) \/ Fail(a) \/ Refuse(a) \/ Answer(a)

Spec == Init /\ [][Next]_vars

----------------------------------------------------------------------------
TypeOK ==
    /\ now \in Time
    /\ failures \in [Key -> [count : 1..(MaxFailures + 1), start : Time,
                             until : 0..(MaxTime + Window)] \cup {None}]
    /\ attempt \in [Attempt -> [at : {"idle", "arrived", "verify", "accepted"},
                                key : Key \cup {None}, time : Time]]
    /\ guesses \in [Key -> [Time -> Nat]]

\* The failures of k from one tick until before another.
Failed(k, from, to) ==
    MapThenSumSet(LAMBDA u : guesses[k][u], {u \in Time : from <= u /\ u < to})

\* "Repeated login failures trigger temporary lockout"
\* (docs/CONTROL_CENTER.md): whoever gets in has failed fewer than MaxFailures
\* times in the last Window ticks if none failed in as many ticks before, and
\* never more than twice that, also when the attempts were verified side by side
\* and the lockout began in between.  As everywhere here, a failure counts until
\* an eviction or a success makes authenticate forget it.
EntryWithinBudget ==
    [][\A a \in Attempt :
          (attempt[a].at = "verify" /\ attempt'[a].at = "accepted") =>
              LET k == attempt[a].key
                  last == Failed(k, now - Window + 1, now + 1)
              IN  /\ last <= 2 * (MaxFailures - 1)
                  /\ Failed(k, now - 2 * Window + 1, now - Window + 1) = 0 => last < MaxFailures]_vars

\* However many attempts run at once, fewer than 2 * MaxFailures passwords are
\* tried in vain on one key within the length of a window: one short of a
\* lockout at the end of a counting window, then a full one.  Only failures that
\* no eviction of the entry and no success has wiped out since are counted.
GuessesBounded ==
    \A k \in Key, t \in Time : Failed(k, t, t + Window) < 2 * MaxFailures

\* The table stays bounded although it is only cut down when an attempt
\* begins: each attempt in progress can add one entry.
TableBounded ==
    Cardinality(Entries(failures)) <= MaxKeys + Cardinality(Attempt)
=============================================================================
