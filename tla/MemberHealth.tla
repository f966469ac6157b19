---------------------------- MODULE MemberHealth ----------------------------
(***************************************************************************)
(* The health of one pool member (recordSuccess and recordFailure of       *)
(* internal/proxy/proxy.go, checkMember of health.go).                     *)
(*                                                                         *)
(* The flag and the two counts are separate atomics, and every request to  *)
(* the member and its active check write them: each write is a step.       *)
(***************************************************************************)
EXTENDS Integers

CONSTANTS Recorder,            \* who records outcomes: requests and the check
          Checker,             \* the active check, one of them
          HealthyThreshold, UnhealthyThreshold

ASSUME HealthConstants ==
    /\ Checker \in Recorder
    /\ HealthyThreshold \in Nat \ {0} /\ UnhealthyThreshold \in Nat \ {0}

VARIABLES monitored,   \* health.Enabled
          up,          \* does the member answer?
          healthy, successes, failures,
          record       \* the outcome each recorder writes, and how far it is

vars == <<monitored, up, healthy, successes, failures, record>>

At(step, good) == [step |-> step, good |-> good]
Idle == At("idle", FALSE)
Goto(r, step) == record' = [record EXCEPT ![r] = At(step, record[r].good)]
Done(r) == record' = [record EXCEPT ![r] = Idle]

\* newPoolRuntime: a member starts healthy
Init ==
    /\ monitored \in BOOLEAN
    /\ up = TRUE /\ healthy = TRUE
    /\ successes = 0 /\ failures = 0
    /\ record = [r \in Recorder |-> Idle]

\* A round trip or a check ends.  A request fails also when its client went
\* away, and a check on a status out of the expected range: neither takes a
\* member that is down.  The checking flag admits one check at a time.
Outcome(r) ==
    /\ record[r] = Idle
    /\ r = Checker => monitored
    /\ \E good \in {FALSE, up} : record' = [record EXCEPT ![r] = At("reset", good)]
    /\ UNCHANGED <<monitored, up, healthy, successes, failures>>

\* the opposite count is cleared first
Reset(r) ==
    /\ record[r].step = "reset"
    /\ successes' = IF record[r].good THEN successes ELSE 0
    /\ failures' = IF record[r].good THEN 0 ELSE failures
    /\ Goto(r, "count")
    /\ UNCHANGED <<monitored, up, healthy>>

\* The counts are compared with their thresholds only: they stop one past.
Add(count, threshold) == IF count > threshold THEN count ELSE count + 1

\* Mutant: the flag is set only when the count meets the threshold.
ReachesOnce(count, threshold) == count = threshold

Reaches(count, threshold) == count >= threshold

\* recordFailure
CountFailure(r) ==
    LET failed == Add(failures, UnhealthyThreshold)
    IN  /\ record[r].step = "count" /\ ~record[r].good
        /\ failures' = IF monitored THEN failed ELSE failures
        /\ IF monitored /\ Reaches(failed, UnhealthyThreshold) THEN Goto(r, "set") ELSE Done(r)
        /\ UNCHANGED <<monitored, up, healthy, successes>>

\* recordSuccess
CountSuccess(r) ==
    LET succeeded == Add(successes, HealthyThreshold)
    IN  /\ record[r].step = "count" /\ record[r].good
        /\ successes' = IF monitored THEN succeeded ELSE successes
        /\ IF monitored => Reaches(succeeded, HealthyThreshold) THEN Goto(r, "set") ELSE Done(r)
        /\ UNCHANGED <<monitored, up, healthy, failures>>

\* healthy.Store, after the count was tested
Set(r) ==
    /\ record[r].step = "set"
    /\ healthy' = record[r].good
    /\ Done(r)
    /\ UNCHANGED <<monitored, up, successes, failures>>

\* the member goes down or comes back
Flip ==
    /\ up' = ~up
    /\ UNCHANGED <<monitored, healthy, successes, failures, record>>

Write(r) == Reset(r) \/ CountFailure(r) \/ CountSuccess(r) \/ Set(r)

Next == Flip \/ \E r \in Recorder : Outcome(r) \/ Write(r)

Spec == Init /\ [][Next]_vars

\* The ticker starts a check again and again, a check has a timeout, and a
\* recorder does not stop between its writes.
FairSpec ==
    /\ Spec
    /\ WF_vars(Outcome(Checker))
    /\ \A r \in Recorder : WF_vars(Write(r))

----------------------------------------------------------------------------
\* All variables have the shape that their names promise.
TypeOK ==
    /\ monitored \in BOOLEAN /\ up \in BOOLEAN /\ healthy \in BOOLEAN
    /\ successes \in 0 .. HealthyThreshold + 1
    /\ failures \in 0 .. UnhealthyThreshold + 1
    /\ record \in [Recorder -> [step : {"idle", "reset", "count", "set"}, good : BOOLEAN]]

\* Without monitoring no run of failures takes a member out: nothing but a
\* request, which it would not get, could bring it back (recordFailure).
UnmonitoredStaysIn == ~monitored => healthy

\* every outcome being written is a success
Sound == up /\ \A r \in Recorder : record[r] # Idle => record[r].good

\* However late successes and failures interleave, a flag left wrong by a stale
\* healthy.Store is corrected: a monitored member that is down for good is
\* marked unhealthy for good, and one of which only successes are recorded from
\* some time on is marked healthy for good (recordSuccess, recordFailure).
Converges ==
    /\ <>[](monitored /\ ~up) => <>[](~healthy)
    /\ <>[](monitored /\ Sound) => <>[](healthy)
=============================================================================
