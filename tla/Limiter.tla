------------------------------ MODULE Limiter ------------------------------
(***************************************************************************)
(* The token buckets of internal/ratelimit/limiter.go, which limit the     *)
(* requests of a virtual host and, in internal/bot, of a client.           *)
(*                                                                         *)
(* Allow reads the clock before it takes the lock, so that calls are       *)
(* served out of order; the cleanup loop evicts idle buckets by the time   *)
(* of a tick it may have received long ago.  A request costs Cost units    *)
(* and Rate units come in per tick of the clock, so that a rate need not   *)
(* be a whole number of requests.                                          *)
(***************************************************************************)
EXTENDS Integers

CONSTANTS Key,       \* virtual host and client address
          Caller,    \* calls of Allow in progress
          Rate, Cost,
          Burst,     \* in requests
          TTL,       \* of an idle bucket
          MaxDelay,  \* the longest a call waits for the lock
          MaxTime,   \* bound on the clock
          None       \* no bucket, no tick

\* A call does not wait for half of the TTL, which is 30 seconds at the least
\* (entry_ttl_seconds) and 10 minutes for the bot policy.  Nothing relates the
\* TTL to the time a burst takes to come in: a bucket may be evicted before it is
\* full again.
ASSUME LimiterConstants ==
    /\ Rate \in Nat /\ Cost \in Nat \ {0} /\ Burst \in Nat \ {0}
    /\ TTL \in Nat /\ MaxDelay \in Nat /\ MaxTime \in Nat
    /\ None \notin [tokens : Int, last : Int, lastSeen : Int] \cup Nat
    /\ 2 * MaxDelay < TTL

VARIABLES now,
          bucket,   \* Limiter.buckets
          call,     \* the key and the clock reading of each call, or None
          tick,     \* the tick in the channel of the cleanup loop
          granted,  \* requests let through (history)
          ideal     \* the tokens of a bucket without delays and evictions (history)

vars == <<now, bucket, call, tick, granted, ideal>>

Full == Burst * Cost
Least(a, b) == IF a <= b THEN a ELSE b
Bucket(tokens, last, lastSeen) == [tokens |-> tokens, last |-> last, lastSeen |-> lastSeen]

Init ==
    /\ now = 0 /\ tick = None
    /\ bucket = [k \in Key |-> None]
    /\ call = [c \in Caller |-> None]
    /\ granted = [k \in Key |-> 0]
    /\ ideal = [k \in Key |-> Full]

\* Time passes; no call is delayed for more than MaxDelay.
Tick ==
    /\ now < MaxTime
    /\ \A c \in Caller : call[c] # None => now - call[c].time < MaxDelay
    /\ now' = now + 1
    /\ ideal' = [k \in Key |-> Least(Full, ideal[k] + Rate)]
    /\ UNCHANGED <<bucket, call, tick, granted>>

\* Allow reads the clock ...
Arrive(c, k) ==
    /\ call[c] = None
    /\ call' = [call EXCEPT ![c] = [key |-> k, time |-> now]]
    /\ UNCHANGED <<now, bucket, tick, granted, ideal>>

\* Mutant: last is set also when the clock reading is older than it.
RefilledBack(b, t) ==
    Bucket(IF t > b.last THEN Least(Full, b.tokens + Rate * (t - b.last)) ELSE b.tokens, t, t)

\* Mutant: the time since the last call is lost when it is short.
RefilledRarely(b, t) ==
    Bucket(IF t > b.last + 1 THEN Least(Full, b.tokens + Rate * (t - b.last)) ELSE b.tokens,
           IF t > b.last THEN t ELSE b.last, t)

\* A bucket at the time of a call.
Refilled(b, t) ==
    IF t > b.last
    THEN Bucket(Least(Full, b.tokens + Rate * (t - b.last)), t, t)
    ELSE Bucket(b.tokens, b.last, t)

Grant(k, b) ==
    /\ bucket' = [bucket EXCEPT ![k] = Bucket(b.tokens - Cost, b.last, b.lastSeen)]
    /\ granted' = [granted EXCEPT ![k] = @ + 1]
    /\ ideal' = [ideal EXCEPT ![k] = @ - Cost]

\* ... and decides with the lock held: a new client has all of its burst left.
Decide(c) ==
    /\ call[c] # None
    /\ LET k == call[c].key
           t == call[c].time
           b == IF bucket[k] = None THEN Bucket(Full, t, t) ELSE Refilled(bucket[k], t)
       IN  \/ b.tokens >= Cost /\ Grant(k, b)
           \/ /\ b.tokens < Cost /\ bucket' = [bucket EXCEPT ![k] = b]
              /\ UNCHANGED <<granted, ideal>>
    /\ call' = [call EXCEPT ![c] = None]
    /\ UNCHANGED <<now, tick>>

\* The ticker sends the time unless a tick is still in the channel ...
Fire ==
    /\ tick = None /\ tick' = now
    /\ UNCHANGED <<now, bucket, call, granted, ideal>>

\* ... and cleanupLoop evicts the buckets that were idle for TTL then.
Sweep ==
    /\ tick # None /\ tick' = None
    /\ bucket' = [k \in Key |-> IF bucket[k] = None THEN None
                                ELSE IF tick - bucket[k].lastSeen > TTL THEN None ELSE bucket[k]]
    /\ UNCHANGED <<now, call, granted, ideal>>

Next ==
    \/ Tick \/ Fire \/ Sweep
    \/ \E c \in Caller : Decide(c) \/ \E k \in Key : Arrive(c, k)

Spec == Init /\ [][Next]_vars

----------------------------------------------------------------------------
TypeOK ==
    /\ now \in 0 .. MaxTime /\ tick \in 0 .. now \cup {None}
    /\ bucket \in [Key -> [tokens : 0 .. Full, last : 0 .. now, lastSeen : 0 .. now] \cup {None}]
    /\ call \in [Caller -> [key : Key, time : 0 .. now] \cup {None}]
    /\ granted \in [Key -> Nat] /\ ideal \in [Key -> Int]

\* The shortest time between the last refill of an evicted bucket and the first
\* call to the bucket that takes its place, and the most that comes in during it:
\* at the rate, or, if the TTL is too short for that, by the new bucket.
Span == TTL - 2 * MaxDelay
Income == IF Full <= Rate * Span THEN Rate * Span ELSE Full

\* No client ever gets more than its burst and, since the start, the rate or one
\* burst in Span ticks, whichever is more, although calls are decided out of
\* order and idle buckets are evicted and begin full again (Allow, cleanupLoop).
\* Where the TTL covers the refill of a burst, that is the burst and the rate.
GrantsBounded == \A k \in Key : granted[k] * Cost * Span <= Full * Span + Income * now

\* No tokens are lost: with what is due since its last refill, a bucket holds
\* at least as much as one that is refilled at every instant, whatever the
\* order of the calls (the elapsed > 0 guard of Allow).
NothingLost ==
    \A k \in Key :
        bucket[k] # None => Least(Full, bucket[k].tokens + Rate * (now - bucket[k].last)) >= ideal[k]
=============================================================================
