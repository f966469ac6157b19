-------------------------- MODULE DataPlaneProofs --------------------------
(***************************************************************************)
(* The data plane, for any hosts, rates, rules and numbers of requests.    *)
(*                                                                         *)
(* The limiter never lets more through than the burst and the income, and  *)
(* loses no tokens.  GrantsBounded is not inductive.  While a bucket       *)
(* exists, what was granted and what is left are covered by the burst and  *)
(* the income up to last (Accounted).  An eviction forgets the bucket, and *)
(* a new one begins full: by then what was granted is covered by the       *)
(* income alone, up to the earliest time a pending call can have (Repaid), *)
(* because the income of the time between is at least a burst.             *)
(*                                                                         *)
(* The ring of recent events holds the newest ones in order, whatever its  *)
(* capacity and the number of reporters (RingInv).                         *)
(*                                                                         *)
(* The pipeline of publicHandler shows the certificate of the route it     *)
(* takes, takes the nearest stranger for the client, forwards what no      *)
(* check had a reason against and audits what policy refuses.  The         *)
(* invariant carries, from check to check, what those already passed have  *)
(* found (Cleared).                                                        *)
(***************************************************************************)
EXTENDS DataPlane, Sequences, WellFoundedInduction, TLAPS

-----------------------------------------------------------------------------
(* The token buckets.                                                       *)

\* Tokens, and what comes in over a time, in units of Span.
Worth(n) == n * Span
Earned(x) == Income * x

\* What was granted and what is left are covered by burst and income.
Accounted(k) ==
    bucket[k] # None =>
        /\ Worth(granted[k] * Cost + bucket[k].tokens) <= Worth(Full) + Earned(bucket[k].last)
        /\ bucket[k].last <= bucket[k].lastSeen + MaxDelay

\* A client without a bucket has been granted nothing, or it has all come in.
Repaid(k) ==
    bucket[k] = None => granted[k] = 0 \/ Worth(granted[k] * Cost) <= Earned(now - MaxDelay)

\* The bucket is worth at least the ideal one.
Kept(k) ==
    /\ ideal[k] <= Full
    /\ bucket[k] # None => bucket[k].tokens + Rate * (now - bucket[k].last) >= ideal[k]

\* No call waits for longer than MaxDelay.
Prompt == \A c \in Caller : call[c] # None => now - call[c].time <= MaxDelay

\* The inductive invariant.
Inv ==
    /\ TypeOK /\ Prompt
    /\ \A k \in Key : Accounted(k) /\ Repaid(k) /\ Kept(k)

-----------------------------------------------------------------------------
(* Arithmetic.                                                              *)

\* Products with the rate: what the linear steps below need ...
LEMMA RateTimes ==
    ASSUME NEW x \in Int, NEW y \in Int
    PROVE  /\ Rate * x \in Int
           /\ x <= y => Rate * x <= Rate * y
           /\ Rate * (y - x) = Rate * y - Rate * x
           /\ Rate * (y + x) = Rate * y + Rate * x
           /\ x >= 0 => Rate * x >= 0
<1>1. Rate \in Nat
  BY LimiterConstants
<1> QED BY <1>1, SMTT(30)

\* ... for one tick more ...
LEMMA RateNext ==
    ASSUME NEW x \in Int
    PROVE  Rate * x \in Int /\ Rate * (x + 1) = Rate * x + Rate
<1>1. Rate \in Nat
  BY LimiterConstants
<1> QED BY <1>1, SMTT(30)

\* ... and with the cost of a request.
LEMMA CostTimes ==
    ASSUME NEW g \in Nat
    PROVE  /\ g * Cost \in Nat
           /\ (g + 1) * Cost = g * Cost + Cost
<1>1. Cost \in Nat
  BY LimiterConstants
<1> QED BY <1>1, SMTT(30)

\* A burst is at least one request.
LEMMA FullNat == Full \in Nat /\ Full >= Cost
BY LimiterConstants DEF Full

\* The units of GrantsBounded are monotone and additive ...
LEMMA WorthTimes ==
    ASSUME NEW x \in Int, NEW y \in Int
    PROVE  /\ Worth(x) \in Int /\ Worth(0) = 0
           /\ x <= y => Worth(x) <= Worth(y)
           /\ Worth(x + y) = Worth(x) + Worth(y)
<1>1. Span \in Nat
  BY LimiterConstants DEF Span
<1> QED BY <1>1, SMTT(30) DEF Worth

\* ... and so is the income ...
LEMMA EarnedTimes ==
    ASSUME NEW x \in Int, NEW y \in Int
    PROVE  /\ Earned(x) \in Int
           /\ x <= y => Earned(x) <= Earned(y)
           /\ Earned(x + y) = Earned(x) + Earned(y)
           /\ 0 <= x => 0 <= Earned(x)
<1>1. Rate * Span \in Nat
  <2>1. Rate \in Nat /\ Span \in Nat
    BY LimiterConstants DEF Span
  <2> QED BY <2>1, SMTT(30)
<1>2. Income \in Nat
  BY <1>1, FullNat DEF Income
<1> QED BY <1>2, SMTT(30) DEF Earned

\* ... which covers the rate over any time, and a burst over a Span.
LEMMA EarnedCovers ==
    /\ \A x \in Nat : Worth(Rate * x) <= Earned(x)
    /\ Worth(Full) <= Earned(Span)
<1>1. Rate \in Nat /\ Span \in Nat /\ Full \in Nat
  BY LimiterConstants, FullNat DEF Span
<1>2. Rate * Span \in Nat
  BY <1>1, SMTT(30)
<1>3. Income \in Nat /\ Rate * Span <= Income /\ Full <= Income
  BY <1>1, <1>2 DEF Income
<1> HIDE DEF Income, Span, Full
<1>4. ASSUME NEW x \in Nat PROVE Worth(Rate * x) <= Earned(x)
  <2>1. (Rate * x) * Span = (Rate * Span) * x
    BY <1>1, SMTT(30)
  <2>2. (Rate * Span) * x <= Income * x
    BY <1>2, <1>3, SMTT(30)
  <2> QED BY <2>1, <2>2, Zenon DEF Worth, Earned
<1>5. Full * Span <= Income * Span
  BY <1>1, <1>3, SMTT(30)
<1> QED BY <1>4, <1>5, Zenon DEF Worth, Earned

-----------------------------------------------------------------------------
(* One call.                                                                *)

\* The bucket a call finds or makes, at the time of its clock reading.
Found(k, t) == IF bucket[k] = None THEN Bucket(Full, t, t) ELSE Refilled(bucket[k], t)

\* Seen at the time of a call, a bucket is well formed, accounts for what was
\* granted, and has lost nothing.
LEMMA FoundIsSound ==
    ASSUME TypeOK, NEW k \in Key, NEW t \in 0 .. now, now - t <= MaxDelay,
           Accounted(k), Repaid(k), Kept(k)
    PROVE  LET b == Found(k, t)
           IN  /\ b.tokens \in 0 .. Full /\ b.last \in 0 .. now /\ b.lastSeen = t
               /\ b = Bucket(b.tokens, b.last, b.lastSeen)
               /\ Worth(granted[k] * Cost + b.tokens) <= Worth(Full) + Earned(b.last)
               /\ b.last <= b.lastSeen + MaxDelay
               /\ b.tokens + Rate * (now - b.last) >= ideal[k]
<1> DEFINE g == granted[k] * Cost
<1>1. /\ now \in Nat /\ t \in Nat /\ t <= now /\ MaxDelay \in Nat /\ Rate \in Nat
      /\ Full \in Nat /\ g \in Nat /\ ideal[k] \in Int
  BY LimiterConstants, FullNat, CostTimes DEF TypeOK
<1>2. CASE bucket[k] = None
  <2>1. Found(k, t) = Bucket(Full, t, t)
    BY <1>2, Zenon DEF Found
  <2>2. Worth(g) <= Earned(t)
    <3>1. CASE granted[k] = 0
      <4>1. g = 0
        BY <3>1, LimiterConstants
      <4>2. Worth(g) = 0
        <5>1. 0 \in Int
          OBVIOUS
        <5> QED BY <4>1, <5>1, WorthTimes, Zenon
      <4>3. t \in Int /\ 0 <= t
        BY <1>1
      <4>4. 0 <= Earned(t)
        BY <4>3, EarnedTimes, Zenon
      <4> QED BY <4>2, <4>4
    <3>2. CASE Worth(g) <= Earned(now - MaxDelay)
      <4>1. now - MaxDelay \in Int /\ t \in Int /\ g \in Int /\ now - MaxDelay <= t
        BY <1>1
      <4>2. Earned(now - MaxDelay) <= Earned(t)
        BY <4>1, EarnedTimes, Zenon
      <4>3. Worth(g) \in Int /\ Earned(now - MaxDelay) \in Int /\ Earned(t) \in Int
        BY <4>1, EarnedTimes, WorthTimes, Zenon
      <4> QED BY <3>2, <4>2, <4>3
    <3> QED BY <1>2, <3>1, <3>2, Zenon DEF Repaid
  <2>3. Rate * (now - t) >= 0 /\ Rate * (now - t) \in Int
    BY <1>1, RateTimes
  <2> HIDE DEF g
  <2>4. Worth(g + Full) <= Worth(Full) + Earned(t)
    <3>1. g \in Int /\ Full \in Int /\ t \in Int
      BY <1>1
    <3>2. Worth(g) \in Int /\ Worth(Full) \in Int /\ Worth(g + Full) = Worth(g) + Worth(Full)
      BY <3>1, WorthTimes, Zenon
    <3>3. Earned(t) \in Int
      BY <3>1, EarnedTimes, Zenon
    <3> QED BY <2>2, <3>2, <3>3
  <2>5. Full + Rate * (now - t) >= ideal[k]
    BY <2>3, <1>1 DEF Kept
  <2> QED BY <2>1, <2>4, <2>5, <1>1 DEF Bucket, g
<1>3. CASE bucket[k] # None
  <2> DEFINE b == bucket[k]
  <2>1. b.tokens \in 0 .. Full /\ b.last \in 0 .. now /\ b.lastSeen \in 0 .. now
    BY <1>3, Zenon DEF TypeOK
  <2>2. /\ Worth(g + b.tokens) <= Worth(Full) + Earned(b.last)
        /\ b.tokens + Rate * (now - b.last) >= ideal[k]
        /\ ideal[k] <= Full
    BY <1>3, Zenon DEF Accounted, Kept
  <2>3. Found(k, t) = Refilled(b, t)
    BY <1>3, Zenon DEF Found
  <2> HIDE DEF b, g
  <2>4. CASE t > b.last
    <3> DEFINE due == Rate * (t - b.last)
               left == Least(Full, b.tokens + due)
    <3>1. Found(k, t) = Bucket(left, t, t)
      BY <2>3, <2>4, Zenon DEF Refilled
    <3>2. /\ due \in Int /\ due >= 0 /\ due = Rate * t - Rate * b.last
          /\ Rate * t \in Int /\ Rate * b.last \in Int
          /\ Rate * (now - t) \in Int /\ Rate * (now - t) >= 0
          /\ Rate * (now - b.last) = Rate * (now - t) + due
      <4>1. due \in Int /\ due >= 0 /\ due = Rate * t - Rate * b.last
        BY <1>1, <2>1, <2>4, RateTimes
      <4>2. Rate * t \in Int /\ Rate * b.last \in Int /\ Rate * now \in Int
        BY <1>1, <2>1, RateTimes
      <4>3. /\ Rate * (now - t) \in Int /\ Rate * (now - t) >= 0
            /\ Rate * (now - t) = Rate * now - Rate * t
        BY <1>1, RateTimes
      <4>4. Rate * (now - b.last) = Rate * now - Rate * b.last
        BY <1>1, <2>1, RateTimes
      <4> HIDE DEF due
      <4> QED BY <4>1, <4>2, <4>3, <4>4
    <3> HIDE DEF due
    <3>3. left \in 0 .. Full /\ left <= b.tokens + due
      BY <1>1, <2>1, <3>2 DEF Least
    <3>4. left + Rate * (now - t) >= ideal[k]
      BY <1>1, <2>1, <2>2, <3>2 DEF Least
    <3> HIDE DEF left
    <3>5. Worth(g + left) <= Worth(Full) + Earned(t)
      <4>1. /\ t - b.last \in Nat /\ t - b.last \in Int /\ t \in Int /\ b.last \in Int
            /\ g + b.tokens \in Int /\ g + left \in Int /\ Full \in Int
            /\ (g + b.tokens) + due \in Int /\ g + left <= (g + b.tokens) + due
        BY <1>1, <2>1, <2>4, <3>2, <3>3
      <4>2. Worth(due) <= Earned(t - b.last)
        BY <4>1, EarnedCovers, Zenon DEF due
      <4>3. Worth(g + left) <= Worth((g + b.tokens) + due)
        BY <4>1, WorthTimes, Zenon
      <4>4. Worth((g + b.tokens) + due) = Worth(g + b.tokens) + Worth(due)
        BY <3>2, <4>1, WorthTimes, Zenon
      <4>5. (t - b.last) + b.last = t
        BY <1>1, <2>1
      <4>6. Earned(t) = Earned(t - b.last) + Earned(b.last)
        <5>1. Earned((t - b.last) + b.last) = Earned(t - b.last) + Earned(b.last)
          BY <4>1, EarnedTimes, Zenon
        <5> QED BY <4>5, <5>1, Zenon
      <4>7. /\ Worth(g + left) \in Int /\ Worth(g + b.tokens) \in Int /\ Worth(due) \in Int
            /\ Worth(Full) \in Int
            /\ Earned(t - b.last) \in Int /\ Earned(b.last) \in Int /\ Earned(t) \in Int
        BY <3>2, <4>1, WorthTimes, EarnedTimes, Zenon
      <4> QED BY <2>2, <4>2, <4>3, <4>4, <4>6, <4>7
    <3> QED BY <1>1, <3>1, <3>3, <3>4, <3>5 DEF Bucket, g
  <2>5. CASE ~(t > b.last)
    <3>1. Found(k, t) = Bucket(b.tokens, b.last, t)
      BY <2>3, <2>5, Zenon DEF Refilled
    <3>2. b.last <= t + MaxDelay
      BY <1>1, <2>1
    <3> QED BY <1>1, <2>1, <2>2, <3>1, <3>2 DEF Bucket, g
  <2> QED BY <2>4, <2>5, Zenon
<1> QED BY <1>2, <1>3, Zenon

-----------------------------------------------------------------------------
(* The invariant.                                                           *)

\* At the start there are no buckets and no calls.
LEMMA InitInv == Init => Inv
<1> SUFFICES ASSUME Init PROVE Inv
  BY Zenon
<1>1. TypeOK
  BY LimiterConstants, FullNat DEF Init, TypeOK
<1>2. Prompt
  BY Zenon DEF Init, Prompt
<1>3. ASSUME NEW k \in Key PROVE Accounted(k) /\ Repaid(k) /\ Kept(k)
  BY <1>3, FullNat DEF Init, Accounted, Repaid, Kept
<1> QED BY <1>1, <1>2, <1>3, Zenon DEF Inv

\* Time passes: more has come in, and no call grows too old.
LEMMA TickInv == Inv /\ Tick => Inv'
<1> SUFFICES ASSUME Inv, Tick PROVE Inv'
  BY Zenon
<1>0. now \in Nat /\ MaxDelay \in Nat /\ Rate \in Nat /\ Full \in Nat /\ now' = now + 1
  BY LimiterConstants, FullNat DEF Inv, TypeOK, Tick
<1>1. TypeOK'
  <2>1. ideal' \in [Key -> Int]
    BY <1>0 DEF Inv, TypeOK, Tick, Least
  <2>2. now' \in 0 .. MaxTime /\ 0 .. now \subseteq 0 .. now'
    BY <1>0, LimiterConstants DEF Tick, Inv, TypeOK
  <2>3. bucket \in [Key -> [tokens : 0 .. Full, last : 0 .. now', lastSeen : 0 .. now'] \cup {None}]
    <3>1. [tokens : 0 .. Full, last : 0 .. now, lastSeen : 0 .. now]
            \subseteq [tokens : 0 .. Full, last : 0 .. now', lastSeen : 0 .. now']
      BY <2>2, Zenon
    <3> QED BY <3>1, Zenon DEF Inv, TypeOK
  <2>4. call \in [Caller -> [key : Key, time : 0 .. now'] \cup {None}]
    <3>1. [key : Key, time : 0 .. now] \subseteq [key : Key, time : 0 .. now']
      BY <2>2, Zenon
    <3> QED BY <3>1, Zenon DEF Inv, TypeOK
  <2> QED BY <2>1, <2>2, <2>3, <2>4, Zenon DEF Inv, TypeOK, Tick
<1>2. Prompt'
  BY <1>0 DEF Tick, Prompt, Inv, TypeOK
<1>3. ASSUME NEW k \in Key PROVE Accounted(k)' /\ Repaid(k)' /\ Kept(k)'
  <2>1. Accounted(k)'
    BY <1>3, Zenon DEF Inv, Accounted, Tick
  <2>2. Repaid(k)'
    <3>0. now - MaxDelay \in Int /\ now' - MaxDelay \in Int /\ now - MaxDelay <= now' - MaxDelay
      BY <1>0
    <3>1. Earned(now - MaxDelay) <= Earned(now' - MaxDelay)
      BY <3>0, EarnedTimes, Zenon
    <3>2. granted[k] * Cost \in Int
      BY <1>3, CostTimes DEF Inv, TypeOK
    <3>3. Worth(granted[k] * Cost) \in Int /\ Earned(now - MaxDelay) \in Int /\ Earned(now' - MaxDelay) \in Int
      BY <3>0, <3>2, EarnedTimes, WorthTimes, Zenon
    <3>4. UNCHANGED <<granted, bucket>>
      BY Zenon DEF Tick
    <3>5. bucket[k] = None => granted[k] = 0 \/ Worth(granted[k] * Cost) <= Earned(now - MaxDelay)
      BY <1>3, Zenon DEF Inv, Repaid
    <3>6. bucket[k] = None => granted[k] = 0 \/ Worth(granted[k] * Cost) <= Earned(now' - MaxDelay)
      BY <3>1, <3>3, <3>5
    <3> QED BY <3>4, <3>6, Zenon DEF Repaid, Worth, Earned
  <2>3. Kept(k)'
    <3>1. ideal[k] \in Int /\ ideal'[k] = Least(Full, ideal[k] + Rate)
      BY <1>3, Zenon DEF Inv, TypeOK, Tick
    <3>2. ideal'[k] <= Full /\ ideal'[k] <= ideal[k] + Rate /\ ideal'[k] \in Int
      BY <1>0, <3>1 DEF Least
    <3>3. ASSUME bucket[k] # None
          PROVE  bucket[k].tokens + Rate * (now' - bucket[k].last) >= ideal'[k]
      <4>1. bucket[k].last \in Nat /\ bucket[k].tokens \in Nat
        BY <1>3, <3>3, FullNat DEF Inv, TypeOK
      <4>2. /\ Rate * (now - bucket[k].last) \in Int
            /\ Rate * (now' - bucket[k].last) = Rate * (now - bucket[k].last) + Rate
        <5> DEFINE x == now - bucket[k].last
        <5>1. x \in Int /\ now' - bucket[k].last = x + 1
          BY <1>0, <4>1
        <5> HIDE DEF x
        <5>2. Rate * x \in Int /\ Rate * (x + 1) = Rate * x + Rate
          BY <5>1, RateNext, Zenon
        <5> QED BY <5>1, <5>2, Zenon DEF x
      <4>3. bucket[k].tokens + Rate * (now - bucket[k].last) >= ideal[k]
        BY <1>3, <3>3, Zenon DEF Inv, Kept
      <4> QED BY <1>0, <3>1, <3>2, <4>1, <4>2, <4>3
    <3> QED BY <3>2, <3>3, Zenon DEF Tick, Kept
  <2> QED BY <2>1, <2>2, <2>3, Zenon
<1> QED BY <1>1, <1>2, <1>3, Zenon DEF Inv

\* A call that reads the clock is as prompt as can be.
LEMMA ArriveInv ==
    ASSUME NEW c \in Caller, NEW k \in Key, Inv, Arrive(c, k) PROVE Inv'
<1>1. TypeOK'
  BY DEF Inv, TypeOK, Arrive
<1>2. Prompt'
  <2> SUFFICES ASSUME NEW d \in Caller, call'[d] # None PROVE now' - call'[d].time <= MaxDelay
    BY Zenon DEF Prompt
  <2>1. CASE d = c
    BY <2>1, LimiterConstants DEF Inv, TypeOK, Arrive
  <2>2. CASE d # c
    BY <2>2, Zenon DEF Inv, TypeOK, Prompt, Arrive
  <2> QED BY <2>1, <2>2, Zenon
<1> QED BY <1>1, <1>2, Zenon DEF Inv, Arrive, Accounted, Repaid, Kept

\* A decision moves tokens to what was granted, or only refills the bucket.
LEMMA DecideInv ==
    ASSUME NEW c \in Caller, Inv, Decide(c) PROVE Inv'
<1> DEFINE k == call[c].key
           t == call[c].time
           b == Found(k, t)
<1>1. call[c] # None /\ k \in Key /\ t \in 0 .. now /\ now - t <= MaxDelay
  BY Zenon DEF Inv, TypeOK, Prompt, Decide
<1>2. /\ b.tokens \in 0 .. Full /\ b.last \in 0 .. now /\ b.lastSeen = t
      /\ b = Bucket(b.tokens, b.last, b.lastSeen)
      /\ Worth(granted[k] * Cost + b.tokens) <= Worth(Full) + Earned(b.last)
      /\ b.last <= b.lastSeen + MaxDelay
      /\ b.tokens + Rate * (now - b.last) >= ideal[k]
  BY <1>1, FoundIsSound, Zenon DEF Inv
<1>3. /\ \/ b.tokens >= Cost /\ Grant(k, b)
         \/ b.tokens < Cost /\ bucket' = [bucket EXCEPT ![k] = b] /\ UNCHANGED <<granted, ideal>>
      /\ call' = [call EXCEPT ![c] = None] /\ UNCHANGED <<now, tick>>
  BY Zenon DEF Decide, Found
<1> HIDE DEF k, t, b
<1>4. /\ now \in Nat /\ Cost \in Nat \ {0} /\ Full \in Nat /\ granted[k] \in Nat /\ ideal[k] \in Int
      /\ ideal[k] <= Full /\ granted[k] * Cost \in Nat
      /\ (granted[k] + 1) * Cost = granted[k] * Cost + Cost
      /\ Rate * b.last \in Int /\ Rate * (now - b.last) \in Int
  <2>1. /\ now \in Nat /\ Cost \in Nat \ {0} /\ Full \in Nat
        /\ granted[k] \in Nat /\ ideal[k] \in Int /\ ideal[k] <= Full
    BY <1>1, LimiterConstants, FullNat DEF Inv, TypeOK, Kept
  <2>2. b.last \in Int /\ now - b.last \in Int
    BY <1>2, <2>1
  <2>3. Rate * b.last \in Int /\ Rate * (now - b.last) \in Int
    BY <2>2, RateTimes, Zenon
  <2> QED BY <2>1, <2>3, CostTimes, Zenon
<1>5. \E n \in Int :
         /\ n \in 0 .. Full
         /\ bucket' = [bucket EXCEPT ![k] = Bucket(n, b.last, t)]
         /\ granted' \in [Key -> Nat] /\ ideal' \in [Key -> Int]
         /\ Worth(granted'[k] * Cost + n) <= Worth(Full) + Earned(b.last)
         /\ ideal'[k] <= Full /\ n + Rate * (now - b.last) >= ideal'[k]
         /\ \A q \in Key : q # k => granted'[q] = granted[q] /\ ideal'[q] = ideal[q]
  <2>1. CASE b.tokens >= Cost /\ Grant(k, b)
    <3> WITNESS b.tokens - Cost \in Int
    <3>1. granted' = [granted EXCEPT ![k] = @ + 1] /\ ideal' = [ideal EXCEPT ![k] = @ - Cost]
      BY <2>1, Zenon DEF Grant
    <3>2. granted'[k] = granted[k] + 1 /\ ideal'[k] = ideal[k] - Cost
      BY <1>1, <3>1, Zenon DEF Inv, TypeOK
    <3>3. granted'[k] * Cost = granted[k] * Cost + Cost
      BY <1>4, <3>2, Zenon
    <3>3b. granted'[k] * Cost + (b.tokens - Cost) = granted[k] * Cost + b.tokens
      BY <1>2, <1>4, <3>3
    <3>3c. Worth(granted'[k] * Cost + (b.tokens - Cost)) <= Worth(Full) + Earned(b.last)
      BY <1>2, <3>3b, Zenon
    <3>4. /\ b.tokens - Cost \in 0 .. Full
          /\ ideal'[k] <= Full /\ (b.tokens - Cost) + Rate * (now - b.last) >= ideal'[k]
      BY <1>2, <1>4, <2>1, <3>2, <3>3
    <3>5. granted' \in [Key -> Nat] /\ ideal' \in [Key -> Int]
      BY <1>1, <1>4, <3>1 DEF Inv, TypeOK
    <3>6. \A q \in Key : q # k => granted'[q] = granted[q] /\ ideal'[q] = ideal[q]
      BY <3>1, Zenon DEF Inv, TypeOK
    <3>7. bucket' = [bucket EXCEPT ![k] = Bucket(b.tokens - Cost, b.last, t)]
      BY <1>2, <2>1, Zenon DEF Grant
    <3> QED BY <3>3c, <3>4, <3>5, <3>6, <3>7, Zenon
  <2>2. CASE bucket' = [bucket EXCEPT ![k] = b] /\ UNCHANGED <<granted, ideal>>
    <3> WITNESS b.tokens \in Int
    <3>1. bucket' = [bucket EXCEPT ![k] = Bucket(b.tokens, b.last, t)]
      BY <1>2, <2>2, Zenon
    <3> QED BY <1>2, <1>4, <2>2, <3>1, Zenon DEF Inv, TypeOK
  <2> QED BY <1>3, <2>1, <2>2, Zenon
<1>6. PICK n \in Int :
         /\ n \in 0 .. Full
         /\ bucket' = [bucket EXCEPT ![k] = Bucket(n, b.last, t)]
         /\ granted' \in [Key -> Nat] /\ ideal' \in [Key -> Int]
         /\ Worth(granted'[k] * Cost + n) <= Worth(Full) + Earned(b.last)
         /\ ideal'[k] <= Full /\ n + Rate * (now - b.last) >= ideal'[k]
         /\ \A q \in Key : q # k => granted'[q] = granted[q] /\ ideal'[q] = ideal[q]
  BY <1>5, Zenon
<1>7. Bucket(n, b.last, t) \in [tokens : 0 .. Full, last : 0 .. now, lastSeen : 0 .. now]
  BY <1>1, <1>2, <1>6, Zenon DEF Bucket
<1>8. TypeOK'
  BY <1>1, <1>3, <1>6, <1>7, Zenon DEF Inv, TypeOK
<1>9. Prompt'
  BY <1>3, Zenon DEF Inv, TypeOK, Prompt
<1>10. ASSUME NEW q \in Key PROVE Accounted(q)' /\ Repaid(q)' /\ Kept(q)'
  <2>1. CASE q = k
    <3>1. bucket'[k] = Bucket(n, b.last, t) /\ bucket'[k] # None
      BY <1>1, <1>6, <1>7, LimiterConstants DEF Inv, TypeOK
    <3>2. /\ bucket'[q].tokens = n /\ bucket'[q].last = b.last /\ bucket'[q].lastSeen = t
      BY <2>1, <3>1 DEF Bucket
    <3>3. Accounted(q)'
      BY <1>2, <1>6, <2>1, <3>2, Zenon DEF Accounted
    <3>4. Repaid(q)'
      BY <2>1, <3>1, Zenon DEF Repaid
    <3>5. Kept(q)'
      BY <1>3, <1>6, <2>1, <3>2, Zenon DEF Kept
    <3> QED BY <3>3, <3>4, <3>5, Zenon
  <2>2. CASE q # k
    <3>1. bucket'[q] = bucket[q] /\ granted'[q] = granted[q] /\ ideal'[q] = ideal[q]
      BY <1>6, <1>10, <2>2, Zenon DEF Inv, TypeOK
    <3> QED BY <1>3, <1>10, <3>1, Zenon DEF Inv, Accounted, Repaid, Kept
  <2> QED BY <2>1, <2>2, Zenon
<1> QED BY <1>8, <1>9, <1>10, Zenon DEF Inv

\* The cleanup evicts a bucket only when what was granted has been repaid.
LEMMA SweepInv == Inv /\ Sweep => Inv'
<1> SUFFICES ASSUME Inv, Sweep PROVE Inv'
  BY Zenon
<1>0. /\ now \in Nat /\ tick \in 0 .. now /\ Full \in Nat
      /\ Rate \in Nat /\ TTL \in Nat /\ MaxDelay \in Nat
      /\ UNCHANGED <<now, call, granted, ideal>>
  BY LimiterConstants, FullNat DEF Inv, TypeOK, Sweep
<1>1. \A k \in Key : bucket'[k] \in {bucket[k], None}
  BY Zenon DEF Sweep
<1>2. TypeOK'
  <2>1. bucket' \in [Key -> [tokens : 0 .. Full, last : 0 .. now, lastSeen : 0 .. now] \cup {None}]
    <3>1. \A k \in Key : bucket[k] \in [tokens : 0 .. Full, last : 0 .. now, lastSeen : 0 .. now] \cup {None}
      BY Zenon DEF Inv, TypeOK
    <3> QED BY <1>1, <3>1, Zenon DEF Sweep
  <2> QED BY <1>0, <2>1, Zenon DEF Inv, TypeOK, Sweep
<1>3. Prompt'
  BY <1>0, Zenon DEF Inv, Prompt
<1>4. ASSUME NEW k \in Key PROVE Accounted(k)' /\ Repaid(k)' /\ Kept(k)'
  <2>1. CASE bucket'[k] = bucket[k]
    BY <1>0, <1>4, <2>1, Zenon DEF Inv, Accounted, Repaid, Kept
  <2>2. CASE bucket'[k] # bucket[k]
    <3> DEFINE b == bucket[k]
               g == granted[k] * Cost
    <3>1. b # None /\ bucket'[k] = None /\ tick - b.lastSeen > TTL
      BY <1>4, <2>2, Zenon DEF Sweep
    <3>2. /\ b.tokens \in 0 .. Full /\ b.last \in 0 .. now /\ b.lastSeen \in 0 .. now
          /\ b.last <= b.lastSeen + MaxDelay
          /\ Worth(g + b.tokens) <= Worth(Full) + Earned(b.last)
          /\ ideal[k] <= Full /\ g \in Nat
      BY <1>4, <3>1, CostTimes, Zenon DEF Inv, TypeOK, Accounted, Kept
    <3> HIDE DEF b, g
    <3>3. /\ Span \in Int /\ b.last + Span <= now - MaxDelay
          /\ b.last \in Int /\ b.last + Span \in Int /\ now - MaxDelay \in Int
          /\ g \in Int /\ Full \in Int /\ g + b.tokens \in Int /\ g <= g + b.tokens
      BY <1>0, <3>1, <3>2 DEF Span
    <3>4. Worth(Full) <= Earned(Span)
      BY EarnedCovers, Zenon
    <3>5. /\ Earned(b.last + Span) = Earned(b.last) + Earned(Span)
          /\ Earned(b.last + Span) <= Earned(now - MaxDelay)
          /\ Earned(b.last) \in Int /\ Earned(Span) \in Int /\ Earned(now - MaxDelay) \in Int
      BY <3>3, EarnedTimes, Zenon
    <3>6. Worth(g) <= Worth(g + b.tokens) /\ Worth(g) \in Int /\ Worth(g + b.tokens) \in Int /\ Worth(Full) \in Int
      BY <3>3, WorthTimes, Zenon
    <3>7. Worth(g) <= Earned(now - MaxDelay)
      BY <3>2, <3>4, <3>5, <3>6
    <3> QED BY <1>0, <3>1, <3>2, <3>7, Zenon DEF Accounted, Repaid, Kept, g
  <2> QED BY <2>1, <2>2, Zenon
<1> QED BY <1>2, <1>3, <1>4, Zenon DEF Inv

\* Every step keeps the invariant.
LEMMA NextInv == Inv /\ [Next]_vars => Inv'
<1> SUFFICES ASSUME Inv, [Next]_vars PROVE Inv'
  BY Zenon
<1>1. CASE Tick
  BY <1>1, TickInv, Zenon
<1>2. CASE Fire
  <2>1. TypeOK'
    BY <1>2 DEF Inv, TypeOK, Fire
  <2> QED BY <1>2, <2>1, Zenon DEF Inv, Fire, Prompt, Accounted, Repaid, Kept
<1>3. CASE Sweep
  BY <1>3, SweepInv, Zenon
<1>4. ASSUME NEW c \in Caller, Decide(c) PROVE Inv'
  BY <1>4, DecideInv, Zenon
<1>5. ASSUME NEW c \in Caller, NEW k \in Key, Arrive(c, k) PROVE Inv'
  BY <1>5, ArriveInv, Zenon
<1>6. CASE UNCHANGED vars
  BY <1>6, Zenon DEF vars, Inv, TypeOK, Prompt, Accounted, Repaid, Kept
<1> QED BY <1>1, <1>2, <1>3, <1>4, <1>5, <1>6, Zenon DEF Next

-----------------------------------------------------------------------------
(* The theorems.                                                            *)

\* What the invariant says of the present, for the properties of Limiter.
LEMMA InvImplies == Inv => GrantsBounded /\ NothingLost
<1> SUFFICES ASSUME Inv, NEW k \in Key
             PROVE  /\ granted[k] * Cost * Span <= Full * Span + Income * now
                    /\ bucket[k] # None =>
                          Least(Full, bucket[k].tokens + Rate * (now - bucket[k].last)) >= ideal[k]
  BY Zenon DEF GrantsBounded, NothingLost
<1> DEFINE g == granted[k] * Cost
<1>1. /\ now \in Nat /\ Full \in Nat /\ g \in Nat /\ ideal[k] \in Int /\ ideal[k] <= Full
      /\ Rate \in Nat /\ MaxDelay \in Nat
  BY LimiterConstants, FullNat, CostTimes DEF Inv, TypeOK, Kept
<1>1b. /\ now \in Int /\ 0 <= now /\ Full \in Int /\ 0 <= Full /\ g \in Int /\ 0 \in Int
       /\ now - MaxDelay \in Int /\ now - MaxDelay <= now
  BY <1>1
<1>1c. /\ Earned(now) \in Int /\ 0 <= Earned(now) /\ Worth(g) \in Int
       /\ Worth(Full) \in Int /\ Worth(0) <= Worth(Full) /\ Worth(0) = 0
  BY <1>1b, EarnedTimes, WorthTimes, Zenon
<1>2. CASE bucket[k] = None
  <2>1. granted[k] = 0 \/ Worth(g) <= Earned(now - MaxDelay)
    BY <1>2, Zenon DEF Inv, Repaid
  <2>2. Earned(now - MaxDelay) \in Int /\ Earned(now - MaxDelay) <= Earned(now)
    BY <1>1b, EarnedTimes, Zenon
  <2>3. granted[k] = 0 => g = 0
    BY LimiterConstants
  <2> HIDE DEF g
  <2>4. granted[k] = 0 => Worth(g) = 0
    BY <1>1c, <2>3, Zenon
  <2>5. Worth(g) <= Worth(Full) + Earned(now)
    BY <1>1c, <2>1, <2>2, <2>4
  <2> QED BY <1>2, <2>5, Zenon DEF g, Worth, Earned
<1>3. CASE bucket[k] # None
  <2> DEFINE b == bucket[k]
  <2>1. /\ b.tokens \in 0 .. Full /\ b.last \in 0 .. now
        /\ Worth(g + b.tokens) <= Worth(Full) + Earned(b.last)
        /\ b.tokens + Rate * (now - b.last) >= ideal[k]
    BY <1>3, Zenon DEF Inv, TypeOK, Accounted, Kept
  <2> HIDE DEF b, g
  <2>2. Rate * (now - b.last) \in Int
    BY <1>1, <2>1, RateTimes
  <2>3. Worth(g) <= Worth(Full) + Earned(now)
    <3>1. b.last \in Int /\ b.last <= now /\ g + b.tokens \in Int /\ g <= g + b.tokens
      BY <1>1, <2>1
    <3>2. Earned(b.last) \in Int /\ Earned(b.last) <= Earned(now)
      BY <1>1b, <3>1, EarnedTimes, Zenon
    <3>3. Worth(g + b.tokens) \in Int /\ Worth(g) <= Worth(g + b.tokens)
      BY <1>1b, <3>1, WorthTimes, Zenon
    <3> QED BY <1>1c, <2>1, <3>2, <3>3
  <2>4. Least(Full, b.tokens + Rate * (now - b.last)) >= ideal[k]
    BY <1>1, <2>1, <2>2, Zenon DEF Least
  <2> QED BY <2>3, <2>4, Zenon DEF b, g, Worth, Earned
<1> QED BY <1>2, <1>3, Zenon

\* The invariant holds in every reachable state.
THEOREM AlwaysInv == Spec => []Inv
  BY InitInv, NextInv, PTL DEF Spec

\* The variables keep their types: tokens stay between zero and the burst, and
\* no bucket is from the future.
THEOREM TypeCorrect == Spec => []TypeOK
<1>1. Inv => TypeOK
  BY Zenon DEF Inv
<1> QED BY <1>1, AlwaysInv, PTL

\* For any number of clients and concurrent calls, any rate and burst, and any TTL
\* that is longer than two waits for the lock: no client gets more than its burst
\* and what the rate, or a burst per Span, has brought in, although calls are
\* decided out of order and buckets evicted before they are full (Allow,
\* cleanupLoop).
THEOREM BurstAndRate == Spec => []GrantsBounded
<1>1. Inv => GrantsBounded
  BY InvImplies, Zenon
<1> QED BY <1>1, AlwaysInv, PTL

\* A bucket never holds less, with what is due, than one that is refilled at
\* every instant: delays and evictions cost no client a request (Allow).
THEOREM NoTokensLost == Spec => []NothingLost
<1>1. Inv => NothingLost
  BY InvImplies, Zenon
<1> QED BY <1>1, AlwaysInv, PTL

-----------------------------------------------------------------------------
(* The ring of recent events.                                               *)

\* The slot of the k-th newest event.
Slot(k) == IF k <= recentNext THEN recentNext - k ELSE recentNext - k + Capacity

\* An event, or none yet.
Something == Recent!Event \cup {None}

\* The types of the ring.
RingType ==
    /\ DOMAIN recent = 0..Capacity-1
    /\ recentNext \in 0..Capacity-1 /\ recentCount \in 0..Capacity
    /\ remembered \in Seq(Something)
    /\ reported \in Nat
    /\ reporter \in [Reporter -> Something]

\* The ring holds the newest events, as many as there are or as it has slots.
RingInv ==
    /\ RingType
    /\ recentCount = IF Len(remembered) < Capacity THEN Len(remembered) ELSE Capacity
    /\ \A k \in 1..recentCount : recent[Slot(k)] = remembered[Len(remembered) - k + 1]

\* The ring is empty at the start.
LEMMA RingInit ==
    ASSUME Recent!RecentEventsConstants, Recent!Init
    PROVE  RingInv
<1>1. Capacity \in Nat \ {0}
  BY Zenon DEF Recent!RecentEventsConstants
<1>2. reporter \in [Reporter -> Something]
  BY Zenon DEF Recent!Init, Something
<1> QED BY <1>1, <1>2, SMTT(30) DEF Recent!Init, RingInv, RingType

\* Below twice the modulus, taking the remainder is one subtraction at most.
LEMMA Wrap ==
    ASSUME NEW n \in Nat \ {0}, NEW x \in Nat, x < 2 * n
    PROVE  x % n = IF x < n THEN x ELSE x - n
  BY SMTT(30)

\* An event takes the place of the oldest; the others become one older.
LEMMA RememberKeeps ==
    ASSUME Recent!RecentEventsConstants, RingInv,
           NEW r \in Reporter, Recent!RememberSecurity(r)
    PROVE  RingInv'
<1> DEFINE e == reporter[r]
           have == Len(remembered)
<1>0. Capacity \in Nat \ {0}
  BY Zenon DEF Recent!RecentEventsConstants
<1>1. /\ RingType /\ e \in Something /\ have \in Nat
      /\ recentNext \in 0..Capacity-1 /\ recentCount \in 0..Capacity
      /\ DOMAIN recent = 0..Capacity-1
  <2>1. RingType /\ e \in Something
    BY Zenon DEF RingInv, RingType
  <2> QED BY <2>1, SMTT(30) DEF RingType
<1>2. recentNext' = IF recentNext + 1 < Capacity THEN recentNext + 1 ELSE 0
  <2> DEFINE x == recentNext + 1
  <2>1. recentNext' = x % Capacity
    BY Zenon DEF Recent!RememberSecurity
  <2>2. x \in Nat /\ x < 2 * Capacity
    BY <1>0, <1>1, SMTT(30)
  <2>3. x % Capacity = IF x < Capacity THEN x ELSE x - Capacity
    <3> HIDE DEF x
    <3> QED BY <1>0, <2>2, Wrap, Zenon
  <2> QED BY <1>0, <1>1, <2>1, <2>3, SMTT(30)
<1>3. /\ remembered' \in Seq(Something) /\ Len(remembered') = have + 1
      /\ remembered'[have + 1] = e
      /\ \A i \in 1..have : remembered'[i] = remembered[i]
  <2>1. remembered' = Append(remembered, e) /\ remembered \in Seq(Something)
    BY <1>1, Zenon DEF Recent!RememberSecurity, RingType
  <2> HIDE DEF e
  <2> QED BY <1>1, <2>1, SMTT(30)
<1>4. /\ DOMAIN recent' = 0..Capacity-1 /\ recent'[recentNext] = e
      /\ \A i \in 0..Capacity-1 : i # recentNext => recent'[i] = recent[i]
  BY <1>1, Zenon DEF Recent!RememberSecurity
<1>5. recentCount' = IF recentCount < Capacity THEN recentCount + 1 ELSE recentCount
  BY Zenon DEF Recent!RememberSecurity
<1>6. RingType'
  <2>1. reporter' \in [Reporter -> Something]
    BY <1>1, Zenon DEF Recent!RememberSecurity, RingType, Something
  <2>2. recentNext' \in 0..Capacity-1 /\ recentCount' \in 0..Capacity
    BY <1>0, <1>1, <1>2, <1>5, SMTT(30)
  <2> QED BY <1>1, <1>3, <1>4, <2>1, <2>2, Zenon DEF RingType, Recent!RememberSecurity, Something, Recent!Event
<1>7. recentCount = IF have < Capacity THEN have ELSE Capacity
  BY Zenon DEF RingInv
<1> HIDE DEF e, have
<1>8. recentCount' = IF have + 1 < Capacity THEN have + 1 ELSE Capacity
  BY <1>0, <1>1, <1>5, <1>7, SMTT(30)
<1>9. ASSUME NEW k \in 1..recentCount'
      PROVE  recent'[Slot(k)'] = remembered'[Len(remembered') - k + 1]
  <2>0. Len(remembered') - k + 1 = have + 1 - k + 1
    BY <1>1, <1>3, SMTT(30)
  <2>1. CASE k = 1
    <3>1. Slot(k)' = recentNext
      BY <1>0, <1>1, <1>2, <2>1, SMTT(30) DEF Slot
    <3>2. have + 1 - k + 1 = have + 1
      BY <1>1, <2>1, SMTT(30)
    <3> QED BY <1>3, <1>4, <2>0, <3>1, <3>2, Zenon
  <2>2. CASE k # 1
    <3>1. k - 1 \in 1..recentCount /\ k - 1 < Capacity
      BY <1>0, <1>1, <1>7, <1>8, <2>2, SMTT(30)
    <3>2. /\ Slot(k)' = Slot(k - 1) /\ Slot(k - 1) \in 0..Capacity-1
          /\ Slot(k - 1) # recentNext
      BY <1>0, <1>1, <1>2, <3>1, SMTT(30) DEF Slot
    <3>3. recent[Slot(k - 1)] = remembered[have - (k - 1) + 1]
      BY <3>1, Zenon DEF RingInv, have
    <3>4. have - (k - 1) + 1 = have + 1 - k + 1 /\ have + 1 - k + 1 \in 1..have
      BY <1>0, <1>1, <1>7, <3>1, SMTT(30)
    <3> QED BY <1>3, <1>4, <2>0, <3>2, <3>3, <3>4, Zenon
  <2> QED BY <2>1, <2>2, Zenon
<1>10. \A k \in 1..recentCount' : recent'[Slot(k)'] = remembered'[Len(remembered') - k + 1]
  BY <1>9, Zenon
<1>11. recentCount' = IF Len(remembered') < Capacity THEN Len(remembered') ELSE Capacity
  BY <1>3, <1>8, Zenon
<1> QED BY <1>6, <1>10, <1>11, Zenon DEF RingInv

\* Every step keeps the ring in order.
LEMMA RingPreserved ==
    ASSUME Recent!RecentEventsConstants, RingInv, [Recent!Next]_Recent!vars
    PROVE  RingInv'
<1>1. ASSUME NEW r \in Reporter, Recent!Report(r) PROVE RingInv'
  <2>1. reported + 1 \in Something /\ reported' \in Nat
    BY <1>1, SMTT(30) DEF RingInv, RingType, Something, Recent!Event, Recent!Report,
       Recent!RecentEventsConstants
  <2>2. reporter' \in [Reporter -> Something]
    BY <1>1, <2>1, Zenon DEF RingInv, RingType, Recent!Report
  <2> QED BY <1>1, <2>1, <2>2, Zenon DEF RingInv, RingType, Slot, Recent!Report, Something, Recent!Event
<1>2. CASE UNCHANGED Recent!vars
  BY <1>2, Zenon DEF Recent!vars, RingInv, RingType, Slot, Something, Recent!Event
<1> QED BY <1>1, <1>2, RememberKeeps, Zenon DEF Recent!Next

\* Reading from the oldest slot on and reading backwards from the newest event
\* come to the same.
LEMMA RingReads ==
    ASSUME Recent!RecentEventsConstants, RingInv
    PROVE  Recent!RecentIsTail
<1> SUFFICES ASSUME NEW limit \in 0..Capacity+1
             PROVE  LET have == Len(remembered)
                        kept == IF have < Capacity THEN have ELSE Capacity
                        n == IF limit = 0 \/ limit > kept THEN kept ELSE limit
                    IN  Recent!RecentSecurity(limit) = SubSeq(remembered, have - n + 1, have)
  BY Zenon DEF Recent!RecentIsTail
<1> DEFINE have == Len(remembered)
           n == Recent!Amount(limit)
           oldest == (recentNext - recentCount + Capacity) % Capacity
           skip == recentCount - n
<1>0. Capacity \in Nat \ {0}
  BY Zenon DEF Recent!RecentEventsConstants
<1>1. /\ have \in Nat /\ remembered \in Seq(Something)
      /\ recentNext \in 0..Capacity-1 /\ recentCount \in 0..Capacity
      /\ recentCount = IF have < Capacity THEN have ELSE Capacity
  <2>1. RingType
    BY Zenon DEF RingInv
  <2>2. recentCount = IF have < Capacity THEN have ELSE Capacity
    BY Zenon DEF RingInv
  <2> QED BY <2>1, <2>2, SMTT(30) DEF RingType
<1>1a. recentNext \in 0..Capacity-1 /\ recentCount \in 0..Capacity
  BY <1>1, Zenon
<1>2. n = IF limit = 0 \/ limit > recentCount THEN recentCount ELSE limit
  BY Zenon DEF Recent!Amount
<1>3. n \in 0..recentCount /\ recentCount <= have
  BY <1>0, <1>1, <1>2, SMTT(30)
<1>4. Recent!RecentSecurity(limit) = [i \in 1..n |-> recent[(oldest + skip + i - 1) % Capacity]]
  BY Zenon DEF Recent!RecentSecurity
<1>5. oldest = IF recentCount <= recentNext THEN recentNext - recentCount
               ELSE recentNext - recentCount + Capacity
  <2> DEFINE x == recentNext - recentCount + Capacity
  <2>1. x \in Nat /\ x < 2 * Capacity
    BY <1>0, <1>1a, SMTT(30)
  <2>2. oldest = IF x < Capacity THEN x ELSE x - Capacity
    <3>1. oldest = x % Capacity
      BY Zenon
    <3> HIDE DEF x, oldest
    <3> QED BY <1>0, <2>1, <3>1, Wrap, Zenon
  <2> HIDE DEF oldest
  <2> QED BY <1>0, <1>1a, <2>2, SMTT(30)
<1> HIDE DEF have, n, oldest
<1>6. ASSUME NEW i \in 1..n
      PROVE  recent[(oldest + skip + i - 1) % Capacity] = remembered[have - n + i]
  <2> DEFINE k == n - i + 1
             x == oldest + skip + i - 1
  <2>1. k \in 1..recentCount
    BY <1>1a, <1>3, SMTT(30)
  <2>2. x \in Nat /\ x < 2 * Capacity
    BY <1>0, <1>1a, <1>3, <1>5, SMTT(30)
  <2>3. x % Capacity = IF x < Capacity THEN x ELSE x - Capacity
    BY <1>0, <2>2, Wrap, SMTT(30)
  <2>4. (IF x < Capacity THEN x ELSE x - Capacity) = Slot(k)
    BY <1>0, <1>1a, <1>3, <1>5, SMTT(30) DEF Slot
  <2>5. have - k + 1 = have - n + i
    BY <1>1, <1>3, SMTT(30)
  <2>6. recent[Slot(k)] = remembered[have - k + 1]
    BY <2>1, Zenon DEF RingInv, have
  <2> QED BY <2>3, <2>4, <2>5, <2>6, Zenon
<1>7. SubSeq(remembered, have - n + 1, have) = [i \in 1..n |-> remembered[have - n + i]]
  BY <1>1, <1>3, SMTT(30) DEF have
<1>8. Recent!RecentSecurity(limit) = SubSeq(remembered, have - n + 1, have)
  BY <1>4, <1>6, <1>7, Zenon
<1> QED BY <1>1, <1>2, <1>8, Zenon DEF have

\* Whatever a reader asks for, it gets the newest events in the order in which
\* they came (RecentSecurity), for a ring of any capacity.
THEOREM RingIsTail == Recent!Spec => []RecentIsTail
<1>1. RingInv /\ [Recent!Next]_Recent!vars => RingInv'
  BY DataPlaneConstants, RingPreserved
<1>2. RingInv => RecentIsTail
  BY DataPlaneConstants, RingReads DEF RecentIsTail
<1>3. Recent!Init => RingInv
  BY DataPlaneConstants, RingInit, Zenon
<1> QED BY <1>1, <1>2, <1>3, PTL DEF Recent!Spec

-----------------------------------------------------------------------------
(* The way of a request through the checks.                                 *)

\* The checks that come after each one that may turn the request away.
AfterBot == {"action", "body", "inspect", "backend"}
AfterLimit == AfterBot \cup {"bot"}
AfterReputation == AfterLimit \cup {"redirect", "limit"}
AfterAccess == AfterReputation \cup {"reputation"}
AfterSNI == AfterAccess \cup {"client", "access"}
AfterRoute == AfterSNI \cup {"sni"}

\* The client was shown a certificate for the name it asked for, and the request
\* is routed by the name it carries, each by the runtime that was loaded for it.
Named ==
    /\ req.sni # <<>> => req.https
    /\ pc \in AfterRoute \cup {"route"} /\ req.https =>
          shaken \in Runtimes /\ shown \in Pipeline!CertificatesOf(shaken, req.sni)
    /\ pc \in AfterRoute =>
          /\ runtime \in Runtimes
          /\ route = Pipeline!RouteOf(runtime, req.host) /\ route # NoRoute
    /\ pc \in {"handshake", "route"} => runtime = NoRuntime
    /\ pc \in AfterSNI => req.sni \in {<<>>, req.host}
    /\ Pipeline!CertificateOfRoute

\* The client is the one the address and the header tell.
Identified ==
    /\ req.forwarded \in Headers
    /\ client # Unknown => client = Pipeline!ClientIP(req.remote, Pipeline!Get(req.forwarded))

\* The checks behind the request had no reason against it, and the optional ones
\* that are still to come were asked nothing.
Cleared ==
    /\ DOMAIN saw = DOMAIN Pipeline!Unasked
    /\ pc # "done" => ~saw.redirect
    /\ pc \notin {"backend", "done"} => ~saw.panics /\ saw.matches = {}
    /\ pc \in AfterAccess =>
          /\ client \notin saw.access.deny
          /\ saw.access.allow # {} => client \in saw.access.allow
    /\ pc \in AfterReputation => saw.reputation # "block"
    /\ pc \in AfterLimit => saw.granted
    /\ pc \in AfterBot =>
          (saw.bot.mode = "block" => saw.bot.agent # "bad" /\ saw.bot.granted)
    /\ pc \in {"body", "inspect"} => saw.engine # "disabled"
    /\ pc \in {"body", "inspect", "backend"} => saw.action = "group"
    /\ pc = "inspect" =>
          /\ saw.body.wire \in {"none", "small"}
          /\ saw.body.encoding \in {"identity", "gzip"}
          /\ saw.body.inflated = "small"
    /\ pc = "backend" => Pipeline!Blameless

\* The events that accompany a request which is let through.
Quiet == {"reputation_monitor", "bot_monitor", "detect", "waf_error"}

\* Until a request is done nothing but accompanying events were logged.
Trail ==
    /\ pc # "done" => counted = <<>> /\ events \in Seq(Quiet)
    /\ Pipeline!Audited

\* A request is done when it was given a status.
Answered == (pc = "done") <=> (status # "none")

\* The inductive invariant.
PipelineInv ==
    /\ pc \in Pipeline!Stages /\ Answered
    /\ Named /\ Identified /\ Cleared /\ Pipeline!ForwardedExactly /\ Trail

\* Initially nothing was shown, asked or logged.
LEMMA PipelineInit ==
    ASSUME Pipeline!RequestPipelineConstants, Pipeline!Init
    PROVE  PipelineInv
<1>1. /\ pc \in {"handshake", "route"} /\ (req.https <=> pc = "handshake")
      /\ req.sni # <<>> => req.https
      /\ req.forwarded \in Headers /\ runtime = NoRuntime
      /\ client = Unknown /\ saw = Pipeline!Unasked
      /\ events = <<>> /\ counted = <<>> /\ status = "none"
  BY Zenon DEF Pipeline!Init
<1>2. Named
  BY <1>1, Zenon DEF Named, AfterRoute, AfterSNI, AfterAccess, AfterReputation, AfterLimit,
     AfterBot, Pipeline!CertificateOfRoute
<1>3. Cleared
  BY <1>1, Zenon DEF Cleared, AfterAccess, AfterReputation, AfterLimit, AfterBot,
     Pipeline!Unasked
<1>4. Trail
  BY <1>1, SMTT(30) DEF Trail, Pipeline!Audited
<1> QED
  BY <1>1, <1>2, <1>3, <1>4, Zenon DEF PipelineInv, Answered, Identified, Pipeline!Stages,
     Pipeline!ForwardedExactly

\* Two suffixes that leave one label of a host are the same suffix, so neither
\* the longest match of the route nor the undetermined order of the certificates
\* leaves a choice.
LEMMA OneSuffix ==
    ASSUME Pipeline!RequestPipelineConstants,
           NEW rt \in Runtimes, NEW host, host # <<>>,
           NEW v \in Pipeline!CertificatesOf(rt, host)
    PROVE  v = Pipeline!RouteOf(rt, host)
<1>1. CASE host \in DOMAIN rt.exact
  BY <1>1, SMTT(30) DEF Pipeline!CertificatesOf, Pipeline!RouteOf
<1>2. CASE host \notin DOMAIN rt.exact
  <2>1. PICK s \in DOMAIN rt.wildcard :
          Pipeline!LeavesOneLabel(host, s) /\ v = rt.wildcard[s]
    BY <1>2, Zenon DEF Pipeline!CertificatesOf
  <2>2. \A t \in DOMAIN rt.wildcard : Pipeline!LeavesOneLabel(host, t) => t = s
    BY <2>1, Zenon DEF Pipeline!LeavesOneLabel
  <2>3. {t \in DOMAIN rt.wildcard : Pipeline!LeavesOneLabel(host, t)} = {s}
    BY <2>1, <2>2, Zenon
  <2>4. (CHOOSE t \in {s} : \A u \in {s} : Len(t) >= Len(u)) = s
    BY SMTT(30) DEF Pipeline!RequestPipelineConstants
  <2> QED BY <1>2, <2>1, <2>3, <2>4, SMTT(30) DEF Pipeline!RouteOf
<1> QED BY <1>1, <1>2, Zenon

\* The checks after that of the name in the handshake.
Judges ==
    \/ Pipeline!Identify \/ Pipeline!CheckAccess \/ Pipeline!CheckReputation
    \/ Pipeline!RedirectToHTTPS \/ Pipeline!CheckLimit \/ Pipeline!CheckBot
    \/ Pipeline!TakeAction \/ Pipeline!ReadBody \/ Pipeline!InspectPanics
    \/ Pipeline!Inspect \/ Pipeline!Forward

\* They leave alone what the request is, and go on or end it.
LEMMA Judged ==
    ASSUME Judges
    PROVE  /\ pc \in AfterSNI /\ pc' \in AfterSNI \cup {"done"}
           /\ UNCHANGED <<req, shaken, shown, runtime, route>>
  BY Zenon DEF Judges, AfterSNI, AfterAccess, AfterReputation, AfterLimit, AfterBot,
     Pipeline!Identify, Pipeline!CheckAccess, Pipeline!CheckReputation,
     Pipeline!RedirectToHTTPS, Pipeline!CheckLimit, Pipeline!CheckBot, Pipeline!TakeAction,
     Pipeline!ReadBody, Pipeline!InspectPanics, Pipeline!Inspect, Pipeline!Forward,
     Pipeline!Pass, Pipeline!Reply, Pipeline!routing

\* Certificate, route and name stay in agreement.
LEMMA NamedPreserved ==
    ASSUME Pipeline!RequestPipelineConstants, PipelineInv, [Pipeline!Next]_Pipeline!vars
    PROVE  Named'
<1> USE DEF Named, AfterRoute, AfterSNI, AfterAccess, AfterReputation, AfterLimit, AfterBot
<1>0. Named /\ pc \in Pipeline!Stages /\ Answered
  BY Zenon DEF PipelineInv
<1>1. CASE Pipeline!Handshake
  <2>1. \/ \E rt \in Runtimes :
             /\ shaken' = rt /\ shown' \in Pipeline!CertificatesOf(rt, req.sni)
             /\ Pipeline!Pass("route")
        \/ Pipeline!Reply("tls_error", <<>>)
    BY <1>1, Zenon DEF Pipeline!Handshake, Pipeline!GetCertificate
  <2> QED BY <1>0, <1>1, <2>1, Zenon DEF Pipeline!Handshake, Pipeline!Reply, Pipeline!Pass,
        Pipeline!CertificateOfRoute
<1>2. CASE Pipeline!Route
  <2>1. \/ \E rt \in Runtimes :
             /\ runtime' = rt /\ route' = Pipeline!RouteOf(rt, req.host)
             /\ route' # NoRoute /\ Pipeline!Pass("sni")
        \/ \E answer \in {"unavailable", "421"} : Pipeline!Reply(answer, <<>>)
    BY <1>2, Zenon DEF Pipeline!Route
  <2> QED BY <1>0, <1>2, <2>1, Zenon DEF Pipeline!Route, Pipeline!Reply, Pipeline!Pass,
        Pipeline!CertificateOfRoute
<1>3. CASE Pipeline!CheckSNI
  <2>1. CASE Pipeline!Reply("421", <<>>)
    BY <1>0, <1>3, <2>1, Zenon DEF Pipeline!CheckSNI, Pipeline!Reply, Pipeline!routing,
       Pipeline!CertificateOfRoute
  <2>2. CASE Pipeline!Pass("client") /\ req.sni \in {<<>>, req.host}
    <3>1. req.sni # <<>> /\ shaken = runtime => shown = route
      BY <1>0, <1>3, <2>2, OneSuffix, Zenon DEF Pipeline!CheckSNI
    <3> QED BY <1>0, <1>3, <2>2, <3>1, Zenon DEF Pipeline!CheckSNI, Pipeline!Pass,
          Pipeline!routing, Pipeline!CertificateOfRoute
  <2> QED BY <1>0, <1>3, <2>1, <2>2, Zenon DEF Pipeline!CheckSNI
<1>4. CASE Judges
  BY <1>0, <1>4, Judged, Zenon DEF Answered, Pipeline!CertificateOfRoute
<1>5. CASE UNCHANGED Pipeline!vars
  BY <1>0, <1>5, Zenon DEF Pipeline!vars, Pipeline!CertificateOfRoute
<1> QED BY <1>1, <1>2, <1>3, <1>4, <1>5, Zenon DEF Pipeline!Next, Judges

\* The client's address is asked for once.
LEMMA IdentifiedPreserved ==
    ASSUME PipelineInv, [Pipeline!Next]_Pipeline!vars
    PROVE  Identified' /\ pc' \in Pipeline!Stages /\ Answered'
<1>0. Identified /\ pc \in Pipeline!Stages /\ Answered
  BY Zenon DEF PipelineInv
<1>1. Identified'
  <2>1. CASE Pipeline!Identify
    BY <1>0, <2>1, Zenon DEF Identified, Pipeline!Identify
  <2>2. CASE UNCHANGED <<client, req>>
    BY <1>0, <2>2, Zenon DEF Identified
  <2> QED BY <2>1, <2>2, Zenon DEF Pipeline!Next, Pipeline!vars, Pipeline!Handshake,
        Pipeline!Route, Pipeline!CheckSNI, Pipeline!CheckAccess, Pipeline!CheckReputation,
        Pipeline!RedirectToHTTPS, Pipeline!CheckLimit, Pipeline!CheckBot, Pipeline!TakeAction,
        Pipeline!ReadBody, Pipeline!InspectPanics, Pipeline!Inspect, Pipeline!Forward
<1>2. \/ \E next \in Pipeline!Stages \ {"done"} : pc # "done" /\ Pipeline!Pass(next)
      \/ \E answer, metrics : answer # "none" /\ Pipeline!Reply(answer, metrics)
      \/ UNCHANGED <<pc, status>>
  BY Zenon DEF Pipeline!Next, Pipeline!vars, Pipeline!Stages, Pipeline!Handshake,
     Pipeline!Route, Pipeline!CheckSNI, Pipeline!Identify, Pipeline!CheckAccess,
     Pipeline!CheckReputation, Pipeline!RedirectToHTTPS, Pipeline!CheckLimit,
     Pipeline!CheckBot, Pipeline!TakeAction, Pipeline!ReadBody, Pipeline!InspectPanics,
     Pipeline!Inspect, Pipeline!Forward
<1> QED BY <1>0, <1>1, <1>2, Zenon DEF Answered, Pipeline!Pass, Pipeline!Reply, Pipeline!Stages

\* What the checks ask.
LEMMA Questions ==
    DOMAIN Pipeline!Unasked = {"access", "reputation", "redirect", "granted", "bot",
        "action", "engine", "body", "panics", "failMode", "matches"}
  BY Zenon DEF Pipeline!Unasked

\* Once the request is answered nothing is to be cleared.
LEMMA Over ==
    ASSUME pc' = "done", DOMAIN saw' = DOMAIN Pipeline!Unasked
    PROVE  Cleared'
  BY Zenon DEF Cleared, AfterAccess, AfterReputation, AfterLimit, AfterBot

\* The reasons depend on the client and on what the checks asked only.
LEMMA SameReasons ==
    ASSUME UNCHANGED <<saw, client>>
    PROVE  Pipeline!Blameless' <=> Pipeline!Blameless
  BY Zenon DEF Pipeline!Blameless

\* The outcome of every check agrees with the reasons the policies have.
LEMMA ClearedPreserved ==
    ASSUME Pipeline!RequestPipelineConstants, PipelineInv, [Pipeline!Next]_Pipeline!vars
    PROVE  Cleared' /\ Pipeline!ForwardedExactly'
<1> USE DEF AfterRoute, AfterSNI, AfterAccess, AfterReputation, AfterLimit, AfterBot
<1>0. Named /\ Cleared /\ Answered /\ Pipeline!ForwardedExactly
  BY Zenon DEF PipelineInv
<1>1. CASE Pipeline!Handshake \/ Pipeline!Route \/ Pipeline!CheckSNI \/ Pipeline!Identify
  <2>1. UNCHANGED saw /\ pc \in {"handshake", "route", "sni", "client"}
        /\ pc' \in {"route", "sni", "client", "access", "done"}
    BY <1>1, Zenon DEF Pipeline!Handshake, Pipeline!Route, Pipeline!CheckSNI,
       Pipeline!Identify, Pipeline!Reply, Pipeline!Pass
  <2>2. Cleared'
    BY <1>0, <2>1, Zenon DEF Cleared
  <2>3. pc' = "done" => \/ status' = "tls_error" /\ runtime' = NoRuntime
                        \/ status' = "unavailable" /\ runtime' = NoRuntime
                        \/ status' = "421" /\ Pipeline!RouteOf(runtime', req'.host) = NoRoute
                        \/ status' = "421" /\ req'.sni \notin {<<>>, req'.host}
    <3>1. CASE Pipeline!Handshake
      BY <1>0, <3>1, Zenon DEF Named, Pipeline!Handshake, Pipeline!Reply, Pipeline!Pass
    <3>2. CASE Pipeline!Route
      BY <3>2, Zenon DEF Pipeline!Route, Pipeline!Reply, Pipeline!Pass
    <3>3. CASE Pipeline!CheckSNI \/ Pipeline!Identify
      BY <3>3, Zenon DEF Pipeline!CheckSNI, Pipeline!Identify, Pipeline!Reply, Pipeline!Pass
    <3> QED BY <1>1, <3>1, <3>2, <3>3, Zenon
  <2> QED BY <2>2, <2>3, Zenon DEF Pipeline!ForwardedExactly
<1>2. CASE Pipeline!CheckAccess
  <2>1. PICK access \in AccessLists :
          /\ saw' = [saw EXCEPT !.access = access]
          /\ \/ Pipeline!Allowed(access, client) /\ Pipeline!Pass("reputation")
             \/ ~Pipeline!Allowed(access, client) /\ Pipeline!Reply("403", <<"blocked">>)
    BY <1>2, Zenon DEF Pipeline!CheckAccess
  <2>2. Pipeline!Allowed(access, client) <=>
           client \notin access.deny /\ (access.allow # {} => client \in access.allow)
    BY Zenon DEF Pipeline!Allowed, Pipeline!RequestPipelineConstants
  <2>3. /\ DOMAIN saw' = DOMAIN saw /\ saw'.access = access
        /\ saw'.redirect = saw.redirect /\ saw'.panics = saw.panics
        /\ saw'.matches = saw.matches
    BY <1>0, <2>1, Questions, Zenon DEF Cleared
  <2>4. UNCHANGED client
    BY <1>2, Zenon DEF Pipeline!CheckAccess
  <2>5. CASE Pipeline!Pass("reputation") /\ Pipeline!Allowed(access, client)
    BY <1>0, <1>2, <2>2, <2>3, <2>4, <2>5, Zenon DEF Cleared, Pipeline!Pass, Pipeline!CheckAccess,
       Pipeline!ForwardedExactly
  <2>6. CASE Pipeline!Reply("403", <<"blocked">>) /\ ~Pipeline!Allowed(access, client)
    BY <1>0, <2>2, <2>3, <2>4, <2>6, Over, Zenon DEF Cleared, Pipeline!Reply,
       Pipeline!ForwardedExactly, Pipeline!Blameless
  <2> QED BY <2>1, <2>5, <2>6, Zenon
<1>3. CASE Pipeline!CheckReputation
  <2>1. PICK found \in Pipeline!Reputations :
          /\ saw' = [saw EXCEPT !.reputation = found]
          /\ \/ found # "block" /\ Pipeline!Pass("redirect")
             \/ found = "block" /\ Pipeline!Reply("403", <<"blocked">>)
    BY <1>3, Zenon DEF Pipeline!CheckReputation
  <2>2. /\ DOMAIN saw' = DOMAIN saw /\ saw'.reputation = found
        /\ saw'.redirect = saw.redirect /\ saw'.panics = saw.panics
        /\ saw'.matches = saw.matches /\ saw'.access = saw.access
    BY <1>0, <2>1, Questions, Zenon DEF Cleared
  <2>3. CASE Pipeline!Pass("redirect") /\ found # "block"
    BY <1>0, <1>3, <2>2, <2>3, Zenon DEF Cleared, Pipeline!Pass, Pipeline!CheckReputation,
       Pipeline!ForwardedExactly
  <2>4. CASE Pipeline!Reply("403", <<"blocked">>) /\ found = "block"
    BY <1>0, <2>2, <2>4, Over, Zenon DEF Cleared, Pipeline!Reply,
       Pipeline!ForwardedExactly, Pipeline!Blameless
  <2> QED BY <2>1, <2>3, <2>4, Zenon
<1>4. CASE Pipeline!RedirectToHTTPS
  <2>1. \/ UNCHANGED saw /\ Pipeline!Pass("limit")
        \/ \E enabled \in BOOLEAN :
             /\ saw' = [saw EXCEPT !.redirect = enabled]
             /\ \/ enabled /\ Pipeline!Reply("redirect", <<>>)
                \/ ~enabled /\ Pipeline!Pass("limit")
    BY <1>4, Zenon DEF Pipeline!RedirectToHTTPS
  <2>2. /\ DOMAIN saw' = DOMAIN saw /\ saw'.reputation = saw.reputation
        /\ saw'.panics = saw.panics
        /\ saw'.matches = saw.matches /\ saw'.access = saw.access
    BY <1>0, <2>1, Questions, Zenon DEF Cleared
  <2>3. \/ ~saw'.redirect /\ Pipeline!Pass("limit")
        \/ saw'.redirect /\ Pipeline!Reply("redirect", <<>>)
    BY <1>0, <1>4, <2>1, Questions, Zenon DEF Cleared, Pipeline!RedirectToHTTPS
  <2>4. CASE Pipeline!Pass("limit") /\ ~saw'.redirect
    BY <1>0, <1>4, <2>2, <2>4, Zenon DEF Cleared, Pipeline!Pass, Pipeline!RedirectToHTTPS,
       Pipeline!ForwardedExactly
  <2>5. CASE Pipeline!Reply("redirect", <<>>) /\ saw'.redirect
    BY <1>0, <2>2, <2>5, Over, Zenon DEF Cleared, Pipeline!Reply, Pipeline!ForwardedExactly
  <2> QED BY <2>3, <2>4, <2>5, Zenon
<1>5. CASE Pipeline!CheckLimit
  <2>1. PICK g \in BOOLEAN :
          /\ saw' = [saw EXCEPT !.granted = g]
          /\ \/ g /\ Pipeline!Pass("bot")
             \/ ~g /\ Pipeline!Reply("429", <<"rate_limited">>)
    BY <1>5, Zenon DEF Pipeline!CheckLimit
  <2>2. /\ DOMAIN saw' = DOMAIN saw /\ saw'.granted = g
        /\ saw'.reputation = saw.reputation
        /\ saw'.redirect = saw.redirect /\ saw'.panics = saw.panics
        /\ saw'.matches = saw.matches /\ saw'.access = saw.access
    BY <1>0, <2>1, Questions, Zenon DEF Cleared
  <2>3. CASE Pipeline!Pass("bot") /\ g
    BY <1>0, <1>5, <2>2, <2>3, Zenon DEF Cleared, Pipeline!Pass, Pipeline!CheckLimit,
       Pipeline!ForwardedExactly
  <2>4. CASE Pipeline!Reply("429", <<"rate_limited">>) /\ ~g
    BY <1>0, <2>2, <2>4, Over, Zenon DEF Cleared, Pipeline!Reply,
       Pipeline!ForwardedExactly, Pipeline!Blameless
  <2> QED BY <2>1, <2>3, <2>4, Zenon
<1>6. CASE Pipeline!CheckBot
  <2>1. PICK bot \in Pipeline!Bots :
          /\ saw' = [saw EXCEPT !.bot = bot]
          /\ \/ Pipeline!BotKind(bot) = "none" /\ Pipeline!Pass("action")
             \/ bot.mode = "monitor" /\ Pipeline!Pass("action")
             \/ /\ Pipeline!BotKind(bot) # "none" /\ bot.mode = "block"
                /\ Pipeline!Reply(IF Pipeline!BotKind(bot) = "rate" THEN "429" ELSE "403",
                                  <<"blocked">>)
    BY <1>6, Zenon DEF Pipeline!CheckBot
  <2>2. bot.mode = "block" =>
           (Pipeline!BotKind(bot) = "none" <=> bot.agent # "bad" /\ bot.granted)
    <3>1. /\ bot.agent \in {"allowed", "bad", "other"}
          /\ bot.agent # "other" => bot.granted
      BY Zenon DEF Pipeline!Bots
    <3> QED BY <3>1, SMTT(30) DEF Pipeline!BotKind
  <2>3. /\ DOMAIN saw' = DOMAIN saw /\ saw'.bot = bot
        /\ saw'.granted = saw.granted /\ saw'.reputation = saw.reputation
        /\ saw'.redirect = saw.redirect /\ saw'.panics = saw.panics
        /\ saw'.matches = saw.matches /\ saw'.access = saw.access
    BY <1>0, <2>1, Questions, Zenon DEF Cleared
  <2>4. CASE /\ Pipeline!Pass("action")
             /\ bot.mode = "block" => bot.agent # "bad" /\ bot.granted
    BY <1>0, <1>6, <2>3, <2>4, Zenon DEF Cleared, Pipeline!Pass, Pipeline!CheckBot,
       Pipeline!ForwardedExactly
  <2>5. ASSUME NEW answer \in {"429", "403"}, Pipeline!Reply(answer, <<"blocked">>),
               bot.mode = "block", ~(bot.agent # "bad" /\ bot.granted)
        PROVE  Cleared' /\ Pipeline!ForwardedExactly'
    BY <1>0, <2>3, <2>5, Over, Zenon DEF Cleared, Pipeline!Reply,
       Pipeline!ForwardedExactly, Pipeline!Blameless
  <2> QED BY <2>1, <2>2, <2>4, <2>5, Zenon
<1>7. CASE Pipeline!TakeAction
  <2>1. PICK action \in {"group", "redirect", "discard"},
             engine \in {"disabled", "detect", "blocking"} :
          /\ saw' = [saw EXCEPT !.action = action, !.engine = engine]
          /\ \/ action # "group" /\ Pipeline!Reply("vhost_redirect", <<>>)
             \/ action # "group" /\ Pipeline!Reply("discard", <<>>)
             \/ action = "group" /\ engine = "disabled" /\ Pipeline!Pass("backend")
             \/ action = "group" /\ engine # "disabled" /\ Pipeline!Pass("body")
    BY <1>7, Zenon DEF Pipeline!TakeAction
  <2>2. /\ DOMAIN saw' = DOMAIN saw /\ saw'.action = action /\ saw'.engine = engine
        /\ saw'.bot = saw.bot /\ saw'.granted = saw.granted
        /\ saw'.reputation = saw.reputation
        /\ saw'.redirect = saw.redirect /\ saw'.panics = saw.panics
        /\ saw'.matches = saw.matches /\ saw'.access = saw.access
    BY <1>0, <2>1, Questions, Zenon DEF Cleared
  <2>3. pc = "action" /\ UNCHANGED client
    BY <1>7, Zenon DEF Pipeline!TakeAction
  <2>4. ASSUME NEW answer \in {"vhost_redirect", "discard"}, Pipeline!Reply(answer, <<>>),
               action # "group"
        PROVE  Cleared' /\ Pipeline!ForwardedExactly'
    BY <1>0, <2>2, <2>4, Over, Zenon DEF Cleared, Pipeline!Reply, Pipeline!ForwardedExactly
  <2>5. CASE action = "group" /\ engine = "disabled" /\ Pipeline!Pass("backend")
    <3>1. Pipeline!Blameless'
      BY <1>0, <2>2, <2>3, <2>5, Zenon DEF Cleared, Pipeline!Blameless
    <3> QED BY <1>0, <2>2, <2>3, <2>5, <3>1, Zenon DEF Cleared, Pipeline!Pass,
          Pipeline!ForwardedExactly
  <2>6. CASE action = "group" /\ engine # "disabled" /\ Pipeline!Pass("body")
    BY <1>0, <2>2, <2>3, <2>6, Zenon DEF Cleared, Pipeline!Pass, Pipeline!ForwardedExactly
  <2> QED BY <2>1, <2>4, <2>5, <2>6, Zenon
<1>8. CASE Pipeline!ReadBody
  <2>1. PICK body \in Pipeline!Bodies :
          /\ saw' = [saw EXCEPT !.body = body]
          /\ \/ Pipeline!InspectionBody(body) = "body" /\ Pipeline!Pass("inspect")
             \/ /\ Pipeline!InspectionBody(body) \in {"unsupported", "large", "error"}
                /\ \E answer \in {"415", "413", "400"} : \E metrics :
                      Pipeline!Reply(answer, metrics)
    BY <1>8, Zenon DEF Pipeline!ReadBody
  <2>2. Pipeline!InspectionBody(body) = "body" <=>
          /\ body.wire \in {"none", "small"}
          /\ body.encoding \in {"identity", "gzip"}
          /\ body.inflated = "small"
    <3>1. /\ body.wire \in {"none", "small", "large", "broken"}
          /\ body.encoding \in {"identity", "gzip", "other"}
          /\ body.inflated \in {"small", "large", "corrupt"}
          /\ body.wire \in {"none", "broken"} => body.encoding = "identity"
          /\ (body.encoding # "gzip" \/ body.wire # "small") => body.inflated = "small"
      BY Zenon DEF Pipeline!Bodies
    <3> QED BY <3>1, SMTT(30) DEF Pipeline!InspectionBody
  <2>3. /\ DOMAIN saw' = DOMAIN saw /\ saw'.body = body
        /\ saw'.action = saw.action /\ saw'.engine = saw.engine
        /\ saw'.bot = saw.bot /\ saw'.granted = saw.granted
        /\ saw'.reputation = saw.reputation
        /\ saw'.redirect = saw.redirect /\ saw'.panics = saw.panics
        /\ saw'.matches = saw.matches /\ saw'.access = saw.access
    BY <1>0, <2>1, Questions, Zenon DEF Cleared
  <2>4. pc = "body" /\ UNCHANGED client
    BY <1>8, Zenon DEF Pipeline!ReadBody
  <2>5. CASE Pipeline!InspectionBody(body) = "body" /\ Pipeline!Pass("inspect")
    BY <1>0, <2>2, <2>3, <2>4, <2>5, Zenon DEF Cleared, Pipeline!Pass,
       Pipeline!ForwardedExactly
  <2>6. ASSUME NEW answer \in {"415", "413", "400"}, NEW metrics,
               Pipeline!Reply(answer, metrics), Pipeline!InspectionBody(body) # "body"
        PROVE  Cleared' /\ Pipeline!ForwardedExactly'
    BY <1>0, <2>2, <2>3, <2>4, <2>6, Over, Zenon DEF Cleared, Pipeline!Reply,
       Pipeline!ForwardedExactly, Pipeline!Blameless
  <2> QED BY <2>1, <2>5, <2>6, Zenon
<1>9. CASE Pipeline!InspectPanics
  <2>1. PICK mode \in {"open", "closed"} :
          /\ saw' = [saw EXCEPT !.panics = TRUE, !.failMode = mode]
          /\ \/ mode = "open" /\ Pipeline!Pass("backend")
             \/ mode # "open" /\ Pipeline!Reply("503", <<"blocked">>)
    BY <1>9, Zenon DEF Pipeline!InspectPanics
  <2>2. /\ DOMAIN saw' = DOMAIN saw /\ saw'.panics /\ saw'.failMode = mode
        /\ saw'.body = saw.body /\ saw'.action = saw.action /\ saw'.engine = saw.engine
        /\ saw'.bot = saw.bot /\ saw'.granted = saw.granted
        /\ saw'.reputation = saw.reputation /\ saw'.redirect = saw.redirect
        /\ saw'.matches = saw.matches /\ saw'.access = saw.access
    BY <1>0, <2>1, Questions, Zenon DEF Cleared
  <2>3. pc = "inspect" /\ UNCHANGED client
    BY <1>9, Zenon DEF Pipeline!InspectPanics
  <2>4. CASE mode = "open" /\ Pipeline!Pass("backend")
    <3>1. saw'.matches = {} /\ Pipeline!Score({}) < Threshold
      BY <1>0, <2>2, <2>3, Zenon DEF Cleared, Pipeline!RequestPipelineConstants
    <3>2. Pipeline!Blameless'
      BY <1>0, <2>2, <2>3, <2>4, <3>1, Zenon DEF Cleared, Pipeline!Blameless
    <3> QED BY <1>0, <2>2, <2>3, <2>4, <3>2, Zenon DEF Cleared, Pipeline!Pass,
          Pipeline!ForwardedExactly
  <2>5. CASE mode # "open" /\ Pipeline!Reply("503", <<"blocked">>)
    BY <1>0, <2>2, <2>5, Over, Zenon DEF Cleared, Pipeline!Reply,
       Pipeline!ForwardedExactly, Pipeline!Blameless
  <2> QED BY <2>1, <2>4, <2>5, Zenon
<1>10. CASE Pipeline!Inspect
  <2>1. PICK matches \in SUBSET Rules :
          /\ saw' = [saw EXCEPT !.matches = matches]
          /\ \/ matches = {} /\ Pipeline!Pass("backend")
             \/ ~Pipeline!Blocks(saw.engine, Threshold, matches) /\ Pipeline!Pass("backend")
             \/ /\ Pipeline!Blocks(saw.engine, Threshold, matches)
                /\ Pipeline!Reply("403", <<"blocked">>)
    BY <1>10, Zenon DEF Pipeline!Inspect
  <2>2. /\ DOMAIN saw' = DOMAIN saw /\ saw'.matches = matches
        /\ saw'.body = saw.body /\ saw'.action = saw.action /\ saw'.engine = saw.engine
        /\ saw'.bot = saw.bot /\ saw'.granted = saw.granted
        /\ saw'.reputation = saw.reputation
        /\ saw'.redirect = saw.redirect /\ saw'.panics = saw.panics
        /\ saw'.access = saw.access
    BY <1>0, <2>1, Questions, Zenon DEF Cleared
  <2>3. pc = "inspect" /\ UNCHANGED client
    BY <1>10, Zenon DEF Pipeline!Inspect
  <2> DEFINE Harmless == saw.engine = "blocking" =>
                            /\ \A m \in matches : m.action # "block"
                            /\ Pipeline!Score(matches) < Threshold
  <2>4. ~Pipeline!Blocks(saw.engine, Threshold, matches) <=> Harmless
    <3>1. /\ Pipeline!Score(matches) \in Int /\ Threshold \in Int
      BY Zenon DEF Pipeline!RequestPipelineConstants
    <3>2. Pipeline!Score(matches) >= Threshold <=> ~(Pipeline!Score(matches) < Threshold)
      BY <3>1, SMTT(30)
    <3> QED BY <3>2, Zenon DEF Pipeline!Blocks
  <2>5. matches = {} => Harmless
    BY Zenon DEF Pipeline!RequestPipelineConstants
  <2>6. CASE Harmless /\ Pipeline!Pass("backend")
    <3>1. Pipeline!Blameless'
      BY <1>0, <2>2, <2>3, <2>6, Zenon DEF Cleared, Pipeline!Blameless
    <3> QED BY <1>0, <2>2, <2>3, <2>6, <3>1, Zenon DEF Cleared, Pipeline!Pass,
          Pipeline!ForwardedExactly
  <2>7. CASE ~Harmless /\ Pipeline!Reply("403", <<"blocked">>)
    BY <1>0, <2>2, <2>7, Over, Zenon DEF Cleared, Pipeline!Reply,
       Pipeline!ForwardedExactly, Pipeline!Blameless
  <2> QED BY <2>1, <2>4, <2>5, <2>6, <2>7, Zenon
<1>11. CASE Pipeline!Forward
  <2>1. /\ pc = "backend" /\ pc' = "done" /\ status' = "forwarded"
        /\ UNCHANGED <<req, runtime, saw, client>>
    BY <1>11, Zenon DEF Pipeline!Forward, Pipeline!Reply, Pipeline!routing
  <2>2. /\ runtime # NoRuntime /\ Pipeline!RouteOf(runtime, req.host) # NoRoute
        /\ req.sni \in {<<>>, req.host}
    BY <1>0, <2>1, Zenon DEF Named, Pipeline!RequestPipelineConstants
  <2>3. ~saw.redirect /\ saw.action = "group" /\ Pipeline!Blameless'
    BY <1>0, <2>1, SameReasons, Zenon DEF Cleared
  <2>4. Cleared'
    BY <1>0, <2>1, Over, Zenon DEF Cleared
  <2> QED BY <2>1, <2>2, <2>3, <2>4, Zenon DEF Pipeline!ForwardedExactly
<1>12. CASE UNCHANGED Pipeline!vars
  <2>1. UNCHANGED <<pc, status, req, runtime, saw, client>>
    BY <1>12, Zenon DEF Pipeline!vars
  <2>2. Cleared'
    BY <1>0, <2>1, SameReasons, Zenon DEF Cleared
  <2>3. Pipeline!ForwardedExactly'
    BY <1>0, <2>1, SameReasons, Zenon DEF Pipeline!ForwardedExactly
  <2> QED BY <2>2, <2>3, Zenon
<1> QED
  BY <1>1, <1>2, <1>3, <1>4, <1>5, <1>6, <1>7, <1>8, <1>9, <1>10, <1>11, <1>12, Zenon
     DEF Pipeline!Next

\* Appending keeps a trail of quiet events, and the last event is the one that
\* was appended.
LEMMA LogQuiet ==
    ASSUME NEW action \in Quiet, events \in Seq(Quiet), Pipeline!Log(action)
    PROVE  events' \in Seq(Quiet)
  BY SMTT(30) DEF Pipeline!Log

\* An event that is logged is there, as the last one.
LEMMA LogLast ==
    ASSUME NEW action, events \in Seq(Quiet), Pipeline!Log(action)
    PROVE  events' # <<>> /\ events'[Len(events')] = action
  BY SMTT(30) DEF Pipeline!Log

\* A metric is counted once.
LEMMA CountOne ==
    ASSUME NEW answer, NEW metric, counted = <<>>, Pipeline!Reply(answer, <<metric>>)
    PROVE  Len(counted') = 1
  BY SMTT(30) DEF Pipeline!Reply

\* A check that refuses the request logs an event and counts it.
LEMMA RefusedTrail ==
    ASSUME Trail, pc # "done",
           NEW answer \in {"403", "413", "415", "429", "503"}, NEW metric,
           Pipeline!Reply(answer, <<metric>>),
           NEW action \in {"access_block", "reputation_block", "rate_limit", "bot_block",
                           "block", "waf_error"},
           Pipeline!Log(action)
    PROVE  Trail'
<1>1. events' # <<>> /\ events'[Len(events')] = action
  BY LogLast, Zenon DEF Trail
<1>2. Len(counted') = 1
  BY CountOne, Zenon DEF Trail
<1>3. pc' = "done" /\ status' = answer
  BY Zenon DEF Pipeline!Reply
<1> QED BY <1>1, <1>2, <1>3, Zenon DEF Trail, Pipeline!Audited

\* One that sends it elsewhere, or serves it, does neither.
LEMMA ServedTrail ==
    ASSUME Trail, pc # "done",
           NEW answer, answer \notin {"403", "413", "415", "429", "503"},
           Pipeline!Reply(answer, <<>>), Pipeline!NoLog
    PROVE  Trail'
<1>1. pc' = "done" /\ status' = answer /\ counted' = <<>>
  BY SMTT(30) DEF Pipeline!Reply, Trail
<1>2. \A i \in DOMAIN events : events[i] \in Quiet
  BY SMTT(30) DEF Trail
<1> QED BY <1>1, <1>2, Zenon DEF Trail, Pipeline!Audited, Pipeline!NoLog, Quiet

\* One that lets it pass logs at most what is observed.
LEMMA PassedTrail ==
    ASSUME Trail, pc # "done", NEW next, next # "done", Pipeline!Pass(next),
           \/ Pipeline!NoLog
           \/ \E action \in Quiet : Pipeline!Log(action)
    PROVE  Trail'
<1>1. events \in Seq(Quiet) /\ counted = <<>>
  BY Zenon DEF Trail
<1>2. events' \in Seq(Quiet)
  BY <1>1, LogQuiet, Zenon DEF Pipeline!NoLog
<1> QED BY <1>1, <1>2, Zenon DEF Trail, Pipeline!Pass, Pipeline!Audited

\* Every check leaves the trail its outcome calls for.
LEMMA TrailPreserved ==
    ASSUME PipelineInv, [Pipeline!Next]_Pipeline!vars
    PROVE  Trail'
<1>0. Trail
  BY Zenon DEF PipelineInv
<1>1. CASE \/ Pipeline!Handshake \/ Pipeline!Route \/ Pipeline!CheckSNI \/ Pipeline!Identify
           \/ Pipeline!RedirectToHTTPS \/ Pipeline!TakeAction \/ Pipeline!Forward
  BY <1>0, <1>1, PassedTrail, ServedTrail, Zenon DEF Pipeline!Handshake, Pipeline!Route,
     Pipeline!CheckSNI, Pipeline!Identify, Pipeline!RedirectToHTTPS, Pipeline!TakeAction,
     Pipeline!Forward
<1>2. CASE Pipeline!CheckAccess
  BY <1>0, <1>2, PassedTrail, RefusedTrail, Zenon DEF Pipeline!CheckAccess
<1>3. CASE Pipeline!CheckReputation
  BY <1>0, <1>3, PassedTrail, RefusedTrail, Zenon DEF Pipeline!CheckReputation, Quiet
<1>4. CASE Pipeline!CheckLimit
  BY <1>0, <1>4, PassedTrail, RefusedTrail, Zenon DEF Pipeline!CheckLimit
<1>5. CASE Pipeline!CheckBot
  <2>1. \/ Pipeline!Pass("action") /\ Pipeline!NoLog
        \/ Pipeline!Pass("action") /\ Pipeline!Log("bot_monitor")
        \/ /\ Pipeline!Log("bot_block")
           /\ \E answer \in {"429", "403"} : Pipeline!Reply(answer, <<"blocked">>)
    BY <1>5, Zenon DEF Pipeline!CheckBot
  <2> QED BY <1>0, <1>5, <2>1, PassedTrail, RefusedTrail, Zenon DEF Pipeline!CheckBot, Quiet
<1>6. CASE Pipeline!ReadBody
  BY <1>0, <1>6, PassedTrail, RefusedTrail, ServedTrail, Zenon DEF Pipeline!ReadBody
<1>7. CASE Pipeline!InspectPanics
  BY <1>0, <1>7, PassedTrail, RefusedTrail, Zenon DEF Pipeline!InspectPanics, Quiet
<1>8. CASE Pipeline!Inspect
  BY <1>0, <1>8, PassedTrail, RefusedTrail, Zenon DEF Pipeline!Inspect, Quiet
<1>9. CASE UNCHANGED Pipeline!vars
  BY <1>0, <1>9, Zenon DEF Pipeline!vars, Trail, Pipeline!Audited
<1> QED BY <1>1, <1>2, <1>3, <1>4, <1>5, <1>6, <1>7, <1>8, <1>9, Zenon DEF Pipeline!Next

\* Every set of naturals with a member has a least one.
LEMMA LeastNatural ==
    ASSUME NEW T, T \subseteq Nat, T # {}
    PROVE  \E x \in T : \A y \in T : x <= y
<1> DEFINE R == OpToRel(<, Nat)
<1>1. IsWellFoundedOn(R, Nat)
  BY NatLessThanWellFounded, Zenon
<1>2. \A x, y \in Nat : x < y => <<x, y>> \in R
  BY SMTT(30) DEF OpToRel
<1> HIDE DEF R
<1>3. PICK x \in T : \A y \in T : ~(<<y, x>> \in R)
  BY <1>1, WFMin, Zenon
<1>4. \A y \in T : ~(y < x)
  BY <1>2, <1>3, Zenon
<1>5. \A y \in T : x <= y
  BY <1>4, SMTT(30)
<1> QED BY <1>5, Zenon

\* A bounded one has a greatest one.
LEMMA GreatestOf ==
    ASSUME NEW n \in Nat, NEW T, T \subseteq 0..n, T # {}
    PROVE  Pipeline!Max(T) \in T /\ \A y \in T : Pipeline!Max(T) >= y
<1> DEFINE U == {n - x : x \in T}
<1>1. U \subseteq Nat /\ U # {}
  <2>1. \A x \in T : n - x \in Nat
    BY SMTT(30)
  <2> QED BY <2>1, Zenon
<1>2. PICK u \in U : \A v \in U : u <= v
  BY <1>1, LeastNatural, Zenon
<1>3. PICK x \in T : u = n - x
  BY <1>2, Zenon
<1>4. ASSUME NEW y \in T PROVE x >= y
  <2>1. u <= n - y
    BY <1>2, Zenon
  <2> HIDE DEF U
  <2> QED BY <2>1, <1>3, SMTT(30)
<1> QED BY <1>4, <1>3, Zenon DEF Pipeline!Max

\* The last stranger of a header stays the last one whatever is put in front.
LEMMA LastStranger ==
    ASSUME Pipeline!RequestPipelineConstants, NEW front \in Lines, NEW line \in Lines,
           Pipeline!Strangers(line) # {}
    PROVE  LET whole == front \o line
           IN  /\ Pipeline!Strangers(whole) # {}
               /\ whole[Pipeline!Max(Pipeline!Strangers(whole))]
                     = line[Pipeline!Max(Pipeline!Strangers(line))]
<1> DEFINE whole == front \o line
           A == {front[i] : i \in DOMAIN front}
           B == {line[i] : i \in DOMAIN line}
           f == Len(front)
           S == Pipeline!Strangers(line)
           W == Pipeline!Strangers(whole)
           s == Pipeline!Max(S)
           w == Pipeline!Max(W)
<1>1. front \in Seq(A) /\ line \in Seq(B)
  BY Zenon DEF Pipeline!RequestPipelineConstants
<1>2. /\ f \in Nat /\ Len(line) \in Nat
      /\ DOMAIN line = 1..Len(line)
      /\ DOMAIN whole = 1..(f + Len(line))
      /\ \A i \in 1..Len(line) : f + i \in DOMAIN whole /\ whole[f + i] = line[i]
  <2> HIDE DEF A, B
  <2> QED BY <1>1, SMTT(30)
<1>3. S \subseteq 1..Len(line) /\ W \subseteq 1..(f + Len(line))
  BY <1>2, Zenon DEF Pipeline!Strangers, Pipeline!Addresses
<1> HIDE DEF A, B, whole, f
<1>4. \A i \in 1..Len(line) : i \in S <=> f + i \in W
  BY <1>2, Zenon DEF Pipeline!Strangers, Pipeline!Addresses
<1> HIDE DEF S, W
<1>5. s \in S /\ \A i \in S : s >= i
  <2>1. S \subseteq 0..Len(line) /\ S # {}
    BY <1>2, <1>3, SMTT(30) DEF S
  <2> QED BY <1>2, <2>1, GreatestOf, Zenon
<1>6. f + s \in W
  BY <1>3, <1>4, <1>5, Zenon
<1>7. w \in W /\ \A i \in W : w >= i
  <2>1. W \subseteq 0..(f + Len(line)) /\ W # {} /\ f + Len(line) \in Nat
    BY <1>2, <1>3, <1>6, SMTT(30)
  <2> QED BY <2>1, GreatestOf, Zenon
<1> HIDE DEF s, w
<1>8. w = f + s
  <2>1. w >= f + s /\ w \in 1..(f + Len(line)) /\ s \in 1..Len(line)
    BY <1>3, <1>5, <1>6, <1>7, Zenon
  <2>2. w - f \in 1..Len(line) /\ f + (w - f) = w
    BY <1>2, <2>1, SMTT(30)
  <2>3. w - f \in S
    BY <1>4, <1>7, <2>2, Zenon
  <2>4. s >= w - f
    BY <1>5, <2>3, Zenon
  <2> QED BY <1>2, <2>1, <2>4, SMTT(30)
<1>9. whole[w] = line[s] /\ W # {}
  BY <1>2, <1>3, <1>5, <1>7, <1>8, Zenon
<1> QED BY <1>9, Zenon DEF whole, W, S, s, w

\* What the code reads of the header is a line.
LEMMA GetsLine ==
    ASSUME Pipeline!RequestPipelineConstants, NEW header \in Headers
    PROVE  Pipeline!Get(header) \in Lines
<1>1. header \in Seq(Lines) /\ <<>> \in Lines
  BY Zenon DEF Pipeline!RequestPipelineConstants
<1> QED BY <1>1, SMTT(30) DEF Pipeline!Get

\* Of several lines it is the first.
LEMMA GetsFirst ==
    ASSUME Pipeline!RequestPipelineConstants, NEW first, NEW others \in Headers
    PROVE  Pipeline!Get(<<first>> \o others) = first
<1>1. others \in Seq(Lines)
  BY Zenon DEF Pipeline!RequestPipelineConstants
<1> QED BY <1>1, SMTT(30) DEF Pipeline!Get

\* The address a request is held to depends neither on what comes first in the
\* line nor on the lines that follow.
LEMMA StrangerDecides ==
    ASSUME Pipeline!RequestPipelineConstants, Identified
    PROVE  Pipeline!NearestStrangerDecides
<1> DEFINE line == Pipeline!Get(req.forwarded)
<1> SUFFICES ASSUME client # Unknown
             PROVE  /\ req.remote \notin Trusted => \A header \in Headers :
                          Pipeline!ClientIP(req.remote, Pipeline!Get(header)) = client
                    /\ Pipeline!Strangers(line) # {} => \A front \in Lines, others \in Headers :
                          Pipeline!ClientIP(req.remote,
                              Pipeline!Get(<<front \o line>> \o others)) = client
  BY Zenon DEF Pipeline!NearestStrangerDecides
<1>1. client = Pipeline!ClientIP(req.remote, line) /\ line \in Lines
  BY GetsLine, Zenon DEF Identified
<1> HIDE DEF line
<1>2. req.remote # Unparsable
  <2>1. Unparsable \notin Trusted
    BY Zenon DEF Pipeline!RequestPipelineConstants
  <2> QED BY <1>1, <2>1, SMTT(30) DEF Pipeline!ClientIP
<1>3. ASSUME req.remote \notin Trusted, NEW other
      PROVE  Pipeline!ClientIP(req.remote, other) = client
  BY <1>1, <1>2, <1>3, SMTT(30) DEF Pipeline!ClientIP
<1>4. ASSUME Pipeline!Strangers(line) # {}, NEW front \in Lines, NEW others \in Headers
      PROVE  Pipeline!ClientIP(req.remote, Pipeline!Get(<<front \o line>> \o others)) = client
  <2>1. Pipeline!Get(<<front \o line>> \o others) = front \o line
    BY GetsFirst, Zenon
  <2>2. Pipeline!ClientIP(req.remote, front \o line) = client
    <3>1. CASE req.remote \notin Trusted
      BY <1>3, <3>1, Zenon
    <3>2. CASE req.remote \in Trusted
      BY <1>1, <1>2, <1>4, <3>2, LastStranger, SMTT(30) DEF Pipeline!ClientIP
    <3> QED BY <3>1, <3>2, Zenon
  <2> QED BY <2>1, <2>2, Zenon
<1> QED BY <1>3, <1>4, Zenon

\* The invariant holds of every state.
LEMMA AlwaysPipelineInv == Pipeline!Spec => []PipelineInv
<1>1. PipelineInv /\ [Pipeline!Next]_Pipeline!vars => PipelineInv'
  BY DataPlaneConstants, NamedPreserved, IdentifiedPreserved, ClearedPreserved, TrailPreserved, Zenon
     DEF PipelineInv
<1>2. Pipeline!Init => PipelineInv
  BY DataPlaneConstants, PipelineInit, Zenon
<1> QED BY <1>1, <1>2, PTL DEF Pipeline!Spec

\* A client that names a server is shown the certificate of the virtual host
\* that serves it, whatever the wildcards and the order of the search, as long
\* as no reload came between the handshake and the request.
THEOREM ShownIsServed == Pipeline!Spec => []CertificateOfRoute
<1>1. PipelineInv => CertificateOfRoute
  BY Zenon DEF PipelineInv, Named, CertificateOfRoute
<1> QED BY <1>1, AlwaysPipelineInv, PTL

\* The header of a peer that is no proxy is ignored, and of a proxy's the last
\* foreign address of the first line decides, whatever stands around it.
THEOREM ClientHolds == Pipeline!Spec => []NearestStrangerDecides
<1>1. PipelineInv => NearestStrangerDecides
  BY DataPlaneConstants, StrangerDecides, Zenon DEF PipelineInv, NearestStrangerDecides
<1> QED BY <1>1, AlwaysPipelineInv, PTL

\* A request reaches the backend exactly when no policy has a reason against it.
THEOREM PolicyDecides == Pipeline!Spec => []ForwardedExactly
<1>1. PipelineInv => ForwardedExactly
  BY Zenon DEF PipelineInv, ForwardedExactly
<1> QED BY <1>1, AlwaysPipelineInv, PTL

\* Every refusal of a policy is counted once and logged last, nothing else is.
THEOREM RefusalsAudited == Pipeline!Spec => []Audited
<1>1. PipelineInv => Audited
  BY Zenon DEF PipelineInv, Trail, Audited
<1> QED BY <1>1, AlwaysPipelineInv, PTL

=============================================================================
