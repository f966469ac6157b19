-------------------------- MODULE BalancerProofs ---------------------------
(***************************************************************************)
(* The balancing of requests over the members of a pool, for any numbers   *)
(* of members, recorders and requests, any weights and thresholds.         *)
(*                                                                         *)
(* A member without health checks stays in service, whatever is recorded   *)
(* about it (MemberHealth).  A request is sent to a member that is down    *)
(* only when none that stayed up during the choice was left to it, and it  *)
(* is given up only after two members, or the only one there is, were      *)
(* tried (ServerPool).  The members' flags change while a request chooses; *)
(* the invariant relates what a choice has seen to those that stayed up    *)
(* since it began (InScan).                                                *)
(*                                                                         *)
(* The running weights of weighted round robin stay within bounds.  That   *)
(* of one member can only be bounded together with those of every set of   *)
(* members (WeightInv): a set that gains while a member outside is         *)
(* selected has less than that member for each of its eligible members,    *)
(* so it had less than the sets with one more and with fewer members       *)
(* allow (Advance).                                                        *)
(***************************************************************************)
EXTENDS Balancer, FiniteSets, FiniteSetTheorems, WellFoundedInduction, TLAPS

-----------------------------------------------------------------------------
(* The health of a member.                                                  *)

\* Without monitoring the flag is set, and nobody is about to clear it.
InService ==
    ~monitored => healthy /\ \A r \in Recorder : record[r].step = "set" => record[r].good

\* The inductive invariant.
IInv == TypeOK /\ InService

\* A member starts healthy, with nothing being recorded.
LEMMA InitInv == Init => IInv
  BY HealthConstants DEF Init, IInv, TypeOK, InService, Idle, At

\* What a recorder does next keeps the records well formed.
LEMMA GotoType ==
    ASSUME TypeOK, NEW r \in Recorder, NEW step \in {"idle", "reset", "count", "set"},
           Goto(r, step)
    PROVE  /\ record' \in [Recorder -> [step : {"idle", "reset", "count", "set"}, good : BOOLEAN]]
           /\ \A q \in Recorder : q # r => record'[q] = record[q]
           /\ record'[r].step = step /\ record'[r].good = record[r].good
  BY Zenon DEF TypeOK, Goto, At

\* A recorder that is done is idle.
LEMMA DoneType ==
    ASSUME TypeOK, NEW r \in Recorder, Done(r)
    PROVE  /\ record' \in [Recorder -> [step : {"idle", "reset", "count", "set"}, good : BOOLEAN]]
           /\ \A q \in Recorder : q # r => record'[q] = record[q]
           /\ record'[r].step = "idle"
  BY Zenon DEF TypeOK, Done, Idle, At

\* A count never passes its threshold by more than one.
LEMMA AddType ==
    ASSUME NEW t \in Nat, NEW n \in 0 .. t + 1
    PROVE  Add(n, t) \in 0 .. t + 1
  BY DEF Add

\* Every step of a recorder, and the member going down or up, keep the
\* invariant.
LEMMA NextInv == IInv /\ [Next]_vars => IInv'
<1> SUFFICES ASSUME IInv, [Next]_vars PROVE IInv'
  BY Zenon
<1> USE HealthConstants DEF IInv
<1>1. CASE Flip
  BY <1>1, Zenon DEF Flip, TypeOK, InService
<1>2. ASSUME NEW r \in Recorder, Outcome(r) PROVE IInv'
  <2>1. PICK good \in BOOLEAN : record' = [record EXCEPT ![r] = At("reset", good)]
    BY <1>2, Zenon DEF Outcome, TypeOK
  <2>2. At("reset", good) \in [step : {"idle", "reset", "count", "set"}, good : BOOLEAN]
    BY Zenon DEF At
  <2>3. TypeOK'
    BY <1>2, <2>1, <2>2, Zenon DEF Outcome, TypeOK
  <2>4. /\ \A q \in Recorder : q # r => record'[q] = record[q]
        /\ record'[r].step = "reset"
    BY <2>1, Zenon DEF TypeOK, At
  <2>5. InService'
    BY <1>2, <2>4, Zenon DEF Outcome, InService
  <2> QED BY <2>3, <2>5, Zenon
<1>3. ASSUME NEW r \in Recorder, Reset(r) PROVE IInv'
  <2>1. Goto(r, "count")
    BY <1>3, Zenon DEF Reset
  <2>2. TypeOK'
    BY <1>3, <2>1, GotoType DEF Reset, TypeOK
  <2>3. InService'
    BY <1>3, <2>1, GotoType, Zenon DEF Reset, InService
  <2> QED BY <2>2, <2>3, Zenon
<1>4. ASSUME NEW r \in Recorder, CountFailure(r) PROVE IInv'
  <2>1. Add(failures, UnhealthyThreshold) \in 0 .. UnhealthyThreshold + 1
    BY AddType, Zenon DEF TypeOK
  <2>2. (monitored /\ Goto(r, "set")) \/ Done(r)
    BY <1>4, Zenon DEF CountFailure
  <2>3. TypeOK'
    BY <1>4, <2>1, <2>2, GotoType, DoneType, Zenon DEF CountFailure, TypeOK
  <2>4. InService'
    BY <1>4, <2>2, DoneType, Zenon DEF CountFailure, InService
  <2> QED BY <2>3, <2>4, Zenon
<1>5. ASSUME NEW r \in Recorder, CountSuccess(r) PROVE IInv'
  <2>1. Add(successes, HealthyThreshold) \in 0 .. HealthyThreshold + 1
    BY AddType, Zenon DEF TypeOK
  <2>2. record[r].good /\ (Goto(r, "set") \/ Done(r))
    BY <1>5, Zenon DEF CountSuccess
  <2>3. TypeOK'
    BY <1>5, <2>1, <2>2, GotoType, DoneType, Zenon DEF CountSuccess, TypeOK
  <2>4. InService'
    BY <1>5, <2>2, GotoType, DoneType, Zenon DEF CountSuccess, InService
  <2> QED BY <2>3, <2>4, Zenon
<1>6. ASSUME NEW r \in Recorder, Set(r) PROVE IInv'
  <2>1. Done(r)
    BY <1>6, Zenon DEF Set
  <2>2. TypeOK'
    BY <1>6, <2>1, DoneType, Zenon DEF Set, TypeOK
  <2>3. InService'
    BY <1>6, <2>1, DoneType, Zenon DEF Set, InService
  <2> QED BY <2>2, <2>3, Zenon
<1>7. CASE UNCHANGED vars
  BY <1>7, Zenon DEF vars, TypeOK, InService
<1> QED
  BY <1>1, <1>2, <1>3, <1>4, <1>5, <1>6, <1>7, Zenon DEF Next, Write

\* Without monitoring no run of failures, however recorded, takes a member
\* out of service (recordFailure).
THEOREM StaysIn == Spec => []UnmonitoredStaysIn
<1>1. IInv => UnmonitoredStaysIn
  BY Zenon DEF IInv, InService, UnmonitoredStaysIn
<1> QED
  BY <1>1, InitInv, NextInv, PTL DEF Spec

-----------------------------------------------------------------------------
(* The choice of a member.                                                  *)

\* At most one member was tried.
Once(tried) == tried = {} \/ \E m \in Member : tried = {m}

\* A choice looks at the members not tried, and those that stayed up since it
\* began are still up.
InScan(q) ==
    /\ q.todo \subseteq Member \ q.tried /\ q.seen \subseteq Member \ q.tried
    /\ Once(q.tried)
    /\ q.steady \subseteq {m \in q.todo \cup q.seen : flag[m]}

\* The members tried are one or two, the one the request is at included.
InTrip(q) ==
    \/ \E m \in Member : q.tried = {m}
    \/ \E m, n \in Member : m # n /\ q.tried = {m, n}

\* The fields of a request's record.
Fields == {"pc", "kind", "member", "tried", "todo", "seen", "steady"}

\* A request has tried distinct members and looks at the others only.
Orderly(q) ==
    /\ DOMAIN q = Fields
    /\ q.pc \in {"idle", "scan", "trip", "failed"}
    /\ q.pc = "scan" => InScan(q)
    /\ q.pc = "trip" => InTrip(q)

\* The inductive invariant.
PoolInv ==
    /\ flag \in [Member -> BOOLEAN]
    /\ DOMAIN req = Request
    /\ \A r \in Request : Orderly(req[r])

\* Every set of naturals with a member has a least one.
LEMMA LeastNatural ==
    ASSUME NEW T, T \subseteq Nat, T # {}
    PROVE  \E x \in T : \A y \in T : x <= y
<1> DEFINE R == OpToRel(<, Nat)
<1>1. IsWellFoundedOn(R, Nat)
  BY NatLessThanWellFounded, Zenon
<1>2. \A x, y \in Nat : x < y => <<x, y>> \in R
  BY SMTT(30) DEF OpToRel
<1> HIDE DEF R
<1>3. PICK x \in T : \A y \in T : ~(<<y, x>> \in R)
  BY <1>1, WFMin, Zenon
<1>4. \A y \in T : ~(y < x)
  BY <1>2, <1>3, Zenon
<1>5. \A y \in T : x <= y
  BY <1>4, SMTT(30)
<1> QED BY <1>5, Zenon

\* The cardinality the pool uses is that of the library.
LEMMA SameCardinality == \A S : Pool!Cardinality(S) = Cardinality(S)
  BY Zenon DEF Pool!Cardinality, Cardinality, Pool!IsFiniteSet, IsFiniteSet

\* Two different members are two.
LEMMA PairHasTwo ==
    /\ \A m : Pool!Cardinality({m}) = 1
    /\ \A m, n : m # n => Pool!Cardinality({m, n}) = 2 /\ Pool!Cardinality({m, n}) # 1
<1>1. \A m : IsFiniteSet({m}) /\ Cardinality({m}) = 1
  BY FS_Singleton, Zenon
<1>2. ASSUME NEW m, NEW n, m # n PROVE Cardinality({m, n}) = 2 /\ Cardinality({m, n}) # 1
  <2>1. Cardinality({m} \cup {n}) = Cardinality({m}) + 1
    BY <1>1, <1>2, FS_AddElement, Zenon
  <2>2. {m} \cup {n} = {m, n}
    BY Zenon
  <2>3. Cardinality({m, n}) = Cardinality({m}) + 1
    BY <2>1, <2>2, Zenon
  <2>4. Cardinality({m}) = 1
    BY <1>1, Zenon
  <2> DEFINE c == Cardinality({m, n})
             d == Cardinality({m})
  <2> HIDE DEF c, d
  <2>5. c = d + 1 /\ d = 1 => c = 2 /\ c # 1
    BY SMTT(30)
  <2> QED BY <2>3, <2>4, <2>5, Zenon DEF c, d
<1> QED BY <1>1, <1>2, SameCardinality, Zenon

\* The first member, in the order of the configuration, is one of them.
LEMMA FirstIsMember ==
    ASSUME Pool!ServerPoolConstants, NEW S, S \subseteq Member, S # {}
    PROVE  Pool!Nth(S, 0) \in S
<1> DEFINE P == {Place[m] : m \in S}
<1>0. \A m \in S : Place[m] \in Nat
  BY Zenon DEF Pool!ServerPoolConstants
<1>1. P \subseteq Nat /\ P # {}
  BY <1>0, Zenon
<1>2. PICK p \in P : \A x \in P : p <= x
  BY <1>1, LeastNatural, Zenon
<1>3. PICK m \in S : p = Place[m]
  BY <1>2, Zenon
<1>4. \A n \in S : Place[n] \in Nat /\ Place[m] <= Place[n]
  BY <1>1, <1>2, <1>3, Zenon
<1>5. \A n \in S : ~(Place[n] < Place[m])
  <2> HIDE DEF P
  <2> QED BY <1>4, SMTT(30)
<1>6. {n \in S : Place[n] < Place[m]} = {}
  BY <1>5, Zenon
<1>7. Pool!Cardinality({n \in S : Place[n] < Place[m]}) = 0
  BY <1>6, FS_EmptySet, SameCardinality, Zenon
<1> QED BY <1>7, Zenon DEF Pool!Nth

\* The eligible members were not tried, and there are some if there are members
\* to choose from.
LEMMA PreferredOnes ==
    ASSUME NEW S
    PROVE  /\ Pool!Preferred(S) \subseteq S
           /\ S # {} => Pool!Preferred(S) # {}
           /\ S \ Backup # {} => Pool!Preferred(S) \cap Backup = {}
  BY Zenon DEF Pool!Preferred

\* eligible picks members not tried, and the preferred of those seen healthy
\* when there are any.
LEMMA EligibleOnes ==
    ASSUME NEW q, q.seen \subseteq Member \ q.tried
    PROVE  /\ Pool!Eligible(q) \subseteq Member \ q.tried
           /\ q.seen # {} => Pool!Eligible(q) = Pool!Preferred(q.seen)
  BY PreferredOnes, Zenon DEF Pool!Eligible

\* One or two members were tried when a trip ends.
LEMMA TripTried ==
    ASSUME NEW q, InTrip(q)
    PROVE  \/ Pool!Cardinality(q.tried) = 1 /\ \E m \in Member : q.tried = {m}
           \/ Pool!Cardinality(q.tried) = 2 /\ Pool!Cardinality(q.tried) # 1
<1>1. ASSUME NEW m \in Member, q.tried = {m} PROVE Pool!Cardinality(q.tried) = 1
  BY <1>1, PairHasTwo, SMTT(30)
<1>2. ASSUME NEW m \in Member, NEW n \in Member, m # n, q.tried = {m, n}
      PROVE  Pool!Cardinality(q.tried) = 2 /\ Pool!Cardinality(q.tried) # 1
  <2>1. Pool!Cardinality({m, n}) = 2 /\ Pool!Cardinality({m, n}) # 1
    BY <1>2, PairHasTwo, Zenon
  <2> QED BY <1>2, <2>1, SMTT(30)
<1> QED BY <1>1, <1>2, Zenon DEF InTrip

\* What the request becomes; the others stay.
LEMMA Became ==
    ASSUME PoolInv, NEW r \in Request, NEW q, Pool!Become(r, q), UNCHANGED flag, Orderly(q)
    PROVE  PoolInv'
<1>1. /\ DOMAIN req' = Request /\ req'[r] = q
      /\ \A o \in Request : o # r => req'[o] = req[o]
  BY Zenon DEF PoolInv, Pool!Become
<1>2. \A o \in Request : Orderly(req'[o])
  BY <1>1, Zenon DEF PoolInv
<1>3. \A o \in Request : Orderly(req[o])'
  BY <1>2, Zenon DEF Orderly, InScan, InTrip
<1> QED BY <1>1, <1>3, Zenon DEF PoolInv

\* A request that is idle or has failed is in order.
LEMMA OrderlyOnes ==
    /\ Orderly(Pool!Idle) /\ Pool!Idle.pc = "idle"
    /\ Orderly(Pool!Failed) /\ Pool!Failed.pc = "failed"
  BY Zenon DEF Orderly, Fields, Pool!Idle, Pool!Failed

\* A choice that begins is in order.
LEMMA ScanOrderly ==
    ASSUME NEW kind, NEW tried, Once(tried)
    PROVE  Orderly(Pool!Scan(kind, tried)) /\ Pool!Scan(kind, tried).pc = "scan"
  BY Zenon DEF Orderly, Fields, InScan, Pool!Scan

\* So is a request that has just been given a member.
LEMMA TripOrderly ==
    ASSUME NEW kind, NEW m \in Member, NEW tried, m \notin tried, Once(tried)
    PROVE  /\ Orderly(Pool!Trip(kind, m, tried \cup {m}))
           /\ Pool!Trip(kind, m, tried \cup {m}).pc = "trip"
           /\ Pool!Trip(kind, m, tried \cup {m}).member = m
<1> DEFINE q == Pool!Trip(kind, m, tried \cup {m})
<1>1. DOMAIN q = Fields /\ q.pc = "trip" /\ q.tried = tried \cup {m} /\ q.member = m
  BY Zenon DEF Fields, Pool!Trip
<1> HIDE DEF q
<1>2. InTrip(q)
  <2>1. CASE tried = {}
    BY <1>1, <2>1, Zenon DEF InTrip
  <2>2. ASSUME NEW n \in Member, tried = {n} PROVE InTrip(q)
    <3>1. q.tried = {n, m} /\ n # m
      BY <1>1, <2>2, Zenon
    <3> QED BY <3>1, Zenon DEF InTrip
  <2> QED BY <2>1, <2>2, Zenon DEF Once
<1> QED BY <1>1, <1>2, Zenon DEF Orderly, q

\* A load moves a member from those to do to those seen, if it is healthy.
LEMMA LoadOrderly ==
    ASSUME Pool!ServerPoolConstants, PoolInv, NEW r \in Request, Pool!Load(r)
    PROVE  PoolInv' /\ req'[r].pc = "scan"
<1> DEFINE q == req[r]
           m == Pool!Nth(q.todo, 0)
           n == [q EXCEPT !.todo = @ \ {m}, !.seen = IF flag[m] THEN @ \cup {m} ELSE @]
<1>1. Orderly(q) /\ InScan(q) /\ q.pc = "scan" /\ q.todo # {} /\ DOMAIN req = Request
  BY Zenon DEF PoolInv, Orderly, Pool!Load
<1>2. m \in q.todo
  BY <1>1, FirstIsMember, Zenon DEF InScan
<1>3. Pool!Become(r, n) /\ UNCHANGED flag
  BY Zenon DEF Pool!Load
<1>4. /\ DOMAIN n = Fields /\ n.pc = "scan" /\ n.tried = q.tried /\ n.steady = q.steady
      /\ n.todo = q.todo \ {m} /\ n.seen = IF flag[m] THEN q.seen \cup {m} ELSE q.seen
  BY <1>1, Zenon DEF Orderly, Fields
<1> HIDE DEF n, m
<1>5. InScan(n)
  <2>1. /\ q.todo \subseteq Member \ q.tried /\ q.seen \subseteq Member \ q.tried
        /\ Once(q.tried)
        /\ \A o \in q.steady : o \in q.todo \cup q.seen /\ flag[o]
    BY <1>1, Zenon DEF InScan
  <2> HIDE DEF q
  <2>2. \A o \in q.steady : o \in n.todo \cup n.seen
    BY <1>4, <2>1, Zenon
  <2>3. n.todo \subseteq Member \ n.tried /\ n.seen \subseteq Member \ n.tried
    BY <1>2, <1>4, <2>1, Zenon
  <2> QED BY <1>4, <2>1, <2>2, <2>3, Zenon DEF InScan
<1>6. Orderly(n)
  BY <1>4, <1>5, Zenon DEF Orderly
<1>7. req'[r] = n
  BY <1>1, <1>3, Zenon DEF Pool!Become
<1> QED BY <1>3, <1>4, <1>6, <1>7, Became, Zenon

\* A round trip begins at an eligible member.
LEMMA SendOrderly ==
    ASSUME PoolInv, NEW r \in Request, Pool!Send(r)
    PROVE  /\ PoolInv'
           /\ req[r].pc = "scan" /\ req[r].todo = {} /\ InScan(req[r])
           /\ req'[r].pc = "trip" /\ req'[r].member \in Pool!Eligible(req[r])
           /\ \A o \in Request : o # r => req'[o] = req[o]
<1> DEFINE q == req[r]
<1>1. InScan(q) /\ q.pc = "scan" /\ q.todo = {} /\ DOMAIN req = Request /\ UNCHANGED flag
  BY Zenon DEF PoolInv, Orderly, Pool!Send, Pool!Scanned
<1>2. PICK m \in Pool!Eligible(q) : Pool!Become(r, Pool!Trip(q.kind, m, q.tried \cup {m}))
  BY Zenon DEF Pool!Send
<1>3. m \in Member /\ m \notin q.tried /\ Once(q.tried)
  BY <1>1, <1>2, EligibleOnes, Zenon DEF InScan
<1> DEFINE t == Pool!Trip(q.kind, m, q.tried \cup {m})
<1>4. Orderly(t) /\ t.pc = "trip" /\ t.member = m
  BY <1>3, TripOrderly, SMTT(30)
<1> HIDE DEF t
<1>5. req'[r] = t /\ \A o \in Request : o # r => req'[o] = req[o]
  BY <1>1, <1>2, Zenon DEF Pool!Become, t
<1>6. PoolInv'
  BY <1>1, <1>2, <1>4, Became, Zenon DEF t
<1> QED BY <1>1, <1>2, <1>4, <1>5, <1>6, Zenon

\* Every step keeps the requests sound.
LEMMA PoolPreserved ==
    ASSUME Pool!ServerPoolConstants, PoolInv, [Pool!Next]_Pool!vars
    PROVE  PoolInv'
<1>1. ASSUME NEW r \in Request, NEW kind, Pool!Arrive(r, kind) PROVE PoolInv'
  BY <1>1, ScanOrderly, Became, Zenon DEF Pool!Arrive, Once
<1>2. ASSUME NEW r \in Request, Pool!Load(r) PROVE PoolInv'
  BY <1>2, LoadOrderly, Zenon
<1>3. ASSUME NEW r \in Request, Pool!Send(r) PROVE PoolInv'
  BY <1>3, SendOrderly, Zenon
<1>4. ASSUME NEW r \in Request,
             Pool!CloneFails(r) \/ Pool!NoMember(r) \/ Pool!Answer(r)
      PROVE  PoolInv'
  BY <1>4, OrderlyOnes, Became, Zenon DEF Pool!CloneFails, Pool!NoMember, Pool!Answer
<1>5. ASSUME NEW r \in Request, Pool!Fail(r) PROVE PoolInv'
  <2>1. InTrip(req[r])
    BY <1>5, Zenon DEF PoolInv, Orderly, Pool!Fail
  <2>2. CASE Pool!Become(r, Pool!Failed)
    BY <1>5, <2>2, OrderlyOnes, Became, Zenon DEF Pool!Fail
  <2>3. CASE /\ Pool!Become(r, Pool!Scan(req[r].kind, req[r].tried))
             /\ Pool!Cardinality(req[r].tried) = 1
    <3>1. \E m \in Member : req[r].tried = {m}
      BY <2>1, <2>3, TripTried, Zenon
    <3> QED BY <1>5, <2>3, <3>1, ScanOrderly, Became, Zenon DEF Pool!Fail, Once
  <2> QED BY <1>5, <2>2, <2>3, Zenon DEF Pool!Fail
<1>6. ASSUME NEW m \in Member, Pool!SetHealth(m) PROVE PoolInv'
  <2>1. /\ flag' \in [Member -> BOOLEAN]
        /\ \A n \in Member : n # m => flag'[n] = flag[n]
    BY <1>6, Zenon DEF PoolInv, Pool!SetHealth
  <2>2. DOMAIN req' = Request
    BY <1>6, Zenon DEF Pool!SetHealth
  <2>3. ASSUME NEW r \in Request PROVE Orderly(req[r])'
    <3> DEFINE q == req[r]
               n == req'[r]
    <3>1. Orderly(q)
      BY Zenon DEF PoolInv
    <3>2. n = [q EXCEPT !.steady = @ \ {m}]
      BY <1>6, Zenon DEF Pool!SetHealth
    <3>3. /\ DOMAIN n = Fields /\ n.pc = q.pc /\ n.tried = q.tried /\ n.todo = q.todo
          /\ n.seen = q.seen /\ n.steady = q.steady \ {m}
      BY <3>1, <3>2, Zenon DEF Orderly, Fields
    <3>4. ASSUME InScan(q) PROVE InScan(req[r])'
      <4>1. \A o \in n.steady : o \in n.todo \cup n.seen /\ flag'[o]
        BY <2>1, <3>3, <3>4, Zenon DEF InScan
      <4> QED BY <3>3, <3>4, <4>1, Zenon DEF InScan
    <3> QED BY <3>1, <3>3, <3>4, Zenon DEF Orderly, InTrip
  <2> QED BY <2>1, <2>2, <2>3, Zenon DEF PoolInv
<1>7. CASE UNCHANGED Pool!vars
  <2>1. UNCHANGED <<req, flag>>
    BY <1>7, Zenon DEF Pool!vars
  <2>2. \A r \in Request : Orderly(req'[r])
    BY <2>1, Zenon DEF PoolInv
  <2>3. \A r \in Request : Orderly(req[r])'
    BY <2>1, <2>2, Zenon DEF Orderly, InScan, InTrip
  <2> QED BY <2>1, <2>3, Zenon DEF PoolInv
<1> QED BY <1>1, <1>2, <1>3, <1>4, <1>5, <1>6, <1>7, Zenon DEF Pool!Next, Pool!Serve

\* The invariant holds in every reachable state.
LEMMA AlwaysPoolInv == Pool!Spec => []PoolInv
<1>1. Pool!Init => PoolInv
  BY OrderlyOnes, Zenon DEF Pool!Init, PoolInv
<1>2. PoolInv /\ [Pool!Next]_Pool!vars => PoolInv'
  BY BalancerConstants, PoolPreserved, Zenon
<1> QED BY <1>1, <1>2, PTL DEF Pool!Spec

\* Only Send leads from a scan to a round trip.
LEMMA TripBegins ==
    ASSUME Pool!ServerPoolConstants, PoolInv, [Pool!Next]_Pool!vars,
           NEW r \in Request, req[r].pc = "scan", req'[r].pc = "trip"
    PROVE  Pool!Send(r)
<1>0. DOMAIN req = Request
  BY Zenon DEF PoolInv
<1>1. ASSUME NEW o \in Request, o # r, NEW q, Pool!Become(o, q) PROVE FALSE
  BY <1>0, <1>1, Zenon DEF Pool!Become
<1>2. ASSUME NEW q, Pool!Become(r, q) PROVE q.pc = "trip"
  BY <1>0, <1>2, Zenon DEF Pool!Become
<1>3. ASSUME NEW m \in Member, Pool!SetHealth(m) PROVE FALSE
  <2>1. req'[r] = [req[r] EXCEPT !.steady = @ \ {m}]
    BY <1>3, Zenon DEF Pool!SetHealth
  <2>2. DOMAIN req[r] = Fields
    BY Zenon DEF PoolInv, Orderly
  <2> QED BY <2>1, <2>2, Zenon DEF Fields
<1>4. ASSUME NEW kind, Pool!Arrive(r, kind) PROVE FALSE
  BY <1>4, Zenon DEF Pool!Arrive
<1>5. ASSUME Pool!Load(r) PROVE FALSE
  BY <1>5, LoadOrderly, Zenon
<1>6. ASSUME Pool!CloneFails(r) \/ Pool!NoMember(r) \/ Pool!Answer(r) \/ Pool!Fail(r)
      PROVE  FALSE
  BY <1>2, <1>6, OrderlyOnes, Zenon DEF Pool!CloneFails, Pool!NoMember, Pool!Answer, Pool!Fail
<1>7. ASSUME NEW o \in Request, o # r,
             Pool!Serve(o) \/ \E kind \in Pool!Kind : Pool!Arrive(o, kind)
      PROVE  FALSE
  BY <1>1, <1>7, Zenon DEF Pool!Serve, Pool!Load, Pool!Send, Pool!CloneFails,
     Pool!NoMember, Pool!Answer, Pool!Fail, Pool!Arrive
<1>8. ~UNCHANGED Pool!vars
  BY Zenon DEF Pool!vars
<1> QED BY <1>3, <1>4, <1>5, <1>6, <1>7, <1>8, Zenon DEF Pool!Next, Pool!Serve

\* Only a failed trip, a request that cannot be sent again and a selection that
\* finds nobody make a request fail.
LEMMA FailureComes ==
    ASSUME Pool!ServerPoolConstants, PoolInv, [Pool!Next]_Pool!vars,
           NEW r \in Request, req[r].pc \in {"scan", "trip"}, req'[r].pc = "failed"
    PROVE  Pool!CloneFails(r) \/ Pool!NoMember(r) \/ Pool!Fail(r)
<1>0. DOMAIN req = Request
  BY Zenon DEF PoolInv
<1>1. ASSUME NEW o \in Request, o # r, NEW q, Pool!Become(o, q) PROVE FALSE
  BY <1>0, <1>1, Zenon DEF Pool!Become
<1>2. ASSUME NEW q, Pool!Become(r, q) PROVE q.pc = "failed"
  BY <1>0, <1>2, Zenon DEF Pool!Become
<1>3. ASSUME NEW m \in Member, Pool!SetHealth(m) PROVE FALSE
  <2>1. req'[r] = [req[r] EXCEPT !.steady = @ \ {m}]
    BY <1>3, Zenon DEF Pool!SetHealth
  <2>2. DOMAIN req[r] = Fields
    BY Zenon DEF PoolInv, Orderly
  <2> QED BY <2>1, <2>2, Zenon DEF Fields
<1>4. ASSUME NEW kind, Pool!Arrive(r, kind) PROVE FALSE
  BY <1>4, Zenon DEF Pool!Arrive
<1>5. ASSUME Pool!Load(r) PROVE FALSE
  BY <1>5, LoadOrderly, Zenon
<1>6. ASSUME Pool!Send(r) \/ Pool!Answer(r) PROVE FALSE
  BY <1>2, <1>6, OrderlyOnes, SendOrderly, Zenon DEF Pool!Answer
<1>7. ASSUME NEW o \in Request, o # r,
             Pool!Serve(o) \/ \E kind \in Pool!Kind : Pool!Arrive(o, kind)
      PROVE  FALSE
  BY <1>1, <1>7, Zenon DEF Pool!Serve, Pool!Load, Pool!Send, Pool!CloneFails,
     Pool!NoMember, Pool!Answer, Pool!Fail, Pool!Arrive
<1>8. ~UNCHANGED Pool!vars
  BY Zenon DEF Pool!vars
<1> QED BY <1>3, <1>4, <1>5, <1>6, <1>7, <1>8, Zenon DEF Pool!Next, Pool!Serve

\* A member that was healthy throughout the scan has been seen at its end.
LEMMA SteadySeen ==
    ASSUME NEW q, InScan(q), q.todo = {}
    PROVE  q.steady \subseteq q.seen
  BY Zenon DEF InScan

\* While flags change under a selection, a healthy member that was not tried is
\* not passed over for one seen unhealthy, nor a primary for a backup (eligible,
\* selectMember), however many members and requests there are.
THEOREM HealthyPreferred == Pool!Spec => PrefersHealthy
<1> DEFINE Prefers(r) ==
             req[r].pc = "scan" /\ req'[r].pc = "trip" =>
                /\ req[r].steady # {} => req'[r].member \in req[r].seen
                /\ req[r].steady \ Backup # {} => req'[r].member \notin Backup
<1>1. ASSUME PoolInv, [Pool!Next]_Pool!vars PROVE [\A r \in Request : Prefers(r)]_Pool!vars
  <2> SUFFICES ASSUME NEW r \in Request, req[r].pc = "scan", req'[r].pc = "trip"
               PROVE  Prefers(r)
    BY Zenon
  <2> DEFINE q == req[r]
             m == req'[r].member
  <2>1. Pool!Send(r)
    BY <1>1, BalancerConstants, TripBegins, Zenon
  <2>2. InScan(q) /\ q.todo = {} /\ m \in Pool!Eligible(q)
    BY <1>1, <2>1, SendOrderly, Zenon
  <2>3. q.steady \subseteq q.seen /\ q.seen \subseteq Member \ q.tried
    BY <2>2, SteadySeen, Zenon DEF InScan
  <2>4. q.seen # {} => Pool!Eligible(q) = Pool!Preferred(q.seen)
    BY <2>3, EligibleOnes, Zenon
  <2>5. /\ Pool!Preferred(q.seen) \subseteq q.seen
        /\ q.seen \ Backup # {} => Pool!Preferred(q.seen) \cap Backup = {}
    BY PreferredOnes, Zenon
  <2>6. ASSUME NEW n \in q.steady PROVE m \in Pool!Preferred(q.seen)
    <3>1. q.seen # {}
      BY <2>3, Zenon
    <3> QED BY <2>2, <2>4, <3>1, Zenon
  <2>7. q.steady # {} => m \in q.seen
    BY <2>5, <2>6, Zenon
  <2>8. q.steady \ Backup # {} => m \notin Backup
    BY <2>3, <2>5, <2>6, Zenon
  <2> QED BY <2>7, <2>8, Zenon
<1> QED BY <1>1, AlwaysPoolInv, PTL DEF Pool!Spec, PrefersHealthy, Pool!PrefersHealthy

\* A request that may be replayed fails only after two members failed it or when
\* there was nobody else to try (RoundTrip, selectMember).
THEOREM FailsLate == Pool!Spec => GivesUpLate
<1> DEFINE Late(q, then) ==
             q.pc \in {"scan", "trip"} /\ q.kind = "replayable" /\ then.pc = "failed" =>
                \/ q.pc = "trip" /\ Pool!Cardinality(q.tried) = 2
                \/ q.pc = "scan" /\ q.steady = {} /\ (lastResort => q.tried = Member)
<1>1. ASSUME PoolInv, [Pool!Next]_Pool!vars
      PROVE  [\A r \in Request : Late(req[r], req'[r])]_Pool!vars
  <2> SUFFICES ASSUME NEW r \in Request, req[r].pc \in {"scan", "trip"},
                      req[r].kind = "replayable", req'[r].pc = "failed"
               PROVE  Late(req[r], req'[r])
    BY Zenon
  <2> DEFINE q == req[r]
  <2>1. Pool!CloneFails(r) \/ Pool!NoMember(r) \/ Pool!Fail(r)
    BY <1>1, BalancerConstants, FailureComes, Zenon
  <2>2. ~Pool!CloneFails(r)
    BY Zenon DEF Pool!CloneFails
  <2>3. CASE Pool!NoMember(r)
    <3>1. InScan(q) /\ q.pc = "scan" /\ q.todo = {} /\ Pool!Eligible(q) = {}
      BY <1>1, <2>3, Zenon DEF PoolInv, Orderly, Pool!NoMember, Pool!Scanned
    <3>2. q.steady \subseteq q.seen /\ q.seen \subseteq Member \ q.tried
          /\ q.tried \subseteq Member
      BY <3>1, SteadySeen, Zenon DEF InScan, Once
    <3>3. q.seen = {}
      <4>1. q.seen # {} => Pool!Eligible(q) = Pool!Preferred(q.seen)
        BY <3>2, EligibleOnes, Zenon
      <4>2. q.seen # {} => Pool!Preferred(q.seen) # {}
        BY PreferredOnes, Zenon
      <4> QED BY <3>1, <4>1, <4>2, Zenon
    <3>4. lastResort => Member \ q.tried = {}
      BY <3>1, <3>3, PreferredOnes, Zenon DEF Pool!Eligible
    <3> QED BY <3>1, <3>2, <3>3, <3>4, Zenon
  <2>4. CASE Pool!Fail(r)
    <3>1. InTrip(q) /\ q.pc = "trip"
      BY <1>1, <2>4, Zenon DEF PoolInv, Orderly, Pool!Fail
    <3>2. Pool!Cardinality(q.tried) # 1
      <4> SUFFICES ASSUME Pool!Cardinality(q.tried) = 1 PROVE FALSE
        BY Zenon
      <4>1. \E m \in Member : q.tried = {m}
        BY <3>1, TripTried, Zenon
      <4>2. Pool!Become(r, Pool!Scan(q.kind, q.tried))
        BY <2>4, Zenon DEF Pool!Fail
      <4>3. req'[r] = Pool!Scan(q.kind, q.tried)
        BY <1>1, <4>2, Zenon DEF PoolInv, Pool!Become
      <4> QED BY <4>1, <4>3, ScanOrderly, Zenon DEF Once
    <3>3. Pool!Cardinality(q.tried) = 2
      BY <3>1, <3>2, TripTried, Zenon
    <3> QED BY <3>1, <3>3, Zenon
  <2> QED BY <2>1, <2>2, <2>3, <2>4, Zenon
<1> QED BY <1>1, AlwaysPoolInv, PTL DEF Pool!Spec, GivesUpLate, Pool!GivesUpLate

-----------------------------------------------------------------------------
(* Sums over the members.                                                   *)

\* The sum of w over S.
Total(w, S) == Pool!MapThenSumSet(LAMBDA u : w[u], S)

\* g maps every subset of S to its total.
Adds(g, w, S) ==
    g = [s \in SUBSET S |-> IF s = {} THEN 0
                            ELSE LET x == CHOOSE y \in s : TRUE IN w[x] + g[s \ {x}]]

\* Induction over the subsets of a finite set: what holds of a set whenever it
\* holds of its proper subsets holds of all.
LEMMA SubsetInduction ==
    ASSUME NEW S, IsFiniteSet(S), NEW G,
           \A s \in SUBSET S : (\A t \in SUBSET s : t # s => t \in G) => s \in G
    PROVE  S \in G
<1> SUFFICES ASSUME S \notin G PROVE FALSE
  BY Zenon
<1> DEFINE Bad == {s \in SUBSET S : s \notin G}
           N == {Cardinality(s) : s \in Bad}
<1>1. \A s \in SUBSET S : IsFiniteSet(s) /\ Cardinality(s) \in Nat
  BY FS_Subset, FS_CardinalityType, Zenon
<1>2. N \subseteq Nat /\ N # {}
  <2>1. ASSUME NEW n \in N PROVE n \in Nat
    <3>1. PICK s \in Bad : n = Cardinality(s)
      BY Zenon
    <3> QED BY <1>1, <3>1, Zenon
  <2>2. S \in Bad
    BY Zenon
  <2>3. Cardinality(S) \in N
    BY <2>2, Zenon
  <2> HIDE DEF N, Bad
  <2> QED BY <2>1, <2>3, Zenon
<1>3. PICK n \in N : \A m \in N : n <= m
  BY <1>2, LeastNatural, Zenon
<1>4. PICK s \in Bad : n = Cardinality(s)
  BY <1>3, Zenon
<1>5. ASSUME NEW t \in SUBSET s, t # s PROVE t \in G
  <2> SUFFICES ASSUME t \notin G PROVE FALSE
    BY Zenon
  <2>1. t \in Bad
    BY <1>4, Zenon
  <2>1a. Cardinality(t) \in N
    BY <2>1, Zenon
  <2>2. n <= Cardinality(t)
    <3> HIDE DEF N, Bad
    <3> QED BY <1>3, <2>1a, Zenon
  <2>3. Cardinality(t) <= Cardinality(s) /\ Cardinality(t) # Cardinality(s)
    BY <1>1, <1>4, <1>5, FS_Subset, Zenon
  <2>4. Cardinality(t) \in Nat /\ Cardinality(s) \in Nat
    BY <1>1, <1>4, <2>1, Zenon
  <2> HIDE DEF N, Bad
  <2> QED BY <1>4, <2>2, <2>3, <2>4, SMTT(30)
<1> QED BY <1>4, <1>5, Zenon

\* The sum of w over S is what such a function has for S.
LEMMA TotalIs ==
    ASSUME NEW w, NEW S, NEW g, Adds(g, w, S)
    PROVE  \E h : Adds(h, w, S) /\ Total(w, S) = h[S]
<1> DEFINE h == CHOOSE it : Adds(it, w, S)
<1>1. Adds(h, w, S)
  BY Zenon
<1>2. Total(w, S) = h[S]
  BY Zenon DEF Total, Pool!MapThenSumSet, Pool!MapThenFoldSet, Adds
<1> QED BY <1>1, <1>2, Zenon

\* The element a fold takes out of a set first.
First(s) == CHOOSE y \in s : TRUE

\* g adds up: what a subset totals is its first element and the rest.
Unfolds(g, w, S) ==
    /\ g[{}] = 0
    /\ \A s \in SUBSET S : s # {} => g[s] = w[First(s)] + g[s \ {First(s)}]

\* Such a function adds up.
LEMMA AddsStep ==
    ASSUME NEW w, NEW S, NEW g, Adds(g, w, S)
    PROVE  Unfolds(g, w, S)
<1>1. ASSUME NEW s \in SUBSET S
      PROVE  g[s] = IF s = {} THEN 0
                    ELSE LET x == CHOOSE y \in s : TRUE IN w[x] + g[s \ {x}]
  BY Zenon DEF Adds
<1>2. g[{}] = 0
  BY <1>1, Zenon
<1>3. ASSUME NEW s \in SUBSET S, s # {}
      PROVE  g[s] = w[First(s)] + g[s \ {First(s)}]
  BY <1>1, <1>3, Zenon DEF First
<1> QED BY <1>2, <1>3, Zenon DEF Unfolds

\* The first element of a set is one, and without it the set is smaller.
LEMMA FirstIn ==
    ASSUME NEW s, s # {}
    PROVE  /\ First(s) \in s
           /\ s \ {First(s)} \in SUBSET s
           /\ s \ {First(s)} # s
<1>1. First(s) \in s
  BY Zenon DEF First
<1> QED BY <1>1, Zenon

\* Two such functions agree where both are defined.
LEMMA AddsUnique ==
    ASSUME NEW w, NEW S, NEW g, Adds(g, w, S), NEW T, NEW h, Adds(h, w, T),
           NEW r, r \in SUBSET S, r \in SUBSET T, IsFiniteSet(r)
    PROVE  g[r] = h[r]
<1> DEFINE G == {s \in SUBSET r : g[s] = h[s]}
<1>a. Unfolds(g, w, S)
  BY AddsStep, Zenon
<1>b. Unfolds(h, w, T)
  BY AddsStep, Zenon
<1>1. ASSUME NEW s \in SUBSET r, \A t \in SUBSET s : t # s => t \in G PROVE s \in G
  <2>1. s \in SUBSET S /\ s \in SUBSET T
    BY Zenon
  <2>2. CASE s = {}
    BY <1>a, <1>b, <2>2, Zenon DEF Unfolds
  <2>3. CASE s # {}
    <3>1. s \ {First(s)} \in SUBSET s /\ s \ {First(s)} # s
      BY <2>3, FirstIn, Zenon
    <3>2. g[s \ {First(s)}] = h[s \ {First(s)}]
      BY <1>1, <3>1, Zenon
    <3>3. g[s] = w[First(s)] + g[s \ {First(s)}]
      BY <1>a, <2>1, <2>3, Zenon DEF Unfolds
    <3>4. h[s] = w[First(s)] + h[s \ {First(s)}]
      BY <1>b, <2>1, <2>3, Zenon DEF Unfolds
    <3> QED BY <3>2, <3>3, <3>4, Zenon
  <2> QED BY <2>2, <2>3, Zenon
<1>2. r \in G
  <2> HIDE DEF G
  <2> QED BY <1>1, SubsetInduction, Zenon
<1> QED BY <1>2, Zenon

\* A total over a finite set unfolds.
LEMMA TotalExists ==
    ASSUME NEW w, NEW S, IsFiniteSet(S)
    PROVE  \E g : Adds(g, w, S)
<1> DEFINE G == {s \in SUBSET S : \E g : Adds(g, w, s)}
<1>1. ASSUME NEW s \in SUBSET S, \A t \in SUBSET s : t # s => t \in G PROVE s \in G
  <2> DEFINE h == [t \in SUBSET s |->
                     IF t = {} THEN 0
                     ELSE IF t = s THEN w[First(s)] + Total(w, s \ {First(s)})
                     ELSE Total(w, t)]
  <2>1. ASSUME NEW t \in SUBSET s, t # s
        PROVE  /\ t = {} => Total(w, t) = 0
               /\ t # {} => Total(w, t) = w[First(t)] + Total(w, t \ {First(t)})
    <3>1. PICK g : Adds(g, w, t) /\ Total(w, t) = g[t]
      BY <1>1, <2>1, TotalIs, Zenon
    <3>2. /\ g[{}] = 0
          /\ t # {} => g[t] = w[First(t)] + g[t \ {First(t)}]
      <4>1. Unfolds(g, w, t)
        BY <3>1, AddsStep, Zenon
      <4> QED BY <4>1, Zenon DEF Unfolds
    <3>3. ASSUME t # {} PROVE g[t \ {First(t)}] = Total(w, t \ {First(t)})
      <4> DEFINE r == t \ {First(t)}
      <4>1. r \in SUBSET t /\ r \in SUBSET s /\ r # s
        BY <2>1, <3>3, FirstIn, Zenon
      <4>2. PICK f : Adds(f, w, r) /\ Total(w, r) = f[r]
        BY <1>1, <4>1, TotalIs, Zenon
      <4>3. IsFiniteSet(r)
        BY <4>1, FS_Subset, Zenon
      <4> HIDE DEF r
      <4>4. f[r] = g[r]
        BY <3>1, <4>1, <4>2, <4>3, AddsUnique, SMTT(30)
      <4> QED BY <4>2, <4>4, Zenon DEF r
    <3> QED BY <3>1, <3>2, <3>3, Zenon
  <2>2. ASSUME NEW t \in SUBSET s
        PROVE  h[t] = IF t = {} THEN 0 ELSE w[First(t)] + h[t \ {First(t)}]
    <3>1. CASE t = {}
      BY <3>1, Zenon
    <3>2. CASE t # {}
      <4>1. t \ {First(t)} \in SUBSET s /\ t \ {First(t)} # s
        BY <3>2, FirstIn, Zenon
      <4>2. h[t \ {First(t)}] = Total(w, t \ {First(t)})
        BY <2>1, <4>1, Zenon
      <4>3. h[t] = w[First(t)] + Total(w, t \ {First(t)})
        BY <2>1, <3>2, Zenon
      <4> QED BY <3>2, <4>2, <4>3, Zenon
    <3> QED BY <3>1, <3>2, Zenon
  <2>3. h = [t \in SUBSET s |-> IF t = {} THEN 0 ELSE w[First(t)] + h[t \ {First(t)}]]
    <3>1. h = [t \in SUBSET s |-> h[t]]
      BY Zenon
    <3> HIDE DEF h
    <3> QED BY <2>2, <3>1, Zenon
  <2>4. Adds(h, w, s)
    <3> HIDE DEF h
    <3> QED BY <2>3, Zenon DEF Adds, First
  <2> QED BY <2>4, Zenon
<1>2. S \in G
  <2> HIDE DEF G
  <2> QED BY <1>1, SubsetInduction, Zenon
<1> QED BY <1>2, Zenon

\* The sum over a finite set is its first term and the sum of the others.
LEMMA TotalUnfolds ==
    ASSUME NEW w, NEW S, IsFiniteSet(S)
    PROVE  /\ S = {} => Total(w, S) = 0
           /\ S # {} => Total(w, S) = w[First(S)] + Total(w, S \ {First(S)})
<1>1. PICK g : Adds(g, w, S) /\ Total(w, S) = g[S]
  BY TotalExists, TotalIs, Zenon
<1>2. /\ g[{}] = 0
      /\ S # {} => g[S] = w[First(S)] + g[S \ {First(S)}]
  <2>1. Unfolds(g, w, S)
    BY <1>1, AddsStep, Zenon
  <2> QED BY <2>1, Zenon DEF Unfolds
<1>3. ASSUME S # {} PROVE g[S \ {First(S)}] = Total(w, S \ {First(S)})
  <2> DEFINE r == S \ {First(S)}
  <2>1. r \in SUBSET S /\ r \in SUBSET r /\ IsFiniteSet(r)
    BY <1>3, FirstIn, FS_Subset, Zenon
  <2> HIDE DEF r
  <2>2. PICK f : Adds(f, w, r) /\ Total(w, r) = f[r]
    BY <2>1, TotalExists, TotalIs, Zenon
  <2>3. f[r] = g[r]
    BY <1>1, <2>1, <2>2, AddsUnique, SMTT(30)
  <2> QED BY <2>2, <2>3, Zenon DEF r
<1> QED BY <1>1, <1>2, <1>3, Zenon

\* The terms are integers.
Integral(w, S) == \A u \in S : w[u] \in Int

\* A total of integers is an integer.
LEMMA TotalInt ==
    ASSUME NEW w, NEW S, IsFiniteSet(S), Integral(w, S)
    PROVE  Total(w, S) \in Int
<1> DEFINE G == {s \in SUBSET S : Total(w, s) \in Int}
<1>1. ASSUME NEW s \in SUBSET S, \A t \in SUBSET s : t # s => t \in G PROVE s \in G
  <2>1. IsFiniteSet(s)
    BY FS_Subset, Zenon
  <2>2. CASE s = {}
    <3>1. Total(w, s) = 0
      BY <2>1, <2>2, TotalUnfolds, Zenon
    <3> QED BY <3>1, SMTT(30)
  <2>3. CASE s # {}
    <3>1. Total(w, s) = w[First(s)] + Total(w, s \ {First(s)})
      BY <2>1, <2>3, TotalUnfolds, Zenon
    <3>2. w[First(s)] \in Int
      BY <2>3, FirstIn, Zenon DEF Integral
    <3>3. Total(w, s \ {First(s)}) \in Int
      BY <1>1, <2>3, FirstIn, Zenon
    <3>4. Total(w, s) \in Int
      BY <3>1, <3>2, <3>3, SMTT(30)
    <3> QED BY <3>4, Zenon
  <2> QED BY <2>2, <2>3, Zenon
<1>2. S \in G
  <2> HIDE DEF G
  <2> QED BY <1>1, SubsetInduction, Zenon
<1> QED BY <1>2, Zenon

\* A total depends on the terms it adds only.
LEMMA TotalSame ==
    ASSUME NEW w, NEW v, NEW S, IsFiniteSet(S), \A u \in S : w[u] = v[u]
    PROVE  Total(w, S) = Total(v, S)
<1> DEFINE G == {s \in SUBSET S : Total(w, s) = Total(v, s)}
<1>1. ASSUME NEW s \in SUBSET S, \A t \in SUBSET s : t # s => t \in G PROVE s \in G
  <2>1. IsFiniteSet(s)
    BY FS_Subset, Zenon
  <2>2. CASE s = {}
    <3>1. Total(w, s) = 0
      BY <2>1, <2>2, TotalUnfolds, Zenon
    <3>2. Total(v, s) = 0
      BY <2>1, <2>2, TotalUnfolds, Zenon
    <3> QED BY <3>1, <3>2, Zenon
  <2>3. CASE s # {}
    <3>1. Total(w, s) = w[First(s)] + Total(w, s \ {First(s)})
      BY <2>1, <2>3, TotalUnfolds, Zenon
    <3>2. Total(v, s) = v[First(s)] + Total(v, s \ {First(s)})
      BY <2>1, <2>3, TotalUnfolds, Zenon
    <3>3. w[First(s)] = v[First(s)]
      BY <2>3, FirstIn, Zenon
    <3>4. Total(w, s \ {First(s)}) = Total(v, s \ {First(s)})
      BY <1>1, <2>3, FirstIn, Zenon
    <3>5. Total(w, s) = Total(v, s)
      BY <3>1, <3>2, <3>3, <3>4, Zenon
    <3> QED BY <3>5, Zenon
  <2> QED BY <2>2, <2>3, Zenon
<1>2. S \in G
  <2> HIDE DEF G
  <2> QED BY <1>1, SubsetInduction, Zenon
<1> QED BY <1>2, Zenon

\* Any term can be taken out of a total, not only the first.
LEMMA TotalRemove ==
    ASSUME NEW w, NEW S, IsFiniteSet(S), Integral(w, S), NEW a \in S
    PROVE  Total(w, S) = w[a] + Total(w, S \ {a})
<1> DEFINE G == {s \in SUBSET S : \A x \in s : Total(w, s) = w[x] + Total(w, s \ {x})}
<1>1. ASSUME NEW s \in SUBSET S, \A t \in SUBSET s : t # s => t \in G PROVE s \in G
  <2> SUFFICES ASSUME NEW x \in s PROVE Total(w, s) = w[x] + Total(w, s \ {x})
    BY Zenon
  <2> DEFINE f == First(s)
             T(r) == Total(w, r)
  <2>1. f \in s /\ s \ {f} \in SUBSET s /\ s \ {f} # s
    BY FirstIn, Zenon
  <2>2. T(s) = w[f] + T(s \ {f})
    BY FS_Subset, TotalUnfolds, Zenon
  <2> HIDE DEF f
  <2>3. CASE x = f
    BY <2>2, <2>3, Zenon
  <2>4. CASE x # f
    <3>1. x \in s \ {f} /\ f \in s \ {x}
      BY <2>1, <2>4, Zenon
    <3>2. T(s \ {f}) = w[x] + T((s \ {f}) \ {x})
      BY <1>1, <2>1, <3>1, Zenon
    <3>3. s \ {x} \in SUBSET s /\ s \ {x} # s
      BY Zenon
    <3>4. T(s \ {x}) = w[f] + T((s \ {x}) \ {f})
      BY <1>1, <3>1, <3>3, Zenon
    <3>5. (s \ {f}) \ {x} = (s \ {x}) \ {f}
      BY Zenon
    <3>6. w[f] \in Int /\ w[x] \in Int
      BY <2>1, Zenon DEF Integral
    <3>7. T((s \ {x}) \ {f}) \in Int
      <4> DEFINE r == (s \ {x}) \ {f}
      <4>1. r \in SUBSET S
        BY Zenon
      <4> HIDE DEF r
      <4>2. IsFiniteSet(r) /\ Integral(w, r)
        BY <4>1, FS_Subset, Zenon DEF Integral
      <4>3. T(r) \in Int
        BY <4>2, TotalInt, Zenon
      <4> QED BY <4>3, Zenon DEF r
    <3> DEFINE m == T((s \ {x}) \ {f})
    <3>8. T(s) = w[f] + (w[x] + m) /\ T(s \ {x}) = w[f] + m
      BY <2>2, <3>2, <3>4, <3>5, Zenon
    <3> HIDE DEF m, T
    <3>9. m \in Int
      BY <3>7, Zenon DEF m
    <3>10. T(s) = w[x] + T(s \ {x})
      BY <3>6, <3>8, <3>9, SMTT(30)
    <3> QED BY <3>10, Zenon DEF T
  <2> QED BY <2>3, <2>4, Zenon
<1>2. S \in G
  <2> HIDE DEF G
  <2> QED BY <1>1, SubsetInduction, Zenon
<1> QED BY <1>2, Zenon

\* The total over two sets without a common element is the sum of the totals.
LEMMA TotalUnion ==
    ASSUME NEW w, NEW A, NEW B, IsFiniteSet(A), IsFiniteSet(B), A \cap B = {},
           Integral(w, A), Integral(w, B)
    PROVE  Total(w, A \cup B) = Total(w, A) + Total(w, B)
<1> DEFINE G == {b \in SUBSET B : Total(w, A \cup b) = Total(w, A) + Total(w, b)}
<1>a. Total(w, A) \in Int
  BY TotalInt, Zenon
<1>1. ASSUME NEW b \in SUBSET B, \A t \in SUBSET b : t # b => t \in G PROVE b \in G
  <2>1. IsFiniteSet(b) /\ IsFiniteSet(A \cup b) /\ Integral(w, A \cup b)
    BY FS_Subset, FS_Union, Zenon DEF Integral
  <2>2. CASE b = {}
    <3>1. Total(w, b) = 0
      BY <2>1, <2>2, TotalUnfolds, Zenon
    <3>2. A \cup b = A
      BY <2>2, Zenon
    <3>3. Total(w, A) + Total(w, b) = Total(w, A)
      BY <1>a, <3>1, SMTT(30)
    <3>4. Total(w, A \cup b) = Total(w, A) + Total(w, b)
      BY <3>2, <3>3, Zenon
    <3> QED BY <3>4, Zenon
  <2>3. CASE b # {}
    <3> DEFINE x == First(b)
               r == b \ {x}
    <3>1. x \in b /\ r \in SUBSET b /\ r # b
      BY <2>3, FirstIn, Zenon
    <3>2. Total(w, b) = w[x] + Total(w, r)
      BY <2>1, <2>3, TotalUnfolds, Zenon
    <3> HIDE DEF x
    <3>3. (A \cup b) \ {x} = A \cup r /\ x \in A \cup b
      BY <3>1, Zenon
    <3>4. IsFiniteSet(r) /\ Integral(w, r)
      BY <2>1, <3>1, FS_Subset, Zenon DEF Integral
    <3> HIDE DEF r
    <3>5. Total(w, A \cup b) = w[x] + Total(w, A \cup r)
      BY <2>1, <3>3, TotalRemove, SMTT(30)
    <3>6. Total(w, A \cup r) = Total(w, A) + Total(w, r)
      BY <1>1, <3>1, Zenon
    <3>7. Total(w, r) \in Int
      BY <3>4, TotalInt, Zenon
    <3>8. w[x] \in Int
      BY <3>1, Zenon DEF Integral
    <3>9. Total(w, A \cup b) = Total(w, A) + Total(w, b)
      BY <1>a, <3>2, <3>5, <3>6, <3>7, <3>8, SMTT(30)
    <3> QED BY <3>9, Zenon
  <2> QED BY <2>2, <2>3, Zenon
<1>2. B \in G
  <2> HIDE DEF G
  <2> QED BY <1>1, SubsetInduction, Zenon
<1> QED BY <1>2, Zenon

\* A total of zeros is zero.
LEMMA TotalZero ==
    ASSUME NEW w, NEW S, IsFiniteSet(S), \A u \in S : w[u] = 0
    PROVE  Total(w, S) = 0
<1> DEFINE G == {s \in SUBSET S : Total(w, s) = 0}
<1>1. ASSUME NEW s \in SUBSET S, \A t \in SUBSET s : t # s => t \in G PROVE s \in G
  <2>1. IsFiniteSet(s)
    BY FS_Subset, Zenon
  <2>2. CASE s = {}
    BY <2>1, <2>2, TotalUnfolds, Zenon
  <2>3. CASE s # {}
    <3>1. Total(w, s) = w[First(s)] + Total(w, s \ {First(s)})
      BY <2>1, <2>3, TotalUnfolds, Zenon
    <3>2. w[First(s)] = 0
      BY <2>3, FirstIn, Zenon
    <3>3. Total(w, s \ {First(s)}) = 0
      BY <1>1, <2>3, FirstIn, Zenon
    <3>4. Total(w, s) = 0
      BY <3>1, <3>2, <3>3, SMTT(30)
    <3> QED BY <3>4, Zenon
  <2> QED BY <2>2, <2>3, Zenon
<1>2. S \in G
  <2> HIDE DEF G
  <2> QED BY <1>1, SubsetInduction, Zenon
<1> QED BY <1>2, Zenon

\* The terms are natural numbers.
Counts(w, S) == \A u \in S : w[u] \in Nat

\* A total of naturals is a natural.
LEMMA TotalNat ==
    ASSUME NEW w, NEW S, IsFiniteSet(S), Counts(w, S)
    PROVE  Total(w, S) \in Nat
<1> DEFINE G == {s \in SUBSET S : Total(w, s) \in Nat}
<1>1. ASSUME NEW s \in SUBSET S, \A t \in SUBSET s : t # s => t \in G PROVE s \in G
  <2>1. IsFiniteSet(s)
    BY FS_Subset, Zenon
  <2>2. CASE s = {}
    <3>1. Total(w, s) = 0
      BY <2>1, <2>2, TotalUnfolds, Zenon
    <3> QED BY <3>1, SMTT(30)
  <2>3. CASE s # {}
    <3>1. Total(w, s) = w[First(s)] + Total(w, s \ {First(s)})
      BY <2>1, <2>3, TotalUnfolds, Zenon
    <3>2. w[First(s)] \in Nat
      BY <2>3, FirstIn, Zenon DEF Counts
    <3>3. Total(w, s \ {First(s)}) \in Nat
      BY <1>1, <2>3, FirstIn, Zenon
    <3>4. Total(w, s) \in Nat
      BY <3>1, <3>2, <3>3, SMTT(30)
    <3> QED BY <3>4, Zenon
  <2> QED BY <2>2, <2>3, Zenon
<1>2. S \in G
  <2> HIDE DEF G
  <2> QED BY <1>1, SubsetInduction, Zenon
<1> QED BY <1>2, Zenon

\* The terms of h are those of f and g together.
Added(h, f, g, S) == \A u \in S : h[u] = f[u] + g[u]

\* The total of sums is the sum of the totals.
LEMMA TotalAdded ==
    ASSUME NEW f, NEW g, NEW h, NEW S, IsFiniteSet(S), Integral(f, S), Integral(g, S),
           Added(h, f, g, S)
    PROVE  Total(h, S) = Total(f, S) + Total(g, S)
<1> DEFINE G == {s \in SUBSET S : Total(h, s) = Total(f, s) + Total(g, s)}
<1>1. ASSUME NEW s \in SUBSET S, \A t \in SUBSET s : t # s => t \in G PROVE s \in G
  <2>1. IsFiniteSet(s)
    BY FS_Subset, Zenon
  <2>2. CASE s = {}
    <3>1. \A w : Total(w, s) = 0
      BY <2>1, <2>2, TotalUnfolds, Zenon
    <3>2. Total(h, s) = Total(f, s) + Total(g, s)
      BY <3>1, SMTT(30)
    <3> QED BY <3>2, Zenon
  <2>3. CASE s # {}
    <3> DEFINE x == First(s)
               r == s \ {x}
    <3>1. x \in s /\ r \in SUBSET s /\ r # s
      BY <2>3, FirstIn, Zenon
    <3>2. /\ Total(h, s) = h[x] + Total(h, r)
          /\ Total(f, s) = f[x] + Total(f, r)
          /\ Total(g, s) = g[x] + Total(g, r)
      BY <2>1, <2>3, TotalUnfolds, Zenon
    <3> HIDE DEF x
    <3>3. f[x] \in Int /\ g[x] \in Int /\ h[x] = f[x] + g[x]
      BY <3>1, Zenon DEF Integral, Added
    <3>4. Total(h, r) = Total(f, r) + Total(g, r)
      BY <1>1, <3>1, Zenon
    <3>5. IsFiniteSet(r) /\ Integral(f, r) /\ Integral(g, r)
      BY <2>1, <3>1, FS_Subset, Zenon DEF Integral
    <3> HIDE DEF r
    <3>6. Total(f, r) \in Int /\ Total(g, r) \in Int
      BY <3>5, TotalInt, Zenon
    <3>7. Total(h, s) = Total(f, s) + Total(g, s)
      BY <3>2, <3>3, <3>4, <3>6, SMTT(30)
    <3> QED BY <3>7, Zenon
  <2> QED BY <2>2, <2>3, Zenon
<1>2. S \in G
  <2> HIDE DEF G
  <2> QED BY <1>1, SubsetInduction, Zenon
<1> QED BY <1>2, Zenon

\* No term is above c.
AtMost(w, S, c) == \A u \in S : w[u] \in Int /\ w[u] <= c

\* A total is no more than its number of terms times a bound of them.
LEMMA TotalAtMost ==
    ASSUME NEW w, NEW S, IsFiniteSet(S), NEW c \in Int, AtMost(w, S, c)
    PROVE  Total(w, S) <= Cardinality(S) * c
<1> DEFINE G == {s \in SUBSET S : Total(w, s) <= Cardinality(s) * c}
<1>1. ASSUME NEW s \in SUBSET S, \A t \in SUBSET s : t # s => t \in G PROVE s \in G
  <2>1. IsFiniteSet(s)
    BY FS_Subset, Zenon
  <2>2. CASE s = {}
    <3>1. Total(w, s) = 0 /\ Cardinality(s) = 0
      BY <2>1, <2>2, TotalUnfolds, FS_EmptySet, Zenon
    <3>2. Total(w, s) <= Cardinality(s) * c
      BY <3>1, SMTT(30)
    <3> QED BY <3>2, Zenon
  <2>3. CASE s # {}
    <3> DEFINE x == First(s)
               r == s \ {x}
    <3>1. x \in s /\ r \in SUBSET s /\ r # s
      BY <2>3, FirstIn, Zenon
    <3>2. Total(w, s) = w[x] + Total(w, r)
      BY <2>1, <2>3, TotalUnfolds, Zenon
    <3>3. /\ IsFiniteSet(r) /\ Cardinality(r) = Cardinality(s) - 1
          /\ Cardinality(s) \in Nat
      BY <2>1, <3>1, FS_RemoveElement, FS_CardinalityType, Zenon
    <3> HIDE DEF x
    <3>4. w[x] \in Int /\ w[x] <= c
      BY <3>1, Zenon DEF AtMost
    <3>5. Total(w, r) <= Cardinality(r) * c
      BY <1>1, <3>1, Zenon
    <3>6. Integral(w, r)
      BY Zenon DEF Integral, AtMost
    <3> HIDE DEF r
    <3>7. Total(w, r) \in Int
      BY <3>3, <3>6, TotalInt, Zenon
    <3>8. \A k \in Nat : (k - 1) * c + c = k * c
      BY SMTT(30)
    <3>9. Total(w, s) <= (Cardinality(s) - 1) * c + c
      BY <3>2, <3>3, <3>4, <3>5, <3>7, SMTT(30)
    <3>10. Total(w, s) <= Cardinality(s) * c
      BY <3>3, <3>8, <3>9, SMTT(30)
    <3> QED BY <3>10, Zenon
  <2> QED BY <2>2, <2>3, Zenon
<1>2. S \in G
  <2> HIDE DEF G
  <2> QED BY <1>1, SubsetInduction, Zenon
<1> QED BY <1>2, Zenon

-----------------------------------------------------------------------------
(* The weights of weighted round robin.                                     *)

\* The greatest weight.
Widest == Pool!Max({Weight[m] : m \in Member})

\* How far the members of S together may be ahead of the others.
Room(S) == Widest * (Cardinality(S) * (Cardinality(Member) - Cardinality(S)))

\* The inductive invariant: what one member is ahead, others are behind, and no
\* set of members is ahead of the others by more than its room.
WeightInv ==
    /\ weight \in [Member -> Int] /\ Total(weight, Member) = 0
    /\ \A S \in SUBSET Member : Total(weight, S) <= Room(S)

\* The members are finitely many, and their weights are positive.
LEMMA OfMembers ==
    ASSUME NEW S \in SUBSET Member
    PROVE  /\ IsFiniteSet(S) /\ Cardinality(S) \in Nat
           /\ \A m \in S : m \in Member /\ Weight[m] \in Nat
<1>1. Pool!IsFiniteSet(Member) /\ Weight \in [Member -> Nat \ {0}]
  BY BalancerConstants, Zenon DEF Pool!ServerPoolConstants
<1>2. IsFiniteSet(Member)
  BY <1>1, Zenon DEF Pool!IsFiniteSet, IsFiniteSet
<1>3. IsFiniteSet(S) /\ Cardinality(S) \in Nat
  BY <1>2, FS_Subset, FS_CardinalityType, Zenon
<1> QED BY <1>1, <1>3, Zenon

\* No member weighs more than the widest.
LEMMA WidestIs == Widest \in Nat /\ \A m \in Member : Weight[m] <= Widest
<1> DEFINE G == {s \in SUBSET Member : s = {} \/ \E x \in s : \A y \in s : Weight[y] <= Weight[x]}
<1>1. ASSUME NEW s \in SUBSET Member, \A t \in SUBSET s : t # s => t \in G PROVE s \in G
  <2> SUFFICES ASSUME s # {} PROVE \E x \in s : \A y \in s : Weight[y] <= Weight[x]
    BY Zenon
  <2> DEFINE f == First(s)
             r == s \ {f}
  <2>1. f \in s /\ r \in SUBSET s /\ r # s
    BY FirstIn, Zenon
  <2>2. r \in G
    BY <1>1, <2>1, Zenon
  <2>3. \A m \in s : Weight[m] \in Nat
    BY OfMembers, Zenon
  <2> HIDE DEF f
  <2>4. CASE r = {}
    <3>1. \A y \in s : y = f
      BY <2>4, Zenon
    <3>2. Weight[f] <= Weight[f]
      BY <2>1, <2>3, SMTT(30)
    <3> QED BY <2>1, <3>1, <3>2, Zenon
  <2>5. ASSUME NEW x \in r, \A y \in r : Weight[y] <= Weight[x]
        PROVE  \E z \in s : \A y \in s : Weight[y] <= Weight[z]
    <3>1. \A y \in s : y = f \/ y \in r
      BY Zenon
    <3>2. x \in s
      BY Zenon
    <3> HIDE DEF r
    <3>3. CASE Weight[f] <= Weight[x]
      BY <2>5, <3>1, <3>2, <3>3, Zenon
    <3>4. CASE ~(Weight[f] <= Weight[x])
      <4>1. ASSUME NEW y \in s PROVE Weight[y] <= Weight[f]
        <5>1. Weight[y] \in Nat /\ Weight[f] \in Nat /\ Weight[x] \in Nat
          BY <2>1, <2>3, <3>2, Zenon
        <5>2. y = f \/ Weight[y] <= Weight[x]
          BY <2>5, <3>1, Zenon
        <5> QED BY <3>4, <5>1, <5>2, SMTT(30)
      <4> QED BY <2>1, <4>1, Zenon
    <3> QED BY <3>3, <3>4, Zenon
  <2> QED BY <2>2, <2>4, <2>5, Zenon
<1>2. Member \in G
  <2>1. IsFiniteSet(Member)
    BY OfMembers, Zenon
  <2> HIDE DEF G
  <2> QED BY <1>1, <2>1, SubsetInduction, Zenon
<1>3. PICK x \in Member : \A y \in Member : Weight[y] <= Weight[x]
  <2>1. Member # {}
    BY BalancerConstants, Zenon DEF Pool!ServerPoolConstants
  <2> QED BY <1>2, <2>1, Zenon
<1> DEFINE W == {Weight[m] : m \in Member}
<1>4. \A m \in Member : Weight[m] \in Nat
  BY OfMembers, Zenon
<1>5. Weight[x] \in W /\ \A v \in W : Weight[x] >= v
  <2>1. \A y \in Member : Weight[x] >= Weight[y]
    BY <1>3, <1>4, SMTT(30)
  <2> QED BY <2>1, Zenon
<1>6. Widest \in W /\ \A v \in W : Widest >= v
  BY <1>5, Zenon DEF Widest, Pool!Max
<1>7. Widest \in Nat
  BY <1>4, <1>6, Zenon
<1>8. \A m \in Member : Widest >= Weight[m]
  BY <1>6, Zenon
<1> HIDE DEF W
<1> QED BY <1>4, <1>7, <1>8, SMTT(30)

\* The arithmetic of a step.  A set that the selected member is not in has k of
\* n members, a of them eligible, and ends with x; without those it had r, and
\* together with the selected member, who had f, it had s.
LEMMA Advance ==
    ASSUME NEW W \in Nat, NEW n \in Nat, NEW k \in Nat, NEW a \in Nat,
           NEW x \in Int, NEW r \in Int, NEW s \in Int, NEW f \in Int,
           NEW u \in Int, NEW v \in Int,
           r <= W * ((k - a) * (n - (k - a))), s <= W * ((k + 1) * (n - (k + 1))),
           u <= a * W, v <= W,
           x <= r + a * (f + v), s = x - u + f
    PROVE  x <= W * (k * (n - k))
<1> DEFINE R == W * ((k - a) * (n - (k - a)))
           S == W * ((k + 1) * (n - (k + 1)))
           Y == W * (k * (n - k))
<1>1. R \in Int /\ S \in Int /\ Y \in Int
  BY SMTT(30)
<1>2. R + a * S + a * (a * W) + a * W = (1 + a) * Y
  BY SMTT(30)
<1>3. ASSUME NEW p \in Int, NEW q \in Int, p <= q PROVE a * p <= a * q
  BY <1>3, SMTT(30)
<1>4. a * s <= a * S /\ a * u <= a * (a * W) /\ a * v <= a * W
  <2>1. a * W \in Int /\ W \in Int
    BY SMTT(30)
  <2>2. s <= S
    BY Zenon
  <2> HIDE DEF S
  <2> QED BY <1>1, <1>3, <2>1, <2>2, Zenon
<1>5. f + v = s - x + u + v
  BY SMTT(30)
<1>6. a * (f + v) = a * s - a * x + a * u + a * v
  BY <1>5, SMTT(30)
<1> HIDE DEF R, S, Y
<1>7. (1 + a) * x <= R + a * s + a * u + a * v
  <2>1. a * s \in Int /\ a * x \in Int /\ a * u \in Int /\ a * v \in Int
    BY SMTT(30)
  <2>2. (1 + a) * x = x + a * x
    BY SMTT(30)
  <2>3. r <= R
    BY DEF R
  <2> QED BY <1>1, <1>6, <2>1, <2>2, <2>3, SMTT(30)
<1>8. (1 + a) * x <= (1 + a) * Y
  <2>1. /\ a * s \in Int /\ a * S \in Int /\ a * u \in Int /\ a * v \in Int
        /\ a * (a * W) \in Int /\ a * W \in Int
        /\ (1 + a) * x \in Int /\ (1 + a) * Y \in Int
    BY <1>1, SMTT(30)
  <2> QED BY <1>1, <1>2, <1>4, <1>7, <2>1, SMTT(30)
<1>9. ASSUME ~(x <= Y) PROVE FALSE
  <2>1. x >= Y + 1
    BY <1>1, <1>9, SMTT(30)
  <2>2. (1 + a) * (x - Y) >= 1
    BY <1>1, <2>1, SMTT(30)
  <2>3. (1 + a) * (x - Y) = (1 + a) * x - (1 + a) * Y
    BY <1>1, SMTT(30)
  <2>4. (1 + a) * x \in Int /\ (1 + a) * Y \in Int
    BY <1>1, SMTT(30)
  <2> QED BY <1>8, <2>2, <2>3, <2>4, SMTT(30)
<1> QED BY <1>9, Zenon DEF Y

\* The weights once those of the eligible members E were added.
Raised(E) == [n \in Member |-> IF n \in E THEN weight[n] + Weight[n] ELSE weight[n]]

\* What a set gains are the weights of its eligible members.
LEMMA RaisedTotal ==
    ASSUME weight \in [Member -> Int], NEW E \in SUBSET Member, NEW S \in SUBSET Member
    PROVE  /\ Raised(E) \in [Member -> Int]
           /\ Total(Raised(E), S) = Total(weight, S \ E) + Total(Raised(E), S \cap E)
           /\ Total(weight, S) = Total(weight, S \ E) + Total(weight, S \cap E)
           /\ Total(Raised(E), S \cap E) = Total(weight, S \cap E) + Total(Weight, S \cap E)
<1> DEFINE h == Raised(E)
           A == S \cap E
           B == S \ E
<1>0. /\ \A m \in Member : weight[m] \in Int
      /\ \A m \in Member : Weight[m] \in Int
      /\ \A m \in Member : weight[m] + Weight[m] \in Int
  <2>1. \A m \in Member : Weight[m] \in Nat
    BY OfMembers, Zenon
  <2> QED BY <2>1, SMTT(30)
<1>1. Raised(E) \in [Member -> Int]
  BY <1>0, Zenon DEF Raised
<1>2. /\ Added(h, weight, Weight, A)
      /\ \A u \in B : h[u] = weight[u]
  BY Zenon DEF Added, Raised
<1>3. A \in SUBSET Member /\ B \in SUBSET Member /\ A \cap B = {} /\ B \cap A = {} /\ B \cup A = S
  BY Zenon
<1> HIDE DEF h, A, B
<1>4. IsFiniteSet(A) /\ IsFiniteSet(B)
  BY <1>3, OfMembers, Zenon
<1>5. /\ Integral(weight, A) /\ Integral(weight, B) /\ Integral(Weight, A)
      /\ Integral(h, A) /\ Integral(h, B)
  BY <1>0, <1>1, <1>3, Zenon DEF Integral, h
<1>6. Total(h, A) = Total(weight, A) + Total(Weight, A)
  BY <1>2, <1>4, <1>5, TotalAdded, SMTT(30)
<1>7. Total(h, B) = Total(weight, B)
  BY <1>2, <1>4, TotalSame, Zenon
<1>8. Total(h, B \cup A) = Total(h, B) + Total(h, A)
  BY <1>3, <1>4, <1>5, TotalUnion, SMTT(30)
<1>9. Total(weight, B \cup A) = Total(weight, B) + Total(weight, A)
  BY <1>3, <1>4, <1>5, TotalUnion, SMTT(30)
<1> QED BY <1>1, <1>3, <1>6, <1>7, <1>8, <1>9, Zenon DEF h, A, B

\* The selected member p pays for all.
Paid(v, E, p) == v = [Raised(E) EXCEPT ![p] = @ - Total(Weight, E)]

\* What a set has afterwards depends on whether p is in it.
LEMMA PaidTotal ==
    ASSUME weight \in [Member -> Int], NEW E \in SUBSET Member, NEW p \in E, NEW v, Paid(v, E, p),
           NEW S \in SUBSET Member
    PROVE  /\ v \in [Member -> Int]
           /\ p \notin S => Total(v, S) = Total(Raised(E), S)
           /\ p \in S => Total(v, S) = Total(Raised(E), S) - Total(Weight, E)
<1> DEFINE h == Raised(E)
           c == Total(Weight, E)
           r == S \ {p}
<1>1. h \in [Member -> Int]
  BY RaisedTotal, Zenon
<1>2. c \in Int
  <2>1. \A m \in E : Weight[m] \in Int
    <3>1. \A m \in E : Weight[m] \in Nat
      BY OfMembers, Zenon
    <3> QED BY <3>1, SMTT(30)
  <2> QED BY <2>1, OfMembers, TotalInt, Zenon DEF Integral
<1>3. IsFiniteSet(S) /\ IsFiniteSet(r)
  <2>1. r \in SUBSET Member
    BY Zenon
  <2> HIDE DEF r
  <2> QED BY <2>1, OfMembers, Zenon
<1> HIDE DEF h, c
<1>4. v = [h EXCEPT ![p] = @ - c]
  BY Zenon DEF Paid, h, c
<1>5. /\ v \in [Member -> Int] /\ v[p] = h[p] - c /\ h[p] \in Int
      /\ \A m \in Member : m # p => v[m] = h[m]
  <2>1. p \in Member
    BY Zenon
  <2>2. h[p] \in Int
    BY <1>1, <2>1, Zenon
  <2>3. h[p] - c \in Int
    BY <1>2, <2>2, SMTT(30)
  <2> QED BY <1>1, <1>4, <2>1, <2>2, <2>3, Zenon
<1>6. ASSUME p \notin S PROVE Total(v, S) = Total(h, S)
  <2>1. \A m \in S : v[m] = h[m]
    BY <1>5, <1>6, Zenon
  <2> QED BY <1>3, <2>1, TotalSame, Zenon
<1>7. ASSUME p \in S PROVE Total(v, S) = Total(h, S) - c
  <2>1. \A m \in r : v[m] = h[m]
    BY <1>5, Zenon
  <2>2. Integral(v, S) /\ Integral(h, S) /\ Integral(h, r)
    BY <1>1, <1>5, Zenon DEF Integral
  <2>3. Total(v, S) = v[p] + Total(v, r)
    BY <1>3, <1>7, <2>2, TotalRemove, SMTT(30)
  <2>4. Total(h, S) = h[p] + Total(h, r)
    BY <1>3, <1>7, <2>2, TotalRemove, SMTT(30)
  <2> HIDE DEF r
  <2>5. Total(v, r) = Total(h, r)
    BY <1>3, <2>1, TotalSame, Zenon
  <2>6. Total(h, r) \in Int
    BY <1>3, <2>2, TotalInt, Zenon
  <2> QED BY <1>2, <1>5, <2>3, <2>4, <2>5, <2>6, SMTT(30)
<1> QED BY <1>5, <1>6, <1>7, Zenon DEF h, c

\* The total over a set of members is an integer.
LEMMA MembersTotal ==
    ASSUME NEW w \in [Member -> Int], NEW S \in SUBSET Member
    PROVE  Integral(w, S) /\ Total(w, S) \in Int
<1>1. Integral(w, S)
  BY Zenon DEF Integral
<1> QED BY <1>1, OfMembers, TotalInt, Zenon

\* A selection keeps the invariant: it adds the weights of the eligible members E
\* and p, which then has the most, pays for them.
LEMMA PaidKeeps ==
    ASSUME WeightInv, NEW E \in SUBSET Member, NEW p \in E, NEW v, Paid(v, E, p),
           \A m \in E : Raised(E)[m] <= Raised(E)[p]
    PROVE  /\ v \in [Member -> Int] /\ Total(v, Member) = 0
           /\ \A S \in SUBSET Member : Total(v, S) <= Room(S)
<1> DEFINE h == Raised(E)
           F(S) == Total(weight, S)
           g(S) == Total(Weight, S)
           n == Cardinality(Member)
<1>0. /\ weight \in [Member -> Int] /\ F(Member) = 0
      /\ \A S \in SUBSET Member : F(S) <= Room(S)
  BY Zenon DEF WeightInv
<1>1. v \in [Member -> Int] /\ h \in [Member -> Int] /\ Weight \in [Member -> Int]
  <2>1. Weight \in [Member -> Int]
    <3>1. Weight \in [Member -> Nat \ {0}]
      BY BalancerConstants, Zenon DEF Pool!ServerPoolConstants
    <3> QED BY <3>1, SMTT(30)
  <2> QED BY <1>0, <2>1, RaisedTotal, PaidTotal, Zenon
<1>2. n \in Nat /\ Widest \in Nat
  BY OfMembers, WidestIs, Zenon
<1>3. ASSUME NEW S \in SUBSET Member
      PROVE  /\ F(S) \in Int /\ g(S) \in Int /\ Total(h, S) \in Int
             /\ Integral(h, S) /\ Integral(Weight, S)
  BY <1>0, <1>1, <1>3, MembersTotal, Zenon
<1>4. ASSUME NEW S \in SUBSET Member, p \in S
      PROVE  /\ Total(v, S) = F(S) - g(E \ S)
             /\ g(E \ S) \in Nat
  <2> DEFINE A == S \cap E
             R == E \ S
  <2>1. A \in SUBSET Member /\ R \in SUBSET Member /\ A \cap R = {} /\ A \cup R = E
    BY Zenon
  <2>2. Total(v, S) = Total(h, S) - g(E)
    BY <1>0, <1>4, PaidTotal, SMTT(30)
  <2>3. /\ Total(h, S) = F(S \ E) + Total(h, A) /\ F(S) = F(S \ E) + F(A)
        /\ Total(h, A) = F(A) + g(A)
    BY <1>0, RaisedTotal, Zenon
  <2>4. F(S \ E) \in Int
    <3>1. S \ E \in SUBSET Member
      BY Zenon
    <3> HIDE DEF F
    <3> QED BY <1>3, <3>1, Zenon
  <2> HIDE DEF A, R
  <2>5. g(R) \in Nat
    <3>1. Counts(Weight, R)
      BY <2>1, OfMembers, Zenon DEF Counts
    <3> QED BY <2>1, <3>1, OfMembers, TotalNat, Zenon
  <2>6. F(A) \in Int /\ g(A) \in Int /\ Total(h, A) \in Int /\ Integral(Weight, A) /\ Integral(Weight, R)
    BY <1>3, <2>1, Zenon
  <2>7. g(A \cup R) = g(A) + g(R)
    BY <2>1, <2>6, OfMembers, TotalUnion, SMTT(30)
  <2>8. g(E) = g(A) + g(R)
    BY <2>1, <2>7, Zenon
  <2> HIDE DEF F, g, h
  <2>9. Total(v, S) = F(S) - g(R)
    BY <2>2, <2>3, <2>4, <2>5, <2>6, <2>8, SMTT(30)
  <2> QED BY <2>5, <2>9, Zenon DEF R
<1>5. Total(v, Member) = 0
  <2>1. E \ Member = {} /\ Member \in SUBSET Member /\ p \in Member
    BY Zenon
  <2>2. g({}) = 0
    BY FS_EmptySet, TotalUnfolds, Zenon
  <2>3. Total(v, Member) = F(Member) - g({})
    BY <1>4, <2>1, Zenon
  <2> HIDE DEF F, g
  <2> QED BY <1>0, <2>2, <2>3, SMTT(30)
<1>6. ASSUME NEW S \in SUBSET Member, p \in S PROVE Total(v, S) <= Room(S)
  <2>1. Room(S) \in Int
    <3>1. Cardinality(S) \in Nat
      BY OfMembers, Zenon
    <3> QED BY <1>2, <3>1, SMTT(30) DEF Room
  <2>2. F(S) \in Int /\ F(S) <= Room(S) /\ Total(v, S) = F(S) - g(E \ S) /\ g(E \ S) \in Nat
    BY <1>0, <1>3, <1>4, <1>6, Zenon
  <2> HIDE DEF F, g
  <2> QED BY <2>1, <2>2, SMTT(30)
<1>7. ASSUME NEW S \in SUBSET Member, p \notin S PROVE Total(v, S) <= Room(S)
  <2> DEFINE A == S \cap E
             B == S \ E
             C == S \cup {p}
             k == Cardinality(S)
             a == Cardinality(A)
  <2>1. /\ A \in SUBSET Member /\ B \in SUBSET Member /\ C \in SUBSET Member
        /\ A \in SUBSET E /\ p \in Member
    BY Zenon
  <2>2. k \in Nat /\ a \in Nat /\ Cardinality(B) = k - a /\ Cardinality(C) = k + 1
    BY <1>7, <2>1, OfMembers, FS_Difference, FS_AddElement, Zenon
  <2>3. /\ Total(v, S) = Total(h, S) /\ Total(h, S) = F(B) + Total(h, A)
        /\ F(S) = F(B) + F(A) /\ Total(h, A) = F(A) + g(A)
    <3>1. Total(v, S) = Total(h, S)
      BY <1>0, <1>7, PaidTotal, SMTT(30)
    <3> QED BY <1>0, <3>1, RaisedTotal, Zenon
  <2>4. F(C) = weight[p] + F(S)
    <3>1. C \ {p} = S /\ p \in C
      BY <1>7, Zenon
    <3>2. IsFiniteSet(C) /\ Integral(weight, C)
      BY <1>0, <2>1, OfMembers, Zenon DEF Integral
    <3> HIDE DEF C
    <3> QED BY <3>1, <3>2, TotalRemove, SMTT(30)
  <2>5. h[p] = weight[p] + Weight[p] /\ weight[p] \in Int /\ Weight[p] \in Int
    BY <1>0, <1>1, <2>1, Zenon DEF Raised
  <2>6. F(B) <= Room(B) /\ F(C) <= Room(C)
    BY <1>0, <2>1, Zenon
  <2> HIDE DEF A, B, C
  <2>7. F(A) \in Int /\ F(B) \in Int /\ F(C) \in Int /\ F(S) \in Int /\ g(A) \in Int /\ Total(h, A) \in Int
    BY <1>3, <2>1, Zenon
  <2>8. Total(h, A) <= a * h[p]
    <3>1. AtMost(h, A, h[p]) /\ h[p] \in Int /\ IsFiniteSet(A)
      BY <1>1, <2>1, OfMembers, Zenon DEF AtMost
    <3> HIDE DEF h
    <3> QED BY <3>1, TotalAtMost, SMTT(30)
  <2>9. g(A) <= a * Widest
    <3>1. AtMost(Weight, A, Widest) /\ IsFiniteSet(A)
      BY <1>1, <2>1, OfMembers, WidestIs, Zenon DEF AtMost
    <3>2. Widest \in Int
      BY <1>2, SMTT(30)
    <3> QED BY <3>1, <3>2, TotalAtMost, SMTT(30)
  <2>10. Weight[p] <= Widest
    BY <2>1, WidestIs, Zenon
  <2>11. /\ F(B) <= Widest * ((k - a) * (n - (k - a)))
         /\ F(C) <= Widest * ((k + 1) * (n - (k + 1)))
    BY <2>2, <2>6, Zenon DEF Room
  <2> HIDE DEF F, g, h, k, a, n
  <2>12. /\ Total(v, S) \in Int
         /\ Total(v, S) <= F(B) + a * (weight[p] + Weight[p])
         /\ F(C) = Total(v, S) - g(A) + weight[p]
    <3>1. Total(h, A) <= a * (weight[p] + Weight[p])
      BY <2>5, <2>8, Zenon
    <3>2. a * (weight[p] + Weight[p]) \in Int
      BY <2>2, <2>5, SMTT(30)
    <3> QED BY <2>3, <2>4, <2>5, <2>7, <3>1, <3>2, SMTT(30)
  <2>13. Total(v, S) <= Widest * (k * (n - k))
    BY <1>2, <2>2, <2>5, <2>7, <2>9, <2>10, <2>11, <2>12, Advance, SMTT(30)
  <2> QED BY <2>13, Zenon DEF Room, k, n
<1> QED BY <1>1, <1>5, <1>6, <1>7, Zenon

\* Only a selection by weighted round robin changes the weights.
LEMMA WeightsPreserved ==
    ASSUME PoolInv, WeightInv, [Pool!Next]_Pool!vars
    PROVE  WeightInv'
<1>1. ASSUME UNCHANGED weight PROVE WeightInv'
  BY <1>1, Zenon DEF WeightInv
<1>2. ASSUME NEW E \in SUBSET Member, NEW p \in E, Pool!WeightedRoundRobin(E, p) PROVE WeightInv'
  <2>1. Paid(weight', E, p)
    BY <1>2, Zenon DEF Pool!WeightedRoundRobin, Pool!Total, Paid, Raised, Total
  <2>2. \A m \in E : \/ Raised(E)[m] < Raised(E)[p]
                      \/ Raised(E)[m] = Raised(E)[p]
    BY <1>2, Zenon DEF Pool!WeightedRoundRobin, Raised
  <2>3. ASSUME NEW m \in E PROVE Raised(E)[m] <= Raised(E)[p]
    <3>1. Raised(E) \in [Member -> Int]
      BY RaisedTotal, Zenon DEF WeightInv
    <3>2. Raised(E)[m] \in Int /\ Raised(E)[p] \in Int
      BY <3>1, Zenon
    <3> QED BY <2>2, <3>2, SMTT(30)
  <2> QED BY <2>1, <2>3, PaidKeeps, Zenon DEF WeightInv, Room
<1>3. ASSUME NEW E \in SUBSET Member, NEW p \in E, Pool!Choose(E, p) PROVE WeightInv'
  BY <1>1, <1>2, <1>3, Zenon DEF Pool!Choose, Pool!RoundRobin, Pool!LeastConnections,
     Pool!PrimaryBackup, Pool!Anywhere, Pool!balance
<1>4. ASSUME NEW r \in Request, Pool!Send(r) \/ Pool!CloneFails(r) PROVE WeightInv'
  <2>1. InScan(req[r])
    BY <1>4, Zenon DEF PoolInv, Orderly, Pool!Send, Pool!CloneFails, Pool!Scanned
  <2>2. Pool!Eligible(req[r]) \in SUBSET Member
    BY <2>1, EligibleOnes, Zenon DEF InScan
  <2>3. \E p \in Pool!Eligible(req[r]) : Pool!Choose(Pool!Eligible(req[r]), p)
    BY <1>4, Zenon DEF Pool!Send, Pool!CloneFails
  <2> QED BY <1>3, <2>2, <2>3, Zenon
<1>5. ASSUME NEW r \in Request, NEW kind,
             Pool!Load(r) \/ Pool!NoMember(r) \/ Pool!Answer(r) \/ Pool!Fail(r) \/ Pool!Arrive(r, kind)
      PROVE  WeightInv'
  BY <1>1, <1>5, Zenon DEF Pool!Load, Pool!NoMember, Pool!Answer, Pool!Fail, Pool!Arrive, Pool!balance
<1>6. ASSUME NEW m \in Member, Pool!SetHealth(m) PROVE WeightInv'
  BY <1>1, <1>6, Zenon DEF Pool!SetHealth, Pool!balance
<1>7. CASE UNCHANGED Pool!vars
  BY <1>1, <1>7, Zenon DEF Pool!vars
<1> QED BY <1>4, <1>5, <1>6, <1>7, Zenon DEF Pool!Next, Pool!Serve

\* Nobody is ahead at the start.
LEMMA WeightsEven == Pool!Init => WeightInv
<1> SUFFICES ASSUME Pool!Init PROVE WeightInv
  BY Zenon
<1>1. weight \in [Member -> Int] /\ \A m \in Member : weight[m] = 0
  <2>1. 0 \in Int /\ weight = [m \in Member |-> 0]
    BY SMTT(30) DEF Pool!Init
  <2> QED BY <2>1, Zenon
<1>2. ASSUME NEW S \in SUBSET Member PROVE Total(weight, S) = 0
  BY <1>1, OfMembers, TotalZero, Zenon
<1>3. ASSUME NEW S \in SUBSET Member PROVE Total(weight, S) <= Room(S)
  <2>1. Cardinality(S) <= Cardinality(Member) /\ Cardinality(S) \in Nat /\ Cardinality(Member) \in Nat
    BY OfMembers, FS_Subset, Zenon
  <2>2. Cardinality(S) * (Cardinality(Member) - Cardinality(S)) \in Nat
    BY <2>1, SMTT(30)
  <2>3. Room(S) \in Nat
    BY <2>2, WidestIs, SMTT(30) DEF Room
  <2> QED BY <1>2, <2>3, SMTT(30)
<1> QED BY <1>1, <1>2, <1>3, Zenon DEF WeightInv

\* One member is no further ahead than its room, and no further behind than the
\* others are ahead.
LEMMA NoneDrifts == WeightInv => WeightsBalanced
<1> DEFINE n == Cardinality(Member)
           d == (n - 1) * Widest
<1> SUFFICES ASSUME WeightInv PROVE WeightsBalanced
  BY Zenon
<1>1. n \in Nat /\ Widest \in Nat /\ d \in Int
  <2>1. n \in Nat /\ Widest \in Nat
    BY OfMembers, WidestIs, Zenon
  <2> QED BY <2>1, SMTT(30)
<1>2. ASSUME NEW m \in Member PROVE weight[m] \in -d .. d
  <2> DEFINE R == Member \ {m}
  <2>1. /\ {m} \in SUBSET Member /\ R \in SUBSET Member /\ weight[m] \in Int
        /\ Integral(weight, Member) /\ IsFiniteSet(Member)
    BY OfMembers, Zenon DEF WeightInv, Integral
  <2>2. Cardinality({m}) = 1 /\ Cardinality(R) = n - 1
    BY <2>1, FS_Singleton, FS_RemoveElement, Zenon
  <2>3. Total(weight, Member) = weight[m] + Total(weight, R)
    BY <2>1, TotalRemove, SMTT(30)
  <2>4. Total(weight, {m}) = weight[m]
    <3>1. Total(weight, {m}) = weight[m] + Total(weight, {m} \ {m})
      BY <2>1, OfMembers, TotalRemove, SMTT(30) DEF Integral
    <3>2. {m} \ {m} = {}
      BY Zenon
    <3>3. Total(weight, {}) = 0
      BY FS_EmptySet, TotalUnfolds, Zenon
    <3> QED BY <2>1, <3>1, <3>2, <3>3, SMTT(30)
  <2>5. Total(weight, {m}) <= Room({m}) /\ Total(weight, R) <= Room(R)
    BY <2>1, Zenon DEF WeightInv
  <2>6. Room({m}) = d /\ Room(R) = d
    <3>1. /\ Room({m}) = Widest * (1 * (n - 1))
          /\ Room(R) = Widest * ((n - 1) * (n - (n - 1)))
      BY <2>2, Zenon DEF Room
    <3> HIDE DEF n
    <3> QED BY <1>1, <3>1, SMTT(30)
  <2>7. Total(weight, Member) = 0
    BY Zenon DEF WeightInv
  <2>8. Total(weight, R) \in Int
    BY <2>1, MembersTotal, Zenon DEF WeightInv
  <2> HIDE DEF d, R
  <2> QED BY <1>1, <2>1, <2>3, <2>4, <2>5, <2>6, <2>7, <2>8, SMTT(30)
<1>3. Pool!Cardinality(Member) = n
  BY SameCardinality, Zenon
<1>4. Pool!MapThenSumSet(LAMBDA m : weight[m], Member) = 0
  BY Zenon DEF WeightInv, Total
<1> QED BY <1>2, <1>3, <1>4, Zenon DEF WeightsBalanced, Pool!WeightsBalanced, Widest

\* Weighted round robin stays in balance (weightedRoundRobin): whichever members
\* are eligible from one request to the next, the running weights add up to 0 and
\* none leaves the range of the greatest weight times the number of the others.
THEOREM WeightsStayBalanced == Pool!Spec => []WeightsBalanced
<1>1. PoolInv /\ WeightInv /\ [Pool!Next]_Pool!vars => WeightInv'
  BY WeightsPreserved, Zenon
<1> QED BY <1>1, WeightsEven, NoneDrifts, AlwaysPoolInv, PTL DEF Pool!Spec

=============================================================================
