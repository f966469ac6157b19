------------------------ MODULE LoginThrottleProofs ------------------------
(***************************************************************************)
(* For any number of keys and concurrent attempts: the table of failures   *)
(* stays bounded, fewer than 2 * MaxFailures passwords are tried in vain   *)
(* within a window's length, and whoever gets in has failed less often.    *)
(*                                                                         *)
(* The table is only cut down when an attempt begins, and TableBounded is  *)
(* not inductive: an attempt past that point may still add an entry.  The  *)
(* invariant charges it for the entry beforehand (Charged).                *)
(*                                                                         *)
(* The others speak of sums, of which the table keeps only the count of    *)
(* the current counting window.  The invariant says what an entry knows of *)
(* the failures behind it (Knows): its count is their sum since the window *)
(* began, less than MaxFailures came shortly before, and what did come was *)
(* counted in a window that began still earlier (Chained).  The sums are   *)
(* folds; what they add up to is proved by induction over the subsets  *)
(* of a finite set, as the impossibility of a smallest counterexample.     *)
(***************************************************************************)
EXTENDS LoginThrottle, FiniteSetTheorems, WellFoundedInduction, TLAPS

\* The states of an attempt.
Attempts == [at : {"idle", "arrived", "verify", "accepted"}, key : Key \cup {None}, time : Time]

\* The attempts that may still add an entry.
Verifying == {a \in Attempt : attempt[a].at = "verify"}

\* The table, with the entries that may still come.
Charged ==
    Cardinality(Entries(failures)) + Cardinality(Verifying) <= MaxKeys + Cardinality(Attempt)

\* The inductive invariant.
Inv ==
    /\ now \in Time /\ attempt \in [Attempt -> Attempts]
    /\ DOMAIN failures = Key
    /\ Charged

-----------------------------------------------------------------------------
\* The sets that are counted are finite.
LEMMA Finite ==
    /\ IsFiniteSet(Verifying) /\ Cardinality(Verifying) \in Nat
    /\ Cardinality(Verifying) <= Cardinality(Attempt) /\ Cardinality(Attempt) \in Nat
    /\ \A t : IsFiniteSet(Entries(t)) /\ Cardinality(Entries(t)) \in Nat
<1>1. IsFiniteSet(Verifying) /\ Cardinality(Verifying) <= Cardinality(Attempt)
  BY LoginThrottleConstants, FS_Subset, Zenon DEF Verifying
<1>2. \A t : IsFiniteSet(Entries(t))
  BY LoginThrottleConstants, FS_Subset, Zenon DEF Entries
<1> QED BY <1>1, <1>2, LoginThrottleConstants, FS_CardinalityType, Zenon

\* What pruneFailuresLocked leaves fits into the table, whichever keys go.
LEMMA PrunedFits ==
    ASSUME NEW t, NEW dropped \in Pruned(t)
    PROVE  Cardinality(Entries(failures) \ dropped) <= MaxKeys
<1> DEFINE all == Entries(failures)
           left == all \ Expired(t)
           n == Cardinality(left)
           excess == IF n > MaxKeys THEN n - MaxKeys ELSE 0
<1>0. /\ IsFiniteSet(all) /\ Cardinality(all) \in Nat
      /\ MaxKeys \in Nat /\ PruneAt \in Nat /\ PruneAt <= MaxKeys
  BY Finite, LoginThrottleConstants, Zenon
<1>1. CASE Cardinality(all) < PruneAt
  <2>1. all \ dropped = all
    BY <1>1, Zenon DEF Pruned
  <2> QED BY <1>0, <1>1, <2>1
<1>2. CASE ~(Cardinality(all) < PruneAt)
  <2>1. PICK e \in kSubset(excess, left) : dropped = Expired(t) \cup e
    BY <1>2, Zenon DEF Pruned
  <2>2. e \subseteq left /\ Cardinality(e) = excess
    BY <2>1, Zenon DEF kSubset
  <2>3. IsFiniteSet(left) /\ n \in Nat
    BY <1>0, FS_Subset, FS_CardinalityType, Zenon
  <2>4. IsFiniteSet(e) /\ IsFiniteSet(left \ e) /\ Cardinality(left \ e) \in Nat
    BY <2>2, <2>3, FS_Subset, FS_CardinalityType, Zenon
  <2>5. Cardinality(e \cup (left \ e)) = Cardinality(e) + Cardinality(left \ e) - Cardinality(e \cap (left \ e))
    BY <2>4, FS_Union, Zenon
  <2>6. e \cup (left \ e) = left /\ e \cap (left \ e) = {}
    BY <2>2, Zenon
  <2>7. n = Cardinality(e) + Cardinality(left \ e) - 0
    BY <2>5, <2>6, FS_EmptySet, Zenon
  <2>8. Entries(failures) \ dropped = left \ e
    BY <2>1, Zenon
  <2>9. Cardinality(e) = IF n > MaxKeys THEN n - MaxKeys ELSE 0
    BY <2>2, Zenon
  <2> HIDE DEF n, left
  <2>10. Cardinality(left \ e) <= MaxKeys
    BY <1>0, <2>3, <2>4, <2>7, <2>9
  <2> QED BY <2>8, <2>10, Zenon
<1> QED BY <1>1, <1>2, Zenon

\* An attempt that ends leaves the set of those that verify.
LEMMA Leaves ==
    ASSUME Inv, NEW a \in Attempt, attempt[a].at = "verify", NEW s \in Attempts,
           Become(a, s), s.at # "verify"
    PROVE  /\ attempt' \in [Attempt -> Attempts]
           /\ Cardinality(Verifying') = Cardinality(Verifying) - 1
<1>1. attempt' \in [Attempt -> Attempts]
  BY Zenon DEF Inv, Become
<1>2. Verifying' = Verifying \ {a} /\ a \in Verifying
  BY Zenon DEF Inv, Become, Verifying
<1> QED BY <1>1, <1>2, Finite, FS_RemoveElement, Zenon

\* The stages an attempt can go to.
LEMMA Stages ==
    ASSUME Inv, NEW a \in Attempt
    PROVE  /\ Idle \in Attempts /\ Idle.at = "idle"
           /\ \A at \in {"verify", "accepted"} :
                 /\ [attempt[a] EXCEPT !.at = at] \in Attempts
                 /\ [attempt[a] EXCEPT !.at = at].at = at
<1>1. attempt[a] \in Attempts /\ 0 \in Time
  BY LoginThrottleConstants DEF Inv, Time
<1> QED BY <1>1, Zenon DEF Attempts, Idle

\* Fewer entries: whatever loses none of the others.
LEMMA Fewer ==
    ASSUME NEW t, NEW u, Entries(t) \subseteq Entries(u)
    PROVE  Cardinality(Entries(t)) <= Cardinality(Entries(u))
BY Finite, FS_Subset, Zenon

\* Every step keeps the invariant.
LEMMA NextInv == Inv /\ [Next]_vars => Inv'
<1> SUFFICES ASSUME Inv, [Next]_vars PROVE Inv'
  BY Zenon
<1>0. MaxKeys \in Nat /\ MaxTime \in Nat
  BY LoginThrottleConstants, Zenon
<1>1. CASE Tick
  <2>1. now' \in Time /\ Verifying' = Verifying
    BY <1>0, <1>1 DEF Tick, Inv, Time, Verifying
  <2> QED BY <1>1, <2>1, Zenon DEF Tick, Inv, Charged
<1>2. ASSUME NEW a \in Attempt, NEW k \in Key, Arrive(a, k) PROVE Inv'
  <2>1. attempt' \in [Attempt -> Attempts]
    BY <1>2, Zenon DEF Arrive, Become, Inv, Attempts
  <2>2. Verifying' = Verifying
    BY <1>2, Zenon DEF Arrive, Become, Inv, Verifying
  <2> QED BY <1>2, <2>1, <2>2, Zenon DEF Arrive, Inv, Charged
<1>3. ASSUME NEW a \in Attempt, Begin(a) PROVE Inv'
  <2>1. PICK dropped \in Pruned(attempt[a].time) :
           /\ failures' = [j \in Key |-> IF j \in dropped THEN None ELSE failures[j]]
           /\ Become(a, Idle) \/ Become(a, [attempt[a] EXCEPT !.at = "verify"])
    BY <1>3, Zenon DEF Begin
  <2>2. attempt' \in [Attempt -> Attempts] /\ now' = now
    BY <1>3, <2>1, Stages, ZenonT(30) DEF Begin, Become, Inv
  <2>3. Entries(failures') = Entries(failures) \ dropped
    BY <2>1, Zenon DEF Entries
  <2>4. Cardinality(Entries(failures')) <= MaxKeys
    BY <2>3, PrunedFits, Zenon
  <2>5. Cardinality(Verifying') <= Cardinality(Attempt) /\ Cardinality(Verifying') \in Nat
    <3>1. Verifying' \in SUBSET Attempt
      BY Zenon DEF Verifying
    <3> QED BY <3>1, LoginThrottleConstants, FS_Subset, FS_CardinalityType, Zenon
  <2>6. Charged'
    BY <1>0, <2>4, <2>5, Finite DEF Charged
  <2> QED BY <2>1, <2>2, <2>6, Zenon DEF Inv
<1>4. ASSUME NEW a \in Attempt, Accept(a) PROVE Inv'
  <2>1. PICK s \in Attempts : Become(a, s) /\ s.at # "verify" /\ attempt[a].at = "verify"
    BY <1>4, Stages, Zenon DEF Accept
  <2>2. DOMAIN failures' = Key /\ Entries(failures') \subseteq Entries(failures) /\ now' = now
    BY <1>4, Zenon DEF Accept, Entries, Inv
  <2>3. Charged'
    BY <1>0, <2>1, <2>2, Finite, Leaves, Fewer DEF Inv, Charged
  <2> QED BY <2>1, <2>2, <2>3, Leaves, Zenon DEF Inv
<1>5. ASSUME NEW a \in Attempt, Fail(a) PROVE Inv'
  <2> DEFINE k == attempt[a].key
  <2>1. Become(a, Idle) /\ Idle \in Attempts /\ Idle.at # "verify" /\ attempt[a].at = "verify"
    BY <1>5, Stages, Zenon DEF Fail
  <2>2. DOMAIN failures' = Key /\ Entries(failures') \subseteq Entries(failures) \cup {k} /\ now' = now
    BY <1>5, Zenon DEF Fail, Entries, Inv
  <2>3. /\ IsFiniteSet(Entries(failures) \cup {k})
        /\ Cardinality(Entries(failures) \cup {k}) <= Cardinality(Entries(failures)) + 1
    <3>1. IsFiniteSet(Entries(failures)) /\ Cardinality(Entries(failures)) \in Nat
      BY Finite, Zenon
    <3>2. /\ IsFiniteSet(Entries(failures) \cup {k})
          /\ Cardinality(Entries(failures) \cup {k})
                = IF k \in Entries(failures) THEN Cardinality(Entries(failures))
                  ELSE Cardinality(Entries(failures)) + 1
      BY <3>1, FS_AddElement, Zenon
    <3> QED BY <3>1, <3>2
  <2>4. Cardinality(Entries(failures')) <= Cardinality(Entries(failures) \cup {k})
    BY <2>2, <2>3, FS_Subset, Zenon
  <2>5. Cardinality(Entries(failures) \cup {k}) \in Nat
    BY <2>3, FS_CardinalityType, Zenon
  <2> HIDE DEF k
  <2>6. Charged'
    BY <1>0, <2>1, <2>3, <2>4, <2>5, Finite, Leaves DEF Inv, Charged
  <2> QED BY <2>1, <2>2, <2>6, Leaves, Zenon DEF Inv
<1>6. ASSUME NEW a \in Attempt, Refuse(a) PROVE Inv'
  <2>1. Become(a, Idle) /\ Idle \in Attempts /\ Idle.at # "verify" /\ attempt[a].at = "verify"
    BY <1>6, Stages, Zenon DEF Refuse
  <2>2. Charged'
    BY <1>0, <1>6, <2>1, Finite, Leaves DEF Refuse, Inv, Charged
  <2> QED BY <1>6, <2>1, <2>2, Leaves, Zenon DEF Refuse, Inv
<1>7. ASSUME NEW a \in Attempt, Answer(a) PROVE Inv'
  <2>1. attempt' \in [Attempt -> Attempts] /\ Verifying' = Verifying
    BY <1>7, Stages, Zenon DEF Answer, Become, Inv, Verifying
  <2> QED BY <1>7, <2>1, Zenon DEF Answer, Inv, Charged
<1>8. CASE UNCHANGED vars
  BY <1>8, Zenon DEF vars, Inv, Charged, Verifying
<1> QED BY <1>1, <1>2, <1>3, <1>4, <1>5, <1>6, <1>7, <1>8, Zenon DEF Next

\* The table is empty and nobody verifies at the start.
LEMMA InitInv == Init => Inv
<1> SUFFICES ASSUME Init PROVE Inv
  BY Zenon
<1>1. now \in Time /\ attempt \in [Attempt -> Attempts] /\ DOMAIN failures = Key
  BY LoginThrottleConstants DEF Init, Time, Idle, Attempts
<1>2. Entries(failures) = {} /\ Verifying = {}
  BY Zenon DEF Init, Entries, Verifying, Idle
<1> QED BY <1>1, <1>2, LoginThrottleConstants, Finite, FS_EmptySet DEF Inv, Charged

\* The invariant holds in every reachable state.
THEOREM AlwaysInv == Spec => []Inv
BY InitInv, NextInv, PTL DEF Spec

\* For any number of keys, attempts and table sizes, the table holds at most
\* MaxKeys entries and one for each attempt in progress (pruneFailuresLocked).
THEOREM TableStaysBounded == Spec => []TableBounded
<1>1. Inv => TableBounded
  BY LoginThrottleConstants, Finite DEF Inv, Charged, TableBounded
<1> QED BY <1>1, AlwaysInv, PTL

-----------------------------------------------------------------------------
(* Sums over finite sets.                                                   *)

\* The sum of w over S.
Total(w, S) == MapThenSumSet(LAMBDA u : w[u], S)

\* g maps every subset of S to its total.
Adds(g, w, S) ==
    g = [s \in SUBSET S |-> IF s = {} THEN 0
                            ELSE LET x == CHOOSE y \in s : TRUE IN w[x] + g[s \ {x}]]

\* Every set of naturals with a member has a least one.
LEMMA LeastNatural ==
    ASSUME NEW T, T \subseteq Nat, T # {}
    PROVE  \E x \in T : \A y \in T : x <= y
<1> DEFINE R == OpToRel(<, Nat)
<1>1. IsWellFoundedOn(R, Nat)
  BY NatLessThanWellFounded, Zenon
<1>2. \A x, y \in Nat : x < y => <<x, y>> \in R
  BY SMTT(30) DEF OpToRel
<1> HIDE DEF R
<1>3. PICK x \in T : \A y \in T : ~(<<y, x>> \in R)
  BY <1>1, WFMin, Zenon
<1>4. \A y \in T : ~(y < x)
  BY <1>2, <1>3, Zenon
<1>5. \A y \in T : x <= y
  BY <1>4, SMTT(30)
<1> QED BY <1>5, Zenon

\* Induction over the subsets of a finite set: what holds of a set whenever it
\* holds of its proper subsets holds of all.
LEMMA SubsetInduction ==
    ASSUME NEW S, IsFiniteSet(S), NEW G,
           \A s \in SUBSET S : (\A t \in SUBSET s : t # s => t \in G) => s \in G
    PROVE  S \in G
<1> SUFFICES ASSUME S \notin G PROVE FALSE
  BY Zenon
<1> DEFINE Bad == {s \in SUBSET S : s \notin G}
           N == {Cardinality(s) : s \in Bad}
<1>1. \A s \in SUBSET S : IsFiniteSet(s) /\ Cardinality(s) \in Nat
  BY FS_Subset, FS_CardinalityType, Zenon
<1>2. N \subseteq Nat /\ N # {}
  <2>1. ASSUME NEW n \in N PROVE n \in Nat
    <3>1. PICK s \in Bad : n = Cardinality(s)
      BY Zenon
    <3> QED BY <1>1, <3>1, Zenon
  <2>2. S \in Bad
    BY Zenon
  <2>3. Cardinality(S) \in N
    BY <2>2, Zenon
  <2> HIDE DEF N, Bad
  <2> QED BY <2>1, <2>3, Zenon
<1>3. PICK n \in N : \A m \in N : n <= m
  BY <1>2, LeastNatural, Zenon
<1>4. PICK s \in Bad : n = Cardinality(s)
  BY <1>3, Zenon
<1>5. ASSUME NEW t \in SUBSET s, t # s PROVE t \in G
  <2> SUFFICES ASSUME t \notin G PROVE FALSE
    BY Zenon
  <2>1. t \in Bad
    BY <1>4, Zenon
  <2>1a. Cardinality(t) \in N
    BY <2>1, Zenon
  <2>2. n <= Cardinality(t)
    <3> HIDE DEF N, Bad
    <3> QED BY <1>3, <2>1a, Zenon
  <2>3. Cardinality(t) <= Cardinality(s) /\ Cardinality(t) # Cardinality(s)
    BY <1>1, <1>4, <1>5, FS_Subset, Zenon
  <2>4. Cardinality(t) \in Nat /\ Cardinality(s) \in Nat
    BY <1>1, <1>4, <2>1, Zenon
  <2> HIDE DEF N, Bad
  <2> QED BY <1>4, <2>2, <2>3, <2>4, SMTT(30)
<1> QED BY <1>4, <1>5, Zenon

\* The sum of w over S is what such a function has for S.
LEMMA TotalIs ==
    ASSUME NEW w, NEW S, NEW g, Adds(g, w, S)
    PROVE  \E h : Adds(h, w, S) /\ Total(w, S) = h[S]
<1> DEFINE h == CHOOSE it : Adds(it, w, S)
<1>1. Adds(h, w, S)
  BY Zenon
<1>2. Total(w, S) = h[S]
  BY Zenon DEF Total, MapThenSumSet, MapThenFoldSet, Adds
<1> QED BY <1>1, <1>2, Zenon

\* The element a fold takes out of a set first.
First(s) == CHOOSE y \in s : TRUE

\* g adds up: what a subset totals is its first element and the rest.
Unfolds(g, w, S) ==
    /\ g[{}] = 0
    /\ \A s \in SUBSET S : s # {} => g[s] = w[First(s)] + g[s \ {First(s)}]

\* Such a function adds up.
LEMMA AddsStep ==
    ASSUME NEW w, NEW S, NEW g, Adds(g, w, S)
    PROVE  Unfolds(g, w, S)
<1>1. ASSUME NEW s \in SUBSET S
      PROVE  g[s] = IF s = {} THEN 0
                    ELSE LET x == CHOOSE y \in s : TRUE IN w[x] + g[s \ {x}]
  BY Zenon DEF Adds
<1>2. g[{}] = 0
  BY <1>1, Zenon
<1>3. ASSUME NEW s \in SUBSET S, s # {}
      PROVE  g[s] = w[First(s)] + g[s \ {First(s)}]
  BY <1>1, <1>3, Zenon DEF First
<1> QED BY <1>2, <1>3, Zenon DEF Unfolds

\* The first element of a set is one, and without it the set is smaller.
LEMMA FirstIn ==
    ASSUME NEW s, s # {}
    PROVE  /\ First(s) \in s
           /\ s \ {First(s)} \in SUBSET s
           /\ s \ {First(s)} # s
<1>1. First(s) \in s
  BY Zenon DEF First
<1> QED BY <1>1, Zenon

\* Two such functions agree where both are defined.
LEMMA AddsUnique ==
    ASSUME NEW w, NEW S, NEW g, Adds(g, w, S), NEW T, NEW h, Adds(h, w, T),
           NEW r, r \in SUBSET S, r \in SUBSET T, IsFiniteSet(r)
    PROVE  g[r] = h[r]
<1> DEFINE G == {s \in SUBSET r : g[s] = h[s]}
<1>a. Unfolds(g, w, S)
  BY AddsStep, Zenon
<1>b. Unfolds(h, w, T)
  BY AddsStep, Zenon
<1>1. ASSUME NEW s \in SUBSET r, \A t \in SUBSET s : t # s => t \in G PROVE s \in G
  <2>1. s \in SUBSET S /\ s \in SUBSET T
    BY Zenon
  <2>2. CASE s = {}
    BY <1>a, <1>b, <2>2, Zenon DEF Unfolds
  <2>3. CASE s # {}
    <3>1. s \ {First(s)} \in SUBSET s /\ s \ {First(s)} # s
      BY <2>3, FirstIn, Zenon
    <3>2. g[s \ {First(s)}] = h[s \ {First(s)}]
      BY <1>1, <3>1, Zenon
    <3>3. g[s] = w[First(s)] + g[s \ {First(s)}]
      BY <1>a, <2>1, <2>3, Zenon DEF Unfolds
    <3>4. h[s] = w[First(s)] + h[s \ {First(s)}]
      BY <1>b, <2>1, <2>3, Zenon DEF Unfolds
    <3> QED BY <3>2, <3>3, <3>4, Zenon
  <2> QED BY <2>2, <2>3, Zenon
<1>2. r \in G
  <2> HIDE DEF G
  <2> QED BY <1>1, SubsetInduction, Zenon
<1> QED BY <1>2, Zenon

\* A total over a finite set unfolds.
LEMMA TotalExists ==
    ASSUME NEW w, NEW S, IsFiniteSet(S)
    PROVE  \E g : Adds(g, w, S)
<1> DEFINE G == {s \in SUBSET S : \E g : Adds(g, w, s)}
<1>1. ASSUME NEW s \in SUBSET S, \A t \in SUBSET s : t # s => t \in G PROVE s \in G
  <2> DEFINE h == [t \in SUBSET s |->
                     IF t = {} THEN 0
                     ELSE IF t = s THEN w[First(s)] + Total(w, s \ {First(s)})
                     ELSE Total(w, t)]
  <2>1. ASSUME NEW t \in SUBSET s, t # s
        PROVE  /\ t = {} => Total(w, t) = 0
               /\ t # {} => Total(w, t) = w[First(t)] + Total(w, t \ {First(t)})
    <3>1. PICK g : Adds(g, w, t) /\ Total(w, t) = g[t]
      BY <1>1, <2>1, TotalIs, Zenon
    <3>2. /\ g[{}] = 0
          /\ t # {} => g[t] = w[First(t)] + g[t \ {First(t)}]
      <4>1. Unfolds(g, w, t)
        BY <3>1, AddsStep, Zenon
      <4> QED BY <4>1, Zenon DEF Unfolds
    <3>3. ASSUME t # {} PROVE g[t \ {First(t)}] = Total(w, t \ {First(t)})
      <4> DEFINE r == t \ {First(t)}
      <4>1. r \in SUBSET t /\ r \in SUBSET s /\ r # s
        BY <2>1, <3>3, FirstIn, Zenon
      <4>2. PICK f : Adds(f, w, r) /\ Total(w, r) = f[r]
        BY <1>1, <4>1, TotalIs, Zenon
      <4>3. IsFiniteSet(r)
        BY <4>1, FS_Subset, Zenon
      <4> HIDE DEF r
      <4>4. f[r] = g[r]
        BY <3>1, <4>1, <4>2, <4>3, AddsUnique, SMTT(30)
      <4> QED BY <4>2, <4>4, Zenon DEF r
    <3> QED BY <3>1, <3>2, <3>3, Zenon
  <2>2. ASSUME NEW t \in SUBSET s
        PROVE  h[t] = IF t = {} THEN 0 ELSE w[First(t)] + h[t \ {First(t)}]
    <3>1. CASE t = {}
      BY <3>1, Zenon
    <3>2. CASE t # {}
      <4>1. t \ {First(t)} \in SUBSET s /\ t \ {First(t)} # s
        BY <3>2, FirstIn, Zenon
      <4>2. h[t \ {First(t)}] = Total(w, t \ {First(t)})
        BY <2>1, <4>1, Zenon
      <4>3. h[t] = w[First(t)] + Total(w, t \ {First(t)})
        BY <2>1, <3>2, Zenon
      <4> QED BY <3>2, <4>2, <4>3, Zenon
    <3> QED BY <3>1, <3>2, Zenon
  <2>3. h = [t \in SUBSET s |-> IF t = {} THEN 0 ELSE w[First(t)] + h[t \ {First(t)}]]
    <3>1. h = [t \in SUBSET s |-> h[t]]
      BY Zenon
    <3> HIDE DEF h
    <3> QED BY <2>2, <3>1, Zenon
  <2>4. Adds(h, w, s)
    <3> HIDE DEF h
    <3> QED BY <2>3, Zenon DEF Adds, First
  <2> QED BY <2>4, Zenon
<1>2. S \in G
  <2> HIDE DEF G
  <2> QED BY <1>1, SubsetInduction, Zenon
<1> QED BY <1>2, Zenon

\* The sum over a finite set is its first term and the sum of the others.
LEMMA TotalUnfolds ==
    ASSUME NEW w, NEW S, IsFiniteSet(S)
    PROVE  /\ S = {} => Total(w, S) = 0
           /\ S # {} => Total(w, S) = w[First(S)] + Total(w, S \ {First(S)})
<1>1. PICK g : Adds(g, w, S) /\ Total(w, S) = g[S]
  BY TotalExists, TotalIs, Zenon
<1>2. /\ g[{}] = 0
      /\ S # {} => g[S] = w[First(S)] + g[S \ {First(S)}]
  <2>1. Unfolds(g, w, S)
    BY <1>1, AddsStep, Zenon
  <2> QED BY <2>1, Zenon DEF Unfolds
<1>3. ASSUME S # {} PROVE g[S \ {First(S)}] = Total(w, S \ {First(S)})
  <2> DEFINE r == S \ {First(S)}
  <2>1. r \in SUBSET S /\ r \in SUBSET r /\ IsFiniteSet(r)
    BY <1>3, FirstIn, FS_Subset, Zenon
  <2> HIDE DEF r
  <2>2. PICK f : Adds(f, w, r) /\ Total(w, r) = f[r]
    BY <2>1, TotalExists, TotalIs, Zenon
  <2>3. f[r] = g[r]
    BY <1>1, <2>1, <2>2, AddsUnique, SMTT(30)
  <2> QED BY <2>2, <2>3, Zenon DEF r
<1> QED BY <1>1, <1>2, <1>3, Zenon

\* The terms are natural numbers.
Counts(w, S) == \A u \in S : w[u] \in Nat

\* A total of naturals is a natural.
LEMMA TotalNat ==
    ASSUME NEW w, NEW S, IsFiniteSet(S), Counts(w, S)
    PROVE  Total(w, S) \in Nat
<1> DEFINE G == {s \in SUBSET S : Total(w, s) \in Nat}
<1>1. ASSUME NEW s \in SUBSET S, \A t \in SUBSET s : t # s => t \in G PROVE s \in G
  <2>1. IsFiniteSet(s)
    BY FS_Subset, Zenon
  <2>2. CASE s = {}
    <3>1. Total(w, s) = 0
      BY <2>1, <2>2, TotalUnfolds, Zenon
    <3> QED BY <3>1, SMTT(30)
  <2>3. CASE s # {}
    <3>1. Total(w, s) = w[First(s)] + Total(w, s \ {First(s)})
      BY <2>1, <2>3, TotalUnfolds, Zenon
    <3>2. w[First(s)] \in Nat
      BY <2>3, FirstIn, Zenon DEF Counts
    <3>3. Total(w, s \ {First(s)}) \in Nat
      BY <1>1, <2>3, FirstIn, Zenon
    <3>4. Total(w, s) \in Nat
      BY <3>1, <3>2, <3>3, SMTT(30)
    <3> QED BY <3>4, Zenon
  <2> QED BY <2>2, <2>3, Zenon
<1>2. S \in G
  <2> HIDE DEF G
  <2> QED BY <1>1, SubsetInduction, Zenon
<1> QED BY <1>2, Zenon

\* A total depends on the terms it adds only.
LEMMA TotalSame ==
    ASSUME NEW w, NEW v, NEW S, IsFiniteSet(S), \A u \in S : w[u] = v[u]
    PROVE  Total(w, S) = Total(v, S)
<1> DEFINE G == {s \in SUBSET S : Total(w, s) = Total(v, s)}
<1>1. ASSUME NEW s \in SUBSET S, \A t \in SUBSET s : t # s => t \in G PROVE s \in G
  <2>1. IsFiniteSet(s)
    BY FS_Subset, Zenon
  <2>2. CASE s = {}
    <3>1. Total(w, s) = 0
      BY <2>1, <2>2, TotalUnfolds, Zenon
    <3>2. Total(v, s) = 0
      BY <2>1, <2>2, TotalUnfolds, Zenon
    <3> QED BY <3>1, <3>2, Zenon
  <2>3. CASE s # {}
    <3>1. Total(w, s) = w[First(s)] + Total(w, s \ {First(s)})
      BY <2>1, <2>3, TotalUnfolds, Zenon
    <3>2. Total(v, s) = v[First(s)] + Total(v, s \ {First(s)})
      BY <2>1, <2>3, TotalUnfolds, Zenon
    <3>3. w[First(s)] = v[First(s)]
      BY <2>3, FirstIn, Zenon
    <3>4. Total(w, s \ {First(s)}) = Total(v, s \ {First(s)})
      BY <1>1, <2>3, FirstIn, Zenon
    <3>5. Total(w, s) = Total(v, s)
      BY <3>1, <3>2, <3>3, <3>4, Zenon
    <3> QED BY <3>5, Zenon
  <2> QED BY <2>2, <2>3, Zenon
<1>2. S \in G
  <2> HIDE DEF G
  <2> QED BY <1>1, SubsetInduction, Zenon
<1> QED BY <1>2, Zenon

\* Any term can be taken out of a total, not only the first.
LEMMA TotalRemove ==
    ASSUME NEW w, NEW S, IsFiniteSet(S), Counts(w, S), NEW a \in S
    PROVE  Total(w, S) = w[a] + Total(w, S \ {a})
<1> DEFINE G == {s \in SUBSET S : \A x \in s : Total(w, s) = w[x] + Total(w, s \ {x})}
<1>1. ASSUME NEW s \in SUBSET S, \A t \in SUBSET s : t # s => t \in G PROVE s \in G
  <2> SUFFICES ASSUME NEW x \in s PROVE Total(w, s) = w[x] + Total(w, s \ {x})
    BY Zenon
  <2> DEFINE f == First(s)
             T(r) == Total(w, r)
  <2>1. f \in s /\ s \ {f} \in SUBSET s /\ s \ {f} # s
    BY FirstIn, Zenon
  <2>2. T(s) = w[f] + T(s \ {f})
    BY FS_Subset, TotalUnfolds, Zenon
  <2> HIDE DEF f
  <2>3. CASE x = f
    BY <2>2, <2>3, Zenon
  <2>4. CASE x # f
    <3>1. x \in s \ {f} /\ f \in s \ {x}
      BY <2>1, <2>4, Zenon
    <3>2. T(s \ {f}) = w[x] + T((s \ {f}) \ {x})
      BY <1>1, <2>1, <3>1, Zenon
    <3>3. s \ {x} \in SUBSET s /\ s \ {x} # s
      BY Zenon
    <3>4. T(s \ {x}) = w[f] + T((s \ {x}) \ {f})
      BY <1>1, <3>1, <3>3, Zenon
    <3>5. (s \ {f}) \ {x} = (s \ {x}) \ {f}
      BY Zenon
    <3>6. w[f] \in Nat /\ w[x] \in Nat
      BY <2>1, Zenon DEF Counts
    <3>7. T((s \ {x}) \ {f}) \in Nat
      <4> DEFINE r == (s \ {x}) \ {f}
      <4>1. r \in SUBSET S
        BY Zenon
      <4> HIDE DEF r
      <4>2. IsFiniteSet(r) /\ Counts(w, r)
        BY <4>1, FS_Subset, Zenon DEF Counts
      <4>3. T(r) \in Nat
        BY <4>2, TotalNat, Zenon
      <4> QED BY <4>3, Zenon DEF r
    <3> DEFINE m == T((s \ {x}) \ {f})
    <3>8. T(s) = w[f] + (w[x] + m) /\ T(s \ {x}) = w[f] + m
      BY <2>2, <3>2, <3>4, <3>5, Zenon
    <3> HIDE DEF m, T
    <3>9. m \in Nat
      BY <3>7, Zenon DEF m
    <3>10. T(s) = w[x] + T(s \ {x})
      BY <3>6, <3>8, <3>9, SMTT(30)
    <3> QED BY <3>10, Zenon DEF T
  <2> QED BY <2>3, <2>4, Zenon
<1>2. S \in G
  <2> HIDE DEF G
  <2> QED BY <1>1, SubsetInduction, Zenon
<1> QED BY <1>2, Zenon

\* The total over two sets without a common element is the sum of the totals.
LEMMA TotalUnion ==
    ASSUME NEW w, NEW A, NEW B, IsFiniteSet(A), IsFiniteSet(B), A \cap B = {},
           Counts(w, A), Counts(w, B)
    PROVE  Total(w, A \cup B) = Total(w, A) + Total(w, B)
<1> DEFINE G == {b \in SUBSET B : Total(w, A \cup b) = Total(w, A) + Total(w, b)}
<1>a. Total(w, A) \in Nat
  BY TotalNat, Zenon
<1>1. ASSUME NEW b \in SUBSET B, \A t \in SUBSET b : t # b => t \in G PROVE b \in G
  <2>1. IsFiniteSet(b) /\ IsFiniteSet(A \cup b) /\ Counts(w, A \cup b)
    BY FS_Subset, FS_Union, Zenon DEF Counts
  <2>2. CASE b = {}
    <3>1. Total(w, b) = 0
      BY <2>1, <2>2, TotalUnfolds, Zenon
    <3>2. A \cup b = A
      BY <2>2, Zenon
    <3>3. Total(w, A) + Total(w, b) = Total(w, A)
      BY <1>a, <3>1, SMTT(30)
    <3>4. Total(w, A \cup b) = Total(w, A) + Total(w, b)
      BY <3>2, <3>3, Zenon
    <3> QED BY <3>4, Zenon
  <2>3. CASE b # {}
    <3> DEFINE x == First(b)
               r == b \ {x}
    <3>1. x \in b /\ r \in SUBSET b /\ r # b
      BY <2>3, FirstIn, Zenon
    <3>2. Total(w, b) = w[x] + Total(w, r)
      BY <2>1, <2>3, TotalUnfolds, Zenon
    <3> HIDE DEF x
    <3>3. (A \cup b) \ {x} = A \cup r /\ x \in A \cup b
      BY <3>1, Zenon
    <3>4. IsFiniteSet(r) /\ Counts(w, r)
      BY <2>1, <3>1, FS_Subset, Zenon DEF Counts
    <3> HIDE DEF r
    <3>5. Total(w, A \cup b) = w[x] + Total(w, A \cup r)
      BY <2>1, <3>3, TotalRemove, SMTT(30)
    <3>6. Total(w, A \cup r) = Total(w, A) + Total(w, r)
      BY <1>1, <3>1, Zenon
    <3>7. Total(w, r) \in Nat
      BY <3>4, TotalNat, Zenon
    <3>8. w[x] \in Nat
      BY <3>1, Zenon DEF Counts
    <3>9. Total(w, A \cup b) = Total(w, A) + Total(w, b)
      BY <1>a, <3>2, <3>5, <3>6, <3>7, <3>8, SMTT(30)
    <3> QED BY <3>9, Zenon
  <2> QED BY <2>2, <2>3, Zenon
<1>2. B \in G
  <2> HIDE DEF G
  <2> QED BY <1>1, SubsetInduction, Zenon
<1> QED BY <1>2, Zenon

\* A total over fewer terms is no larger.
LEMMA TotalMonotone ==
    ASSUME NEW w, NEW B, IsFiniteSet(B), Counts(w, B), NEW A \in SUBSET B
    PROVE  Total(w, A) <= Total(w, B)
<1> DEFINE R == B \ A
<1>1. IsFiniteSet(A) /\ IsFiniteSet(R) /\ Counts(w, A) /\ Counts(w, R)
  BY FS_Subset, Zenon DEF Counts
<1>2. A \cap R = {} /\ A \cup R = B
  BY Zenon
<1> HIDE DEF R
<1>3. Total(w, B) = Total(w, A) + Total(w, R)
  BY <1>1, <1>2, TotalUnion, Zenon
<1>4. Total(w, A) \in Nat /\ Total(w, R) \in Nat
  BY <1>1, TotalNat, Zenon
<1> QED BY <1>3, <1>4, SMTT(30)

\* A total of zeros is zero.
LEMMA TotalZero ==
    ASSUME NEW w, NEW S, IsFiniteSet(S), \A u \in S : w[u] = 0
    PROVE  Total(w, S) = 0
<1> DEFINE G == {s \in SUBSET S : Total(w, s) = 0}
<1>1. ASSUME NEW s \in SUBSET S, \A t \in SUBSET s : t # s => t \in G PROVE s \in G
  <2>1. IsFiniteSet(s)
    BY FS_Subset, Zenon
  <2>2. CASE s = {}
    BY <2>1, <2>2, TotalUnfolds, Zenon
  <2>3. CASE s # {}
    <3>1. Total(w, s) = w[First(s)] + Total(w, s \ {First(s)})
      BY <2>1, <2>3, TotalUnfolds, Zenon
    <3>2. w[First(s)] = 0
      BY <2>3, FirstIn, Zenon
    <3>3. Total(w, s \ {First(s)}) = 0
      BY <1>1, <2>3, FirstIn, Zenon
    <3>4. Total(w, s) = 0
      BY <3>1, <3>2, <3>3, SMTT(30)
    <3> QED BY <3>4, Zenon
  <2> QED BY <2>2, <2>3, Zenon
<1>2. S \in G
  <2> HIDE DEF G
  <2> QED BY <1>1, SubsetInduction, Zenon
<1> QED BY <1>2, Zenon

\* v is w with one more at a.
Bumped(w, v, a, S) == v[a] = w[a] + 1 /\ \A u \in S : u # a => v[u] = w[u]

\* One more at one place is one more in all.
LEMMA TotalBump ==
    ASSUME NEW w, NEW v, NEW S, IsFiniteSet(S), Counts(w, S), NEW a \in S, Bumped(w, v, a, S)
    PROVE  Total(v, S) = Total(w, S) + 1
<1> DEFINE r == S \ {a}
<1>0. v[a] = w[a] + 1 /\ \A u \in S : u # a => v[u] = w[u]
  BY Zenon DEF Bumped
<1>1. IsFiniteSet(r) /\ Counts(w, r) /\ r \in SUBSET S /\ a \notin r
  BY FS_Subset, Zenon DEF Counts
<1>2. Counts(v, S)
  <2>1. w[a] + 1 \in Nat
    <3>1. w[a] \in Nat
      BY Zenon DEF Counts
    <3> QED BY <3>1, SMTT(30)
  <2> QED BY <1>0, <2>1, Zenon DEF Counts
<1>3. Total(w, S) = w[a] + Total(w, r)
  BY TotalRemove, SMTT(30)
<1>4. Total(v, S) = v[a] + Total(v, r)
  BY <1>2, TotalRemove, SMTT(30)
<1> HIDE DEF r
<1>5. Total(w, r) = Total(v, r)
  <2>1. \A u \in r : w[u] = v[u]
    BY <1>0, <1>1, Zenon
  <2> QED BY <1>1, <2>1, TotalSame, Zenon
<1>6. Total(w, r) \in Nat /\ w[a] \in Nat
  BY <1>1, TotalNat, Zenon DEF Counts
<1> QED BY <1>0, <1>3, <1>4, <1>5, <1>6, SMTT(30)

-----------------------------------------------------------------------------
(* The failures of a key and what its entry knows of them.                  *)

\* The failures of a key that fall into the length of a window from t on, those
\* of the current counting window, which began at s, and of the former those
\* that came before it.
Within(t) == {u \in Time : t <= u /\ u < t + Window}
Since(s) == {u \in Time : s <= u}
Earlier(t, s) == {u \in Time : t <= u /\ u < t + Window /\ u < s}

\* An entry of the table.
Entry == [count : Nat, start : Time, until : Nat]

\* A failure shortly before the counting window that began at s was counted in
\* an earlier window, which had begun with a failure.
Chained(g, s) ==
    \A u \in Time : s - Window < u /\ u < s /\ g[u] > 0 =>
        \E v \in Time : g[v] > 0 /\ u - Window <= v /\ v < s - Window

\* What the table's entry e for a key knows of the key's failures g at time n.
Knows(e, g, n) ==
    /\ e \in Entry /\ e.start <= n
    /\ Total(g, Since(e.start)) = e.count
    /\ \A t \in Time : t + Window > e.start => Total(g, Earlier(t, e.start)) < MaxFailures
    /\ e.count >= MaxFailures => \A u \in Time : u > e.until - Window => g[u] = 0
    /\ \A u \in Time : u > e.start + Window => g[u] = 0
    /\ g[e.start] > 0 /\ Chained(g, e.start)

\* The failures g of a key at time n, whose entry is e.
Kept(e, g, n) ==
    /\ n \in Time /\ g \in [Time -> Nat]
    /\ \A t \in Time : Total(g, Within(t)) < 2 * MaxFailures
    /\ \A u \in Time : u > n => g[u] = 0
    /\ e = None => \A u \in Time : u > n - Window => g[u] = 0
    /\ e # None => Knows(e, g, n)

\* An attempt read the clock in the past, and is for a key.
Placed(a) == attempt[a].time <= now /\ (attempt[a].at # "idle" => attempt[a].key \in Key)

\* The inductive invariant behind the properties of the sums.
GuessInv ==
    /\ DOMAIN guesses = Key
    /\ \A k \in Key : Kept(failures[k], guesses[k], now)
    /\ \A a \in Attempt : Placed(a)

-----------------------------------------------------------------------------
\* A set of ticks is finite, and so a total over it adds naturals.
LEMMA Ticks ==
    ASSUME NEW s \in SUBSET Time
    PROVE  /\ IsFiniteSet(s)
           /\ \A g \in [Time -> Nat] : Counts(g, s) /\ Total(g, s) \in Nat
<1>1. IsFiniteSet(Time)
  <2>1. 0 \in Int /\ MaxTime \in Int
    BY LoginThrottleConstants, SMTT(30)
  <2> QED BY <2>1, FS_Interval, Zenon DEF Time
<1>2. IsFiniteSet(s)
  BY <1>1, FS_Subset, Zenon
<1>3. \A g \in [Time -> Nat] : Counts(g, s)
  BY Zenon DEF Counts
<1> QED BY <1>2, <1>3, TotalNat, Zenon

\* The spans of time are sets of ticks.
LEMMA Spans ==
    ASSUME NEW t, NEW s
    PROVE  Within(t) \in SUBSET Time /\ Since(s) \in SUBSET Time /\ Earlier(t, s) \in SUBSET Time
BY Zenon DEF Within, Since, Earlier

\* Ticks, the window and the number of failures are numbers.
LEMMA TimeInt ==
    /\ \A u \in Time : u \in Nat
    /\ Window \in Nat \ {0} /\ MaxFailures \in Nat \ {0}
BY LoginThrottleConstants, SMTT(30) DEF Time

\* No failure within a set of ticks, no total.
LEMMA NoneWithin ==
    ASSUME NEW g, NEW s \in SUBSET Time, \A u \in s : g[u] = 0
    PROVE  Total(g, s) = 0
BY Ticks, TotalZero, Zenon

\* h is g with one more failure, at n.
Grown(g, h, n) == h = [g EXCEPT ![n] = @ + 1]

\* One more failure, at n, is one more in every set of ticks that has n.
LEMMA OneMore ==
    ASSUME NEW g \in [Time -> Nat], NEW n \in Time, NEW h, Grown(g, h, n),
           NEW s \in SUBSET Time
    PROVE  /\ n \in s => Total(h, s) = Total(g, s) + 1
           /\ n \notin s => Total(h, s) = Total(g, s)
<1>1. h[n] = g[n] + 1 /\ \A u \in Time : u # n => h[u] = g[u]
  BY Zenon DEF Grown
<1>2. IsFiniteSet(s) /\ Counts(g, s)
  BY Ticks, Zenon
<1>3. ASSUME n \in s PROVE Total(h, s) = Total(g, s) + 1
  <2>1. Bumped(g, h, n, s)
    BY <1>1, Zenon DEF Bumped
  <2> QED BY <1>2, <1>3, <2>1, TotalBump, Zenon
<1>4. ASSUME n \notin s PROVE Total(h, s) = Total(g, s)
  <2>1. \A u \in s : h[u] = g[u]
    BY <1>1, <1>4, Zenon
  <2>2. IsFiniteSet(s)
    BY <1>2, Zenon
  <2> QED BY <2>1, <2>2, TotalSame, ZenonT(40)
<1> QED BY <1>3, <1>4, Zenon

\* A window splits at the start of the counting window.
LEMMA Splits ==
    ASSUME NEW g \in [Time -> Nat], NEW t \in Time, NEW s \in Time
    PROVE  Total(g, Within(t)) <= Total(g, Earlier(t, s)) + Total(g, Since(s))
<1> DEFINE A == Earlier(t, s)
           B == {u \in Within(t) : s <= u}
<1>1. A \in SUBSET Time /\ B \in SUBSET Time /\ Since(s) \in SUBSET Time /\ B \in SUBSET Since(s)
  BY Spans, Zenon DEF Since
<1>2. A \cup B = Within(t) /\ A \cap B = {}
  <2>1. \A u \in Time : (s <= u) <=> ~(u < s)
    BY TimeInt, SMTT(30)
  <2>2. \A u : u \in A <=> u \in Time /\ t <= u /\ u < t + Window /\ u < s
    BY Zenon DEF Earlier
  <2>3. \A u : u \in B <=> u \in Time /\ t <= u /\ u < t + Window /\ s <= u
    BY Zenon DEF Within
  <2>4. \A u : u \in Within(t) <=> u \in Time /\ t <= u /\ u < t + Window
    BY Zenon DEF Within
  <2> HIDE DEF A, B
  <2> QED BY <2>1, <2>2, <2>3, <2>4, Zenon
<1> HIDE DEF A, B
<1>3. /\ IsFiniteSet(A) /\ IsFiniteSet(B) /\ IsFiniteSet(Since(s))
      /\ Counts(g, A) /\ Counts(g, B) /\ Counts(g, Since(s))
      /\ Total(g, A) \in Nat /\ Total(g, B) \in Nat /\ Total(g, Since(s)) \in Nat
  BY <1>1, Ticks, Zenon
<1>4. Total(g, A \cup B) = Total(g, A) + Total(g, B)
  BY <1>2, <1>3, TotalUnion, Zenon
<1>5. Total(g, B) <= Total(g, Since(s))
  BY <1>1, <1>3, TotalMonotone, Zenon
<1>6. Total(g, Within(t)) <= Total(g, A) + Total(g, Since(s))
  BY <1>2, <1>3, <1>4, <1>5, SMTT(30)
<1> QED BY <1>6, Zenon DEF A

\* Counted: a fresh window, or one more in the current one.
LEMMA CountedIs ==
    ASSUME NEW e, NEW n \in Time, e = None \/ e \in Entry
    PROVE  /\ Counted(e, n) \in Entry
           /\ Counted(e, n) # None
           /\ (e = None \/ n - e.start > Window)
                => /\ Counted(e, n).count = 1 /\ Counted(e, n).start = n
                   /\ 1 >= MaxFailures => Counted(e, n).until = n + Window
           /\ ~(e = None \/ n - e.start > Window)
                => /\ Counted(e, n).count = e.count + 1 /\ Counted(e, n).start = e.start
                   /\ e.count + 1 >= MaxFailures => Counted(e, n).until = n + Window
<1> DEFINE c == Counted(e, n)
           G == IF e = None \/ n - e.start > Window THEN [count |-> 0, start |-> n, until |-> 0] ELSE e
<1>0. n \in Nat /\ Window \in Nat
  BY TimeInt, SMTT(30)
<1>1. G \in Entry
  <2>1. [count |-> 0, start |-> n, until |-> 0] \in Entry
    BY SMTT(30) DEF Entry
  <2> QED BY <2>1, Zenon
<1>2. c = [G EXCEPT !.count = @ + 1, !.until = IF G.count + 1 >= MaxFailures THEN n + Window ELSE @]
  BY Zenon DEF Counted
<1>3. /\ (e = None \/ n - e.start > Window) => G = [count |-> 0, start |-> n, until |-> 0]
      /\ ~(e = None \/ n - e.start > Window) => G = e
  BY Zenon
<1> HIDE DEF G, c
<1>4. /\ c \in Entry /\ c.count = G.count + 1 /\ c.start = G.start
      /\ c.until = IF G.count + 1 >= MaxFailures THEN n + Window ELSE G.until
  <2> DEFINE U == IF G.count + 1 >= MaxFailures THEN n + Window ELSE G.until
  <2>1. G.count \in Nat /\ G.start \in Time /\ G.until \in Nat
    BY <1>1, Zenon DEF Entry
  <2>2. U \in Nat /\ G.count + 1 \in Nat
    BY <1>0, <2>1, TimeInt, SMTT(30)
  <2>3. c = [G EXCEPT !.count = G.count + 1, !.until = U]
    BY <1>2, Zenon
  <2> DEFINE H == [G EXCEPT !.count = G.count + 1]
  <2>4. H \in Entry /\ H.count = G.count + 1 /\ H.start = G.start
    BY <1>1, <2>2, SMTT(30) DEF Entry
  <2>5. c \in Entry /\ c.count = G.count + 1 /\ c.start = G.start /\ c.until = U
    <3>1. c = [H EXCEPT !.until = U]
      BY <2>3, Zenon
    <3> HIDE DEF H, U
    <3> QED BY <2>2, <2>4, <3>1, SMTT(30) DEF Entry
  <2> QED BY <2>5, Zenon DEF U
<1>5. c # None
  <2>1. c \in [count : Nat, start : Nat, until : Nat]
    BY <1>4, TimeInt, Zenon DEF Entry
  <2> QED BY <2>1, LoginThrottleConstants, Zenon
<1>6. ASSUME e = None \/ n - e.start > Window
      PROVE  c.count = 1 /\ c.start = n /\ (1 >= MaxFailures => c.until = n + Window)
  <2>1. G = [count |-> 0, start |-> n, until |-> 0]
    BY <1>3, <1>6, Zenon
  <2>2. G.count = 0 /\ G.start = n
    BY <2>1, SMTT(30)
  <2> QED BY <1>4, <2>2, SMTT(30)
<1>7. ASSUME ~(e = None \/ n - e.start > Window)
      PROVE  c.count = e.count + 1 /\ c.start = e.start /\ (e.count + 1 >= MaxFailures => c.until = n + Window)
  <2>1. G = e
    BY <1>3, <1>7, Zenon
  <2> QED BY <1>4, <2>1, Zenon
<1> QED BY <1>4, <1>5, <1>6, <1>7, Zenon DEF c

\* One failure more, counted while the key is not locked out.
LEMMA FailedKept ==
    ASSUME NEW e, NEW g, NEW n, Kept(e, g, n), e = None \/ ~(n < e.until)
    PROVE  Kept(Counted(e, n), [g EXCEPT ![n] = @ + 1], n)
<1> DEFINE h == [g EXCEPT ![n] = @ + 1]
           c == Counted(e, n)
           Fresh == e = None \/ n - e.start > Window
<1>0. /\ n \in Time /\ g \in [Time -> Nat] /\ n \in Nat
      /\ Window \in Nat \ {0} /\ MaxFailures \in Nat \ {0}
      /\ \A u \in Time : u \in Nat
  BY TimeInt, Zenon DEF Kept
<1>e. e # None => Knows(e, g, n)
  BY Zenon DEF Kept
<1>f. e # None => /\ e.start \in Time /\ e.start \in Nat /\ e.start <= n
                  /\ e.count \in Nat /\ e.until \in Nat /\ e \in Entry
  BY <1>0, <1>e, Zenon DEF Knows, Entry
<1>1. h \in [Time -> Nat] /\ h[n] = g[n] + 1 /\ \A u \in Time : u # n => h[u] = g[u]
  <2>1. g[n] + 1 \in Nat
    <3>1. g[n] \in Nat
      BY <1>0, Zenon
    <3> QED BY <3>1, SMTT(30)
  <2> QED BY <1>0, <2>1, Zenon
<1>2. /\ c \in Entry /\ c # None
      /\ Fresh => /\ c.count = 1 /\ c.start = n
                  /\ 1 >= MaxFailures => c.until = n + Window
      /\ ~Fresh => /\ c.count = e.count + 1 /\ c.start = e.start
                   /\ e.count + 1 >= MaxFailures => c.until = n + Window
  BY <1>0, <1>f, CountedIs, Zenon
<1>3. \A s \in SUBSET Time : /\ n \in s => Total(h, s) = Total(g, s) + 1
                             /\ n \notin s => Total(h, s) = Total(g, s)
  <2>1. Grown(g, h, n) /\ n \in Time /\ g \in [Time -> Nat]
    BY <1>0, Zenon DEF Grown
  <2> HIDE DEF h
  <2>2. ASSUME NEW s \in SUBSET Time
        PROVE  /\ n \in s => Total(h, s) = Total(g, s) + 1
               /\ n \notin s => Total(h, s) = Total(g, s)
    BY <2>1, OneMore, ZenonT(40)
  <2> QED BY <2>2, Zenon
<1>4. \A s \in SUBSET Time : Total(g, s) \in Nat /\ Total(h, s) \in Nat
  BY <1>0, <1>1, Ticks, Zenon
<1>5. \A u \in Time : u > n => g[u] = 0
  BY Zenon DEF Kept
<1> HIDE DEF h, c
<1>6. \A u \in Time : u > n => h[u] = 0
  <2>1. \A u \in Time : u > n => u # n
    BY <1>0, SMTT(30)
  <2> QED BY <1>1, <1>5, <2>1, Zenon
\* the failures of a window that n is in, when the key was last locked out
<1>7. ASSUME e # None, e.count >= MaxFailures, NEW u \in Time, u > n - Window PROVE g[u] = 0
  <2>1. u > e.until - Window
    BY <1>0, <1>7, <1>f, SMTT(30)
  <2> QED BY <1>7, <1>e, <2>1, Zenon DEF Knows
<1>8. Total(h, Since(c.start)) = c.count
  <2>1. CASE Fresh
    <3>1. \A u \in Since(n) : g[u] = 0
      <4>1. CASE e = None
        <5>1. \A u \in Time : n <= u => u > n - Window
          BY <1>0, SMTT(30)
        <5> QED BY <4>1, <5>1, Zenon DEF Kept, Since
      <4>2. CASE e # None
        <5>1. \A u \in Time : n <= u => u > e.start + Window
          BY <1>0, <1>f, <2>1, <4>2, SMTT(30)
        <5> QED BY <1>e, <4>2, <5>1, Zenon DEF Knows, Since
      <4> QED BY <4>1, <4>2, Zenon
    <3>2. Since(n) \in SUBSET Time /\ n \in Since(n)
      <4>1. n <= n
        BY <1>0, SMTT(30)
      <4> QED BY <1>0, <4>1, Zenon DEF Since
    <3>3. Total(g, Since(n)) = 0
      BY <3>1, <3>2, NoneWithin, Zenon
    <3>4. Total(h, Since(n)) = 0 + 1
      BY <1>3, <3>2, <3>3, Zenon
    <3> QED BY <1>2, <2>1, <3>4, SMTT(30)
  <2>2. CASE ~Fresh
    <3>1. Since(e.start) \in SUBSET Time /\ n \in Since(e.start)
      BY <1>0, <1>f, <2>2, Zenon DEF Since
    <3>2. Total(g, Since(e.start)) = e.count
      BY <1>e, <2>2, Zenon DEF Knows
    <3> QED BY <1>2, <1>3, <2>2, <3>1, <3>2, Zenon
  <2> QED BY <2>1, <2>2, Zenon
<1>9. ASSUME NEW t \in Time, t + Window > c.start
      PROVE  Total(h, Earlier(t, c.start)) < MaxFailures
  <2>1. Earlier(t, c.start) \in SUBSET Time
    BY Spans, Zenon
  <2>2. c.start <= n
    BY <1>0, <1>2, <1>f, SMTT(30)
  <2>3. n \notin Earlier(t, c.start)
    <3>1. c.start \in Nat
      BY <1>0, <1>2, Zenon DEF Entry
    <3>2. ~(n < c.start)
      BY <1>0, <2>2, <3>1, SMTT(30)
    <3> QED BY <3>2, Zenon DEF Earlier
  <2>4. Total(h, Earlier(t, c.start)) = Total(g, Earlier(t, c.start))
    BY <1>3, <2>1, <2>3, Zenon
  <2>5. CASE ~Fresh
    <3>1. Total(g, Earlier(t, e.start)) < MaxFailures
      BY <1>2, <1>9, <1>e, <2>5, Zenon DEF Knows
    <3> QED BY <1>2, <2>4, <2>5, <3>1, Zenon
  <2>6. CASE Fresh /\ (e = None \/ e.count >= MaxFailures)
    <3>1. ASSUME NEW u \in Earlier(t, c.start) PROVE g[u] = 0
      <4>1. u \in Time /\ t <= u
        BY Zenon DEF Earlier
      <4>2. u > n - Window
        BY <1>0, <1>2, <1>9, <2>6, <4>1, SMTT(30)
      <4>3. CASE e = None
        BY <4>1, <4>2, <4>3, Zenon DEF Kept
      <4>4. CASE e # None
        BY <1>7, <2>6, <4>1, <4>2, <4>4, Zenon
      <4> QED BY <4>3, <4>4, Zenon
    <3>2. Total(g, Earlier(t, c.start)) = 0
      BY <2>1, <3>1, NoneWithin, Zenon
    <3> QED BY <1>0, <2>4, <3>2, SMTT(30)
  <2>7. CASE Fresh /\ e # None /\ ~(e.count >= MaxFailures)
    <3>1. Since(e.start) \in SUBSET Time
      BY Spans, Zenon
    <3>2. ASSUME NEW u \in Earlier(t, c.start) PROVE u \in Since(e.start)
      <4>1. u \in Time /\ t <= u
        BY Zenon DEF Earlier
      <4>2. e.start <= u
        BY <1>0, <1>2, <1>9, <1>f, <2>7, <4>1, SMTT(30)
      <4> QED BY <4>1, <4>2, Zenon DEF Since
    <3>3. Total(g, Earlier(t, c.start)) <= Total(g, Since(e.start))
      <4>1. IsFiniteSet(Since(e.start)) /\ Counts(g, Since(e.start))
        BY <1>0, <3>1, Ticks, Zenon
      <4>2. Earlier(t, c.start) \in SUBSET Since(e.start)
        BY <3>2, Zenon
      <4> QED BY <4>1, <4>2, TotalMonotone, Zenon
    <3>4. Total(g, Since(e.start)) = e.count
      BY <1>e, <2>7, Zenon DEF Knows
    <3>5. Total(g, Earlier(t, c.start)) \in Nat
      BY <1>4, <2>1, Zenon
    <3> QED BY <1>0, <1>f, <2>4, <2>7, <3>3, <3>4, <3>5, SMTT(30)
  <2> QED BY <2>5, <2>6, <2>7, Zenon
<1>10. ASSUME c.count >= MaxFailures, NEW u \in Time, u > c.until - Window PROVE h[u] = 0
  <2>1. c.until = n + Window
    BY <1>2, <1>10, Zenon
  <2>2. u > n
    BY <1>0, <1>10, <2>1, SMTT(30)
  <2> QED BY <1>6, <2>2, Zenon
<1>11. ASSUME NEW u \in Time, u > c.start + Window PROVE h[u] = 0
  <2>1. CASE Fresh
    <3>1. u > n
      BY <1>0, <1>2, <1>11, <2>1, SMTT(30)
    <3> QED BY <1>6, <3>1, Zenon
  <2>2. CASE ~Fresh
    <3>1. u > n
      BY <1>0, <1>2, <1>11, <1>f, <2>2, SMTT(30)
    <3> QED BY <1>6, <3>1, Zenon
  <2> QED BY <2>1, <2>2, Zenon
<1>12. ASSUME NEW t \in Time PROVE Total(h, Within(t)) < 2 * MaxFailures
  <2>1. Within(t) \in SUBSET Time /\ Since(c.start) \in SUBSET Time /\ Earlier(t, c.start) \in SUBSET Time
    BY Spans, Zenon
  <2>2. CASE n \notin Within(t)
    <3>1. Total(h, Within(t)) = Total(g, Within(t))
      BY <1>3, <2>1, <2>2, Zenon
    <3> QED BY <3>1, Zenon DEF Kept
  <2>3. CASE n \in Within(t) /\ ~Fresh /\ e.count >= MaxFailures
    <3>1. ASSUME NEW u \in Within(t) PROVE g[u] = 0
      <4>1. u \in Time /\ t <= u /\ n < t + Window
        BY <2>3, Zenon DEF Within
      <4>2. u > n - Window
        BY <1>0, <4>1, SMTT(30)
      <4> QED BY <1>7, <2>3, <4>1, <4>2, Zenon
    <3>2. Total(g, Within(t)) = 0
      BY <2>1, <3>1, NoneWithin, Zenon
    <3>3. Total(h, Within(t)) = 0 + 1
      BY <1>3, <2>1, <2>3, <3>2, Zenon
    <3> QED BY <1>0, <3>3, SMTT(30)
  <2>4. CASE n \in Within(t) /\ (Fresh \/ ~(e.count >= MaxFailures))
    <3>1. c.count <= MaxFailures
      BY <1>0, <1>2, <1>f, <2>4, SMTT(30)
    <3>2. c.start \in Time /\ t + Window > c.start
      <4>1. n < t + Window
        BY <2>4, Zenon DEF Within
      <4>2. c.start \in Time /\ c.start <= n
        BY <1>0, <1>2, <1>f, SMTT(30)
      <4>3. c.start \in Nat
        BY <1>0, <4>2, Zenon
      <4>4. t + Window > c.start
        BY <1>0, <4>1, <4>2, <4>3, SMTT(30)
      <4> QED BY <4>2, <4>4, Zenon
    <3>3. Total(h, Earlier(t, c.start)) < MaxFailures
      BY <1>9, <3>2, Zenon
    <3>4. Total(h, Within(t)) <= Total(h, Earlier(t, c.start)) + Total(h, Since(c.start))
      BY <1>1, <3>2, Splits, Zenon
    <3>5. Total(h, Within(t)) \in Nat /\ Total(h, Earlier(t, c.start)) \in Nat /\ c.count \in Nat
      BY <1>2, <1>4, <2>1, Zenon DEF Entry
    <3> QED BY <1>0, <1>8, <3>1, <3>3, <3>4, <3>5, SMTT(30)
  <2> QED BY <2>2, <2>3, <2>4, Zenon
<1>13. c.start <= n
  BY <1>0, <1>2, <1>f, SMTT(30)
<1>16. h[c.start] > 0
  <2>1. CASE Fresh
    <3>1. h[c.start] = g[n] + 1 /\ g[n] \in Nat
      BY <1>0, <1>1, <1>2, <2>1, Zenon
    <3> QED BY <3>1, SMTT(30)
  <2>2. CASE ~Fresh
    <3>1. c.start \in Time /\ g[c.start] > 0 /\ g[c.start] \in Nat
      BY <1>0, <1>2, <1>e, <1>f, <2>2, Zenon DEF Knows
    <3>2. h[c.start] = g[c.start] \/ h[c.start] = g[c.start] + 1
      BY <1>1, <3>1, Zenon
    <3> QED BY <3>1, <3>2, SMTT(30)
  <2> QED BY <2>1, <2>2, Zenon
<1>17. Chained(h, c.start)
  <2> SUFFICES ASSUME NEW u \in Time, c.start - Window < u, u < c.start, h[u] > 0
               PROVE  \E v \in Time : h[v] > 0 /\ u - Window <= v /\ v < c.start - Window
    BY Zenon DEF Chained
  <2>0. c.start \in Nat /\ u \in Nat
    BY <1>0, <1>2, Zenon DEF Entry
  <2>1. u # n /\ u < n
    BY <1>0, <1>13, <2>0, SMTT(30)
  <2>2. g[u] > 0 /\ h[u] = g[u]
    BY <1>1, <2>1, Zenon
  <2>3. CASE ~Fresh
    <3>1. PICK v \in Time : g[v] > 0 /\ u - Window <= v /\ v < e.start - Window
      BY <1>2, <1>e, <2>2, <2>3, Zenon DEF Knows, Chained
    <3>2. v # n
      BY <1>0, <1>f, <2>3, <3>1, SMTT(30)
    <3> QED BY <1>1, <1>2, <2>3, <3>1, <3>2, Zenon
  <2>4. CASE e = None
    <3>1. c.start = n /\ u > n - Window
      BY <1>0, <1>2, <2>0, <2>4, SMTT(30)
    <3>2. g[u] = 0
      BY <2>4, <3>1, Zenon DEF Kept
    <3> QED BY <2>2, <3>2, SMTT(30)
  <2>5. CASE e # None /\ n - e.start > Window
    <3>1. c.start = n /\ e.start \in Time /\ e.start \in Nat /\ g[e.start] > 0
      BY <1>2, <1>e, <1>f, <2>5, Zenon DEF Knows
    <3>2. ~(u > e.start + Window)
      <4>1. g[u] # 0
        BY <2>2, SMTT(30)
      <4> QED BY <1>e, <2>5, <4>1, Zenon DEF Knows
    <3>3. e.start # n /\ u - Window <= e.start /\ e.start < c.start - Window
      BY <1>0, <2>0, <2>5, <3>1, <3>2, SMTT(30)
    <3>4. h[e.start] > 0
      BY <1>1, <3>1, <3>3, Zenon
    <3> QED BY <3>1, <3>3, <3>4, Zenon
  <2> QED BY <2>3, <2>4, <2>5, Zenon
<1>14. Knows(c, h, n)
  BY <1>2, <1>8, <1>9, <1>10, <1>11, <1>13, <1>16, <1>17, Zenon DEF Knows
<1>15. Kept(c, h, n)
  BY <1>0, <1>1, <1>2, <1>6, <1>12, <1>14, Zenon DEF Kept
<1> QED BY <1>15, Zenon DEF c, h

\* Nothing counted, nothing to know.
LEMMA WipedKept ==
    ASSUME NEW n \in Time
    PROVE  Kept(None, [u \in Time |-> 0], n)
<1> DEFINE z == [u \in Time |-> 0]
<1>1. z \in [Time -> Nat] /\ \A u \in Time : z[u] = 0
  BY SMTT(30)
<1> HIDE DEF z
<1>2. ASSUME NEW t \in Time PROVE Total(z, Within(t)) < 2 * MaxFailures
  <2>1. Within(t) \in SUBSET Time
    BY Spans, Zenon
  <2>2. Total(z, Within(t)) = 0
    BY <1>1, <2>1, NoneWithin, Zenon
  <2> QED BY <2>2, TimeInt, SMTT(30)
<1>3. Kept(None, z, n)
  BY <1>1, <1>2, Zenon DEF Kept
<1> QED BY <1>3, Zenon DEF z

\* The clock moves on.
LEMMA TickKept ==
    ASSUME NEW e, NEW g, NEW n, Kept(e, g, n), NEW m \in Time, n <= m
    PROVE  Kept(e, g, m)
<1>1. n \in Nat /\ m \in Nat /\ \A u \in Time : u \in Nat
  BY TimeInt, Zenon DEF Kept
<1>2. \A u \in Time : /\ u > m => u > n
                      /\ u > m - Window => u > n - Window
  BY <1>1, TimeInt, SMTT(30)
<1>3. Knows(e, g, n) => Knows(e, g, m)
  <2>1. ASSUME Knows(e, g, n) PROVE e.start <= m
    <3>1. e.start <= n /\ e.start \in Nat
      BY <1>1, <2>1, Zenon DEF Knows, Entry
    <3> QED BY <1>1, <3>1, SMTT(30)
  <2> QED BY <2>1, Zenon DEF Knows
<1> QED BY <1>2, <1>3, Zenon DEF Kept

\* An entry that pruneFailuresLocked drops as expired, as seen at time t, has no
\* failures left that a window from now on could count.
LEMMA ExpiredKept ==
    ASSUME NEW e, NEW g, NEW n, Kept(e, g, n), NEW t \in Time, t <= n,
           e # None, t - e.start > 2 * Window
    PROVE  Kept(None, g, n)
<1>1. n \in Nat /\ t \in Nat /\ \A u \in Time : u \in Nat
  BY TimeInt, Zenon DEF Kept
<1>2. Knows(e, g, n)
  BY Zenon DEF Kept
<1>3. e.start \in Nat
  BY <1>1, <1>2, Zenon DEF Knows, Entry
<1>4. \A u \in Time : u > n - Window => u > e.start + Window
  BY <1>1, <1>3, TimeInt, SMTT(30)
<1>5. \A u \in Time : u > n - Window => g[u] = 0
  BY <1>2, <1>4, Zenon DEF Knows
<1> QED BY <1>5, Zenon DEF Kept

\* No time has passed and nothing was counted at the start.
LEMMA GuessInit == Init => GuessInv
<1> SUFFICES ASSUME Init PROVE GuessInv
  BY Zenon
<1>1. 0 \in Time /\ 0 <= 0
  BY LoginThrottleConstants, SMTT(30) DEF Time
<1>2. ASSUME NEW k \in Key PROVE Kept(failures[k], guesses[k], now)
  <2>1. failures[k] = None /\ guesses[k] = [t \in Time |-> 0] /\ now = 0
    BY Zenon DEF Init
  <2> QED BY <1>1, <2>1, WipedKept, Zenon
<1>3. \A a \in Attempt : Placed(a)
  BY <1>1, Zenon DEF Init, Idle, Placed
<1>4. DOMAIN guesses = Key
  BY Zenon DEF Init
<1> QED BY <1>2, <1>3, <1>4, Zenon DEF GuessInv

\* An attempt that becomes idle or goes on keeps a time that is past.
LEMMA TimesPast ==
    ASSUME Inv, GuessInv, NEW a \in Attempt, NEW s, Become(a, s), s.time <= now,
           s.at # "idle" => s.key \in Key, now' = now
    PROVE  \A b \in Attempt : Placed(b)'
<1>1. \A b \in Attempt : attempt'[b] = IF b = a THEN s ELSE attempt[b]
  BY Zenon DEF Inv, Become
<1> QED BY <1>1, Zenon DEF GuessInv, Placed

\* Every step keeps what the table knows of the failures.
LEMMA GuessNext == Inv /\ GuessInv /\ [Next]_vars /\ Inv' => GuessInv'
<1> SUFFICES ASSUME Inv, GuessInv, [Next]_vars, Inv' PROVE GuessInv'
  BY Zenon
<1>0. /\ now \in Time /\ now' \in Time /\ now \in Nat /\ 0 <= now /\ now <= now
  <2>1. now \in Time /\ now' \in Time /\ now \in Nat
    BY TimeInt, Zenon DEF Inv
  <2> QED BY <2>1, SMTT(30)
<1>a. \A a \in Attempt : attempt[a] \in Attempts /\ attempt[a].time <= now /\ attempt[a].time \in Time
  BY Zenon DEF Inv, GuessInv, Placed, Attempts
<1>b. Idle.time <= now /\ Idle.at = "idle"
  BY <1>0, Zenon DEF Idle
<1>c. ASSUME NEW a \in Attempt, attempt[a].at # "idle", NEW at
      PROVE  [attempt[a] EXCEPT !.at = at].time <= now /\ [attempt[a] EXCEPT !.at = at].key \in Key
  <2>1. attempt[a].key \in Key
    BY <1>c, Zenon DEF GuessInv, Placed
  <2> QED BY <1>a, <2>1, Zenon DEF Attempts
<1>1. CASE Tick
  <2>1. now <= now' /\ \A b \in Attempt : attempt[b].time <= now'
    <3>1. now' = now + 1 /\ \A b \in Attempt : attempt[b].time \in Nat
      BY <1>1, <1>a, TimeInt, Zenon DEF Tick
    <3> QED BY <1>0, <1>a, <3>1, SMTT(30)
  <2>2. failures' = failures /\ guesses' = guesses /\ attempt' = attempt
    BY <1>1, Zenon DEF Tick
  <2>3. \A k \in Key : Kept(failures[k], guesses[k], now')
    BY <1>0, <2>1, TickKept, Zenon DEF GuessInv
  <2> QED BY <2>1, <2>2, <2>3, Zenon DEF GuessInv, Placed
<1>2. ASSUME NEW a \in Attempt, NEW s, Become(a, s), s.time <= now, s.at # "idle" => s.key \in Key,
             UNCHANGED <<now, failures, guesses>>
      PROVE  GuessInv'
  <2>1. \A b \in Attempt : Placed(b)'
    BY <1>2, TimesPast, Zenon
  <2> QED BY <1>2, <2>1, Zenon DEF GuessInv
<1>3. ASSUME NEW a \in Attempt, NEW k \in Key, Arrive(a, k) PROVE GuessInv'
  <2> DEFINE s == [at |-> "arrived", key |-> k, time |-> now]
  <2>1. s.time <= now /\ s.key \in Key
    BY <1>0, Zenon
  <2> HIDE DEF s
  <2>2. Become(a, s) /\ UNCHANGED <<now, failures, guesses>>
    BY <1>3, Zenon DEF Arrive, s
  <2> QED BY <1>2, <2>1, <2>2, Zenon
<1>4. ASSUME NEW a \in Attempt, Begin(a) PROVE GuessInv'
  <2> DEFINE t == attempt[a].time
  <2>1. PICK dropped \in Pruned(t) :
           /\ failures' = [j \in Key |-> IF j \in dropped THEN None ELSE failures[j]]
           /\ guesses' = [j \in Key |-> IF j \in dropped \ Expired(t)
                                        THEN [u \in Time |-> 0] ELSE guesses[j]]
           /\ Become(a, Idle) \/ Become(a, [attempt[a] EXCEPT !.at = "verify"])
           /\ now' = now /\ attempt[a].at # "idle"
    BY <1>4, Zenon DEF Begin
  <2>2. \A b \in Attempt : Placed(b)'
    BY <1>b, <1>c, <2>1, TimesPast, Zenon
  <2>3. t \in Time /\ t <= now
    BY <1>a, Zenon
  <2> HIDE DEF t
  <2>4. ASSUME NEW k \in Key PROVE Kept(failures'[k], guesses'[k], now')
    <3>1. CASE k \notin dropped
      BY <2>1, <3>1, Zenon DEF GuessInv
    <3>2. CASE k \in dropped /\ k \notin Expired(t)
      <4>1. failures'[k] = None /\ guesses'[k] = [u \in Time |-> 0]
        BY <2>1, <3>2, Zenon
      <4> QED BY <1>0, <4>1, WipedKept, Zenon
    <3>3. CASE k \in dropped /\ k \in Expired(t)
      <4>1. failures'[k] = None /\ guesses'[k] = guesses[k]
        BY <2>1, <3>3, Zenon
      <4>2. failures[k] # None /\ t - failures[k].start > 2 * Window
        BY <3>3, Zenon DEF Expired, Entries
      <4>3. Kept(failures[k], guesses[k], now)
        BY Zenon DEF GuessInv
      <4>4. Kept(None, guesses[k], now)
        BY <2>3, <4>2, <4>3, ExpiredKept, Zenon
      <4> QED BY <2>1, <4>1, <4>4, Zenon
    <3> QED BY <3>1, <3>2, <3>3, Zenon
  <2> QED BY <2>1, <2>2, <2>4, Zenon DEF GuessInv
<1>5. ASSUME NEW a \in Attempt, Accept(a) PROVE GuessInv'
  <2> DEFINE k == attempt[a].key
  <2>1. /\ failures' = [failures EXCEPT ![k] = None]
        /\ guesses' = [guesses EXCEPT ![k] = [t \in Time |-> 0]]
        /\ Become(a, [attempt[a] EXCEPT !.at = "accepted"]) \/ Become(a, Idle)
        /\ now' = now /\ attempt[a].at # "idle"
    BY <1>5, Zenon DEF Accept
  <2>2. \A b \in Attempt : Placed(b)'
    BY <1>b, <1>c, <2>1, TimesPast, Zenon
  <2> HIDE DEF k
  <2>3. ASSUME NEW j \in Key PROVE Kept(failures'[j], guesses'[j], now')
    <3>1. CASE j # k
      <4>1. failures'[j] = failures[j] /\ guesses'[j] = guesses[j]
        BY <2>1, <3>1, Zenon DEF Inv, GuessInv
      <4> QED BY <2>1, <4>1, Zenon DEF GuessInv
    <3>2. CASE j = k
      <4>1. failures'[j] = None /\ guesses'[j] = [t \in Time |-> 0]
        BY <2>1, <3>2, Zenon DEF Inv, GuessInv
      <4> QED BY <1>0, <4>1, WipedKept, Zenon
    <3> QED BY <3>1, <3>2, Zenon
  <2>4. DOMAIN guesses' = Key
    BY <2>1, Zenon DEF GuessInv
  <2> QED BY <2>2, <2>3, <2>4, Zenon DEF GuessInv
<1>6. ASSUME NEW a \in Attempt, Fail(a) PROVE GuessInv'
  <2> DEFINE k == attempt[a].key
  <2>1. /\ failures' = [failures EXCEPT ![k] = Counted(failures[k], now)]
        /\ guesses' = [guesses EXCEPT ![k] = [guesses[k] EXCEPT ![now] = @ + 1]]
        /\ Become(a, Idle) /\ now' = now /\ ~Blocked(k, now)
    BY <1>6, Zenon DEF Fail
  <2>2. \A b \in Attempt : Placed(b)'
    BY <1>b, <2>1, TimesPast, Zenon
  <2> HIDE DEF k
  <2>3. ASSUME NEW j \in Key PROVE Kept(failures'[j], guesses'[j], now')
    <3>1. CASE j # k
      <4>1. failures'[j] = failures[j] /\ guesses'[j] = guesses[j]
        BY <2>1, <3>1, Zenon DEF Inv, GuessInv
      <4> QED BY <2>1, <4>1, Zenon DEF GuessInv
    <3>2. CASE j = k
      <4>1. failures'[j] = Counted(failures[j], now) /\ guesses'[j] = [guesses[j] EXCEPT ![now] = @ + 1]
        BY <2>1, <3>2, Zenon DEF Inv, GuessInv
      <4>2. failures[j] = None \/ ~(now < failures[j].until)
        BY <2>1, <3>2, Zenon DEF Blocked
      <4>3. Kept(failures[j], guesses[j], now)
        BY Zenon DEF GuessInv
      <4>4. Kept(Counted(failures[j], now), [guesses[j] EXCEPT ![now] = @ + 1], now)
        BY <4>2, <4>3, FailedKept, Zenon
      <4> QED BY <2>1, <4>1, <4>4, Zenon
    <3> QED BY <3>1, <3>2, Zenon
  <2>4. DOMAIN guesses' = Key
    BY <2>1, Zenon DEF GuessInv
  <2> QED BY <2>2, <2>3, <2>4, Zenon DEF GuessInv
<1>7. ASSUME NEW a \in Attempt, Refuse(a) \/ Answer(a) PROVE GuessInv'
  <2>1. Become(a, Idle) /\ UNCHANGED <<now, failures, guesses>>
    BY <1>7, Zenon DEF Refuse, Answer
  <2> QED BY <1>2, <1>b, <2>1, Zenon
<1>8. CASE UNCHANGED vars
  BY <1>8, Zenon DEF vars, GuessInv, Placed
<1> QED BY <1>1, <1>3, <1>4, <1>5, <1>6, <1>7, <1>8, Zenon DEF Next

\* For any number of keys and concurrent attempts and any lengths: fewer than
\* 2 * MaxFailures passwords are tried in vain on one key within the length of a
\* window (authenticate counts a failure under the lock, after it looked for a
\* lockout again).
THEOREM GuessesStayBounded == Spec => []GuessesBounded
<1>1. GuessInv => GuessesBounded
  BY Zenon DEF GuessInv, Kept, GuessesBounded, Failed, Total, Within
<1>2. Spec => [](Inv /\ GuessInv)
  BY InitInv, NextInv, GuessInit, GuessNext, PTL DEF Spec
<1> QED BY <1>1, <1>2, PTL

-----------------------------------------------------------------------------
(* Entries.                                                                 *)

\* The last Window ticks, and as many before.
Lately(n) == {u \in Time : n - Window + 1 <= u /\ u < n + 1}
Before(n) == {u \in Time : n - 2 * Window + 1 <= u /\ u < n - Window + 1}

\* Where the failures add up to nothing there is none.
LEMMA NoneOf ==
    ASSUME NEW g \in [Time -> Nat], NEW s \in SUBSET Time, Total(g, s) = 0, NEW v \in s
    PROVE  g[v] = 0
<1>1. IsFiniteSet(s) /\ Counts(g, s) /\ Total(g, s \ {v}) \in Nat /\ g[v] \in Nat
  BY Ticks, Zenon
<1>2. Total(g, s) = g[v] + Total(g, s \ {v})
  BY <1>1, TotalRemove, SMTT(30)
<1> QED BY <1>1, <1>2, SMTT(30)

\* What the failures lately of a key that is not locked out add up to.
LEMMA Budget ==
    ASSUME NEW e, NEW g, NEW n, Kept(e, g, n), e = None \/ ~(n < e.until)
    PROVE  /\ Total(g, Lately(n)) <= 2 * (MaxFailures - 1)
           /\ Total(g, Before(n)) = 0 => Total(g, Lately(n)) < MaxFailures
<1>0. /\ n \in Time /\ n \in Nat /\ g \in [Time -> Nat]
      /\ Window \in Nat \ {0} /\ MaxFailures \in Nat \ {0}
      /\ \A u \in Time : u \in Nat
  BY TimeInt, Zenon DEF Kept
<1>1. Lately(n) \in SUBSET Time /\ Before(n) \in SUBSET Time
  BY Zenon DEF Lately, Before
<1>2. Total(g, Lately(n)) \in Nat
  BY <1>0, <1>1, Ticks, Zenon
<1>3. CASE e = None \/ e.count >= MaxFailures
  <2>1. ASSUME NEW u \in Lately(n) PROVE g[u] = 0
    <3>1. u \in Time /\ n - Window + 1 <= u
      BY Zenon DEF Lately
    <3>2. u > n - Window
      BY <1>0, <3>1, SMTT(30)
    <3>3. CASE e = None
      BY <3>1, <3>2, <3>3, Zenon DEF Kept
    <3>4. CASE e # None
      <4>1. Knows(e, g, n) /\ e.until \in Nat
        BY <3>4, Zenon DEF Kept, Knows, Entry
      <4>2. u > e.until - Window
        BY <1>0, <3>1, <3>2, <3>4, <4>1, SMTT(30)
      <4> QED BY <1>3, <3>1, <3>4, <4>1, <4>2, Zenon DEF Knows
    <3> QED BY <3>3, <3>4, Zenon
  <2>2. Total(g, Lately(n)) = 0
    BY <1>1, <2>1, NoneWithin, Zenon
  <2> QED BY <1>0, <2>2, SMTT(30)
<1>4. CASE e # None /\ ~(e.count >= MaxFailures)
  <2> DEFINE t == IF n - Window + 1 >= 0 THEN n - Window + 1 ELSE 0
  <2>1. /\ Knows(e, g, n) /\ e.start \in Time /\ e.start \in Nat /\ e.start <= n /\ e.count \in Nat
        /\ Total(g, Since(e.start)) = e.count
    BY <1>0, <1>4, Zenon DEF Kept, Knows, Entry
  <2>2. t \in Time /\ t \in Nat /\ t + Window > n /\ n - Window + 1 <= t
    BY <1>0, LoginThrottleConstants, SMTT(30) DEF Time
  <2>3. \A u \in Time : n - Window + 1 <= u /\ u < n + 1 => t <= u /\ u < t + Window
    BY <1>0, <2>2, SMTT(30)
  <2> HIDE DEF t
  <2>4. Lately(n) \in SUBSET Within(t)
    BY <2>3, Zenon DEF Lately, Within
  <2>5. /\ Within(t) \in SUBSET Time /\ Earlier(t, e.start) \in SUBSET Time
        /\ IsFiniteSet(Within(t)) /\ Counts(g, Within(t))
        /\ Total(g, Within(t)) \in Nat /\ Total(g, Earlier(t, e.start)) \in Nat
    BY <1>0, Spans, Ticks, Zenon
  <2>6. Total(g, Lately(n)) <= Total(g, Within(t))
    BY <2>4, <2>5, TotalMonotone, Zenon
  <2>7. Total(g, Within(t)) <= Total(g, Earlier(t, e.start)) + Total(g, Since(e.start))
    BY <1>0, <2>1, <2>2, Splits, Zenon
  <2>8. Total(g, Earlier(t, e.start)) < MaxFailures
    <3>1. t + Window > e.start
      BY <1>0, <2>1, <2>2, SMTT(30)
    <3> QED BY <2>1, <2>2, <3>1, Zenon DEF Knows
  <2>9. Total(g, Lately(n)) <= 2 * (MaxFailures - 1)
    BY <1>0, <1>2, <1>4, <2>1, <2>5, <2>6, <2>7, <2>8, SMTT(30)
  <2>10. ASSUME Total(g, Before(n)) = 0 PROVE Total(g, Lately(n)) < MaxFailures
    <3>1. ASSUME NEW u \in Earlier(t, e.start) PROVE g[u] = 0
      <4>1. u \in Time /\ u \in Nat /\ t <= u /\ u < e.start /\ g[u] \in Nat
        BY <1>0, Zenon DEF Earlier
      <4>2. SUFFICES ASSUME g[u] > 0 PROVE FALSE
        BY <4>1, SMTT(30)
      <4>3. e.start - Window < u
        BY <1>0, <2>1, <2>2, <4>1, SMTT(30)
      <4>4. PICK v \in Time : g[v] > 0 /\ u - Window <= v /\ v < e.start - Window
        BY <2>1, <4>1, <4>2, <4>3, Zenon DEF Knows, Chained
      <4>5. n - 2 * Window + 1 <= v /\ v < n - Window + 1
        BY <1>0, <2>1, <2>2, <4>1, <4>4, SMTT(30)
      <4>6. g[v] = 0
        BY <1>0, <1>1, <2>10, <4>5, NoneOf, Zenon DEF Before
      <4> QED BY <4>4, <4>6, SMTT(30)
    <3>2. Total(g, Earlier(t, e.start)) = 0
      BY <2>5, <3>1, NoneWithin, Zenon
    <3> QED BY <1>0, <1>2, <1>4, <2>1, <2>5, <2>6, <2>7, <3>2, SMTT(30)
  <2> QED BY <2>9, <2>10, Zenon
<1> QED BY <1>3, <1>4, Zenon

\* For any number of keys and concurrent attempts and any lengths: whoever gets in
\* has failed fewer than MaxFailures times in the last Window ticks if none failed
\* in as many before, and never more than 2 * (MaxFailures - 1) times
\* (authenticate looks for a lockout again after the verification).
THEOREM EntriesWithinBudget == Spec => EntryWithinBudget
<1> DEFINE Good(a) == LET k == attempt[a].key
                          last == Failed(k, now - Window + 1, now + 1)
                      IN  /\ last <= 2 * (MaxFailures - 1)
                          /\ Failed(k, now - 2 * Window + 1, now - Window + 1) = 0 => last < MaxFailures
           A == \A a \in Attempt : (attempt[a].at = "verify" /\ attempt'[a].at = "accepted") => Good(a)
<1>1. Inv /\ GuessInv /\ [Next]_vars => [A]_vars
  <2> SUFFICES ASSUME Inv, GuessInv, Next, NEW a \in Attempt, attempt[a].at = "verify", attempt'[a].at = "accepted"
               PROVE  Good(a)
    BY Zenon DEF vars
  <2> HIDE DEF Good
  <2>1. ASSUME NEW b \in Attempt, NEW s \in Attempts, Become(b, s), s.at # "accepted" PROVE FALSE
    BY <2>1, Zenon DEF Become, Inv
  <2>2. ~Tick
    BY Zenon DEF Tick
  <2>3. ASSUME NEW b \in Attempt, Accept(b) PROVE Good(a)
    <3>1. b = a
      BY <2>3, Zenon DEF Accept, Become, Inv
    <3> DEFINE k == attempt[a].key
    <3>2. k \in Key
      BY Zenon DEF GuessInv, Placed
    <3>3. Kept(failures[k], guesses[k], now) /\ (failures[k] = None \/ ~(now < failures[k].until))
      BY <2>3, <3>1, <3>2, Zenon DEF Accept, Blocked, GuessInv
    <3>4. /\ Total(guesses[k], Lately(now)) <= 2 * (MaxFailures - 1)
          /\ Total(guesses[k], Before(now)) = 0 => Total(guesses[k], Lately(now)) < MaxFailures
      BY <3>3, Budget, Zenon
    <3> QED BY <3>4, Zenon DEF Good, Failed, Total, Lately, Before
  <2>4. ASSUME NEW b \in Attempt, NEW k \in Key, Arrive(b, k) PROVE FALSE
    BY <2>4, Zenon DEF Arrive, Become, Inv
  <2>5. ASSUME NEW b \in Attempt, Begin(b) \/ Fail(b) \/ Refuse(b) \/ Answer(b) PROVE FALSE
    BY <2>1, <2>5, Stages, Zenon DEF Begin, Fail, Refuse, Answer
  <2> QED BY <2>2, <2>3, <2>4, <2>5, Zenon DEF Next
<1>2. Spec => [](Inv /\ GuessInv)
  BY InitInv, NextInv, GuessInit, GuessNext, PTL DEF Spec
<1> QED BY <1>1, <1>2, PTL DEF Spec, EntryWithinBudget
=============================================================================
