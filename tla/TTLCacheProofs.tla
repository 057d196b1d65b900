--------------------------- MODULE TTLCacheProofs ---------------------------
(***************************************************************************)
(* The cache of src/core/cache/cache.go, for any keys, values, lifetimes   *)
(* and bound: its map and its list name the same keys, it evicts the key   *)
(* that was used least recently, the janitor takes nothing alive, and a    *)
(* caller sees a map that loses keys (LossyMap).                           *)
(*                                                                         *)
(* What orders the list is the history of uses: each key was used after    *)
(* those behind it, which is what passed records of the keys behind.       *)
(***************************************************************************)
EXTENDS TTLCache, ListProofs

Items == [value : Values, exp : Nat]

TypeOK ==
    /\ data \in [Keys -> Items \cup {None}]
    /\ order \in Seq(Keys)
    /\ now \in Nat
    /\ sweep \in Nat \cup {None}
    /\ reply \in Values \cup {None}
    /\ passed \in [Keys -> SUBSET Keys]

\* The list names the cached keys, each once, and is ordered by use.
Listed == ToSet(order) = Cached /\ IsInjective(order)
Recent == \A n, l \in DOMAIN order : n < l => order[n] \in passed[order[l]]

Bounded == MaxEntries > 0 => Cardinality(Cached) <= MaxEntries
FewPassed == \A k \in Keys : IsFiniteSet(passed[k])
ClockRead == sweep # None => sweep <= now

IInv == TypeOK /\ Listed /\ Recent /\ Bounded /\ FewPassed /\ ClockRead

-----------------------------------------------------------------------------
(* The list.                                                               *)

\* The cached keys are as many as the list is long.
LEMMA AsManyAsListed ==
  ASSUME TypeOK, Listed
  PROVE  IsFiniteSet(Cached) /\ Cardinality(Cached) = Len(order)
<1>1. Len(order) \in Nat /\ DOMAIN order = 1 .. Len(order)
  BY DEF TypeOK
<1>2. IsFiniteSet(1 .. Len(order)) /\ Cardinality(1 .. Len(order)) = Len(order)
  BY <1>1, Indices
<1>3. order \in Surjection(1 .. Len(order), Cached) /\ order \in Injection(1 .. Len(order), Cached)
  BY <1>1 DEF TypeOK, Listed, ToSet, IsInjective, Surjection, Injection
<1> QED
  BY <1>2, <1>3, FS_Surjection

\* Taking keys out keeps the others listed, once and in their order.
LEMMA ListWithout ==
  ASSUME TypeOK, Listed, Recent, NEW K
  PROVE  LET t == Keep(order, K)
         IN /\ t \in Seq(Keys)
            /\ ToSet(t) = Cached \cap K /\ IsInjective(t)
            /\ \A n, l \in DOMAIN t : n < l => t[n] \in passed[t[l]]
<1> DEFINE t == Keep(order, K)
           P == KeptAt(order, K)
           from == [n \in DOMAIN t |-> Nth(P, n)]
<1>1. /\ t \in Seq(Keys) /\ from \in [DOMAIN t -> P]
      /\ \A n \in DOMAIN t : t[n] = order[from[n]] /\ t[n] \in K
      /\ \A n, l \in DOMAIN t : n < l => from[n] < from[l]
      /\ \A i \in P : \E n \in DOMAIN t : from[n] = i
  BY Kept DEF TypeOK
<1>2. P = {i \in DOMAIN order : order[i] \in K}
  BY DEF KeptAt
<1> HIDE DEF t, P, from
<1>3. ToSet(t) = Cached \cap K
  <2>1. \A n \in DOMAIN t : t[n] \in Cached \cap K
    BY <1>1, <1>2 DEF Listed, ToSet
  <2>2. ASSUME NEW k \in Cached \cap K PROVE \E n \in DOMAIN t : t[n] = k
    <3>1. PICK i \in DOMAIN order : order[i] = k
      BY DEF Listed, ToSet
    <3> QED
      BY <1>1, <1>2, <3>1
  <2> QED
    BY <2>1, <2>2 DEF ToSet
<1>4. ASSUME NEW n \in DOMAIN t, NEW l \in DOMAIN t, n < l
      PROVE  t[n] \in passed[t[l]] /\ t[n] # t[l]
  <2>1. from[n] \in DOMAIN order /\ from[l] \in DOMAIN order /\ from[n] < from[l]
    BY <1>1, <1>2, <1>4
  <2>2. from[n] # from[l]
    BY <2>1 DEF TypeOK
  <2> QED
    BY <1>1, <2>1, <2>2 DEF Recent, Listed, IsInjective
<1>5. IsInjective(t)
  <2>1. \A n, l \in DOMAIN t : n < l \/ l < n \/ n = l
    BY <1>1
  <2> QED
    BY <1>4, <2>1 DEF IsInjective
<1> QED
  BY <1>1, <1>3, <1>4, <1>5 DEF t

\* A step that takes keys out of the list and the map, and uses none.
LEMMA TakenOut ==
  ASSUME TypeOK, Listed, Recent, NEW K,
         order' = Keep(order, K), Cached' = Cached \cap K, passed' = passed
  PROVE  order' \in Seq(Keys) /\ Listed' /\ Recent'
BY ListWithout DEF Listed, Recent

\* A step that takes keys out and puts the key it uses in front.
LEMMA PutInFront ==
  ASSUME TypeOK, Listed, Recent, NEW K \in SUBSET Keys, NEW k \in Keys, k \notin K,
         order' = <<k>> \o Keep(order, K), Cached' = (Cached \cap K) \cup {k}, Used(k)
  PROVE  order' \in Seq(Keys) /\ Listed' /\ Recent'
<1> DEFINE t == Keep(order, K)
<1>1. /\ t \in Seq(Keys) /\ ToSet(t) = Cached \cap K /\ IsInjective(t)
      /\ \A n, l \in DOMAIN t : n < l => t[n] \in passed[t[l]]
  BY ListWithout
<1> HIDE DEF t
<1>2. /\ order' \in Seq(Keys) /\ Len(t) \in Nat
      /\ DOMAIN t = 1 .. Len(t) /\ DOMAIN order' = 1 .. Len(t) + 1
      /\ order'[1] = k /\ \A n \in 2 .. Len(t) + 1 : n - 1 \in DOMAIN t /\ order'[n] = t[n - 1]
  BY <1>1 DEF t
<1>3. \A n \in DOMAIN t : t[n] \in Cached \cap K /\ t[n] # k /\ n + 1 \in DOMAIN order' /\ order'[n + 1] = t[n]
  <2>1. \A n \in DOMAIN t : t[n] \in Cached \cap K /\ t[n] # k
    BY <1>1 DEF ToSet
  <2> QED
    BY <1>2, <2>1
<1>4. ToSet(order)' = Cached'
  <2>1. \A n \in DOMAIN order' : n = 1 \/ n \in 2 .. Len(t) + 1
    BY <1>2
  <2>2. \A n \in DOMAIN order' : order'[n] \in Cached'
    BY <1>2, <1>3, <2>1
  <2>3. ASSUME NEW j \in Cached' PROVE \E n \in DOMAIN order' : order'[n] = j
    <3>1. CASE j = k
      BY <1>2, <3>1
    <3>2. CASE j \in Cached \cap K
      <4>1. PICK n \in DOMAIN t : t[n] = j
        BY <1>1, <3>2 DEF ToSet
      <4> QED
        <5>1. n + 1 \in DOMAIN order' /\ order'[n + 1] = j
          BY <1>3, <4>1
        <5> QED
          BY <5>1, Zenon
    <3> QED
      BY <3>1, <3>2
  <2>4. ToSet(order)' = {order'[n] : n \in DOMAIN order'}
    BY DEF ToSet
  <2>5. ToSet(order)' \subseteq Cached'
    BY <2>2, <2>4
  <2>6. Cached' \subseteq ToSet(order)'
    BY <2>3, <2>4
  <2> QED
    BY <2>5, <2>6, Zenon
<1>5. IsInjective(order)'
  <2> SUFFICES ASSUME NEW n \in DOMAIN order', NEW l \in DOMAIN order', order'[n] = order'[l]
               PROVE  n = l
    BY DEF IsInjective
  <2>1. CASE n = 1 /\ l = 1
    BY <2>1
  <2>2. CASE n = 1 /\ l \in 2 .. Len(t) + 1
    BY <1>2, <1>3, <2>2
  <2>3. CASE l = 1 /\ n \in 2 .. Len(t) + 1
    BY <1>2, <1>3, <2>3
  <2>4. CASE n \in 2 .. Len(t) + 1 /\ l \in 2 .. Len(t) + 1
    <3>1. n - 1 = l - 1
      BY <1>1, <1>2, <2>4 DEF IsInjective
    <3> QED
      BY <2>4, <3>1
  <2> QED
    BY <1>2, <2>1, <2>2, <2>3, <2>4
<1>6. ASSUME NEW n \in DOMAIN order', NEW l \in DOMAIN order', n < l
      PROVE  order'[n] \in passed'[order'[l]]
  <2>1. l - 1 \in DOMAIN t /\ order'[l] = t[l - 1] /\ (n = 1 \/ n \in 2 .. Len(t) + 1)
    BY <1>2, <1>6
  <2>2. passed'[t[l - 1]] = passed[t[l - 1]] \cup {k}
    <3>1. t[l - 1] \in Keys /\ t[l - 1] # k
      BY <1>3, <2>1 DEF Cached
    <3> QED
      BY <3>1 DEF Used
  <2>3. CASE n = 1
    BY <1>2, <2>1, <2>2, <2>3
  <2>4. CASE n \in 2 .. Len(t) + 1
    <3>1. n - 1 \in DOMAIN t /\ order'[n] = t[n - 1] /\ n - 1 < l - 1
      BY <1>2, <1>6, <2>4
    <3>2. t[n - 1] \in passed[t[l - 1]]
      BY <1>1, <2>1, <3>1
    <3> QED
      BY <2>1, <2>2, <3>1, <3>2
  <2> QED
    BY <2>1, <2>3, <2>4
<1> QED
  BY <1>2, <1>4, <1>5, <1>6 DEF Listed, Recent

-----------------------------------------------------------------------------
(* The steps.                                                              *)

LEMMA InitIInv == Init => IInv
<1> SUFFICES ASSUME Init PROVE IInv
  OBVIOUS
<1>1. order \in Seq(Keys) /\ DOMAIN order = {}
  BY DEF Init
<1>2. Cached = {}
  BY DEF Init, Cached
<1>3. TypeOK
  BY <1>1 DEF Init, TypeOK
<1>4. Listed /\ Recent
  BY <1>1, <1>2 DEF Listed, Recent, ToSet, IsInjective
<1>5. Bounded /\ FewPassed /\ ClockRead
  BY <1>2, FS_EmptySet, CacheBounds DEF Init, Bounded, FewPassed, ClockRead
<1> QED
  BY <1>3, <1>4, <1>5 DEF IInv

\* What a step that takes out keys, uses none and keeps the clock must show.
LEMMA Shrinks ==
  ASSUME IInv, NEW K, data' \in [Keys -> Items \cup {None}],
         order' = Keep(order, K), Cached' = Cached \cap K, passed' = passed,
         reply' \in Values \cup {None}, now' = now, sweep' \in {sweep, None}
  PROVE  IInv'
<1>1. order' \in Seq(Keys) /\ Listed' /\ Recent'
  BY TakenOut DEF IInv
<1>2. TypeOK'
  BY <1>1 DEF IInv, TypeOK
<1>3. Bounded'
  <2>1. IsFiniteSet(Cached) /\ Cardinality(Cached) \in Nat
    BY AsManyAsListed, FS_CardinalityType DEF IInv
  <2>2. Cardinality(Cached') \in Nat /\ Cardinality(Cached') <= Cardinality(Cached)
    BY <2>1, FS_Subset, FS_CardinalityType
  <2> QED
    BY <2>1, <2>2, CacheBounds DEF IInv, Bounded
<1>4. FewPassed' /\ ClockRead'
  BY DEF IInv, FewPassed, ClockRead
<1> QED
  BY <1>1, <1>2, <1>3, <1>4 DEF IInv

\* An entry that is set is none that is missing.
LEMMA ItemsAre ==
  ASSUME TypeOK, NEW v \in Values, NEW ttl \in TTLs
  PROVE  Item(v, ttl) \in Items /\ Item(v, ttl) # None /\ Item(v, ttl).value = v
BY CacheBounds, NoneIsNothing DEF TypeOK, Item, Items

LEMMA UsesAreFew ==
  ASSUME TypeOK, FewPassed, NEW k \in Keys, Used(k)
  PROVE  FewPassed' /\ passed' \in [Keys -> SUBSET Keys]
<1>1. passed \in [Keys -> SUBSET Keys]
  BY DEF TypeOK
<1>2. passed' \in [Keys -> SUBSET Keys]
  BY <1>1 DEF Used
<1>3. FewPassed'
  <2> SUFFICES ASSUME NEW j \in Keys PROVE IsFiniteSet(passed'[j])
    BY DEF FewPassed
  <2>1. passed'[j] = IF j = k THEN {} ELSE passed[j] \cup {k}
    BY DEF Used
  <2>2. IsFiniteSet(passed[j])
    BY DEF FewPassed
  <2>3. IsFiniteSet({}) /\ IsFiniteSet(passed[j] \cup {k})
    BY <2>2, FS_EmptySet, FS_AddElement, Zenon
  <2> QED
    BY <2>1, <2>3
<1> QED
  BY <1>2, <1>3

LEMMA GetStep ==
  ASSUME IInv, NEW k \in Keys, Get(k)
  PROVE  IInv'
<1>1. CASE k \in Cached /\ ~Expired(k, now)
  <2> DEFINE K == Keys \ {k}
  <2>1. /\ data' = data /\ order' = <<k>> \o Keep(order, K) /\ Used(k)
        /\ now' = now /\ sweep' = sweep /\ reply' = data[k].value
    BY <1>1 DEF Get, ToFront
  <2>2. Cached' = (Cached \cap K) \cup {k} /\ Cached' = Cached
    BY <1>1, <2>1 DEF Cached
  <2>3. K \in SUBSET Keys /\ k \notin K
    OBVIOUS
  <2> HIDE DEF K
  <2>4. order' \in Seq(Keys) /\ Listed' /\ Recent'
    BY <2>1, <2>2, <2>3, PutInFront DEF IInv
  <2>5. reply' \in Values
    BY <1>1, <2>1 DEF IInv, TypeOK, Items, Cached
  <2>6. FewPassed' /\ passed' \in [Keys -> SUBSET Keys]
    BY <2>1, UsesAreFew DEF IInv
  <2>7. TypeOK'
    BY <2>1, <2>4, <2>5, <2>6 DEF IInv, TypeOK
  <2> QED
    BY <2>1, <2>2, <2>4, <2>6, <2>7 DEF IInv, Bounded, ClockRead
<1>2. CASE ~(k \in Cached /\ ~Expired(k, now))
  <2>1. /\ data' = [data EXCEPT ![k] = None] /\ order' = Keep(order, Keys \ {k})
        /\ UNCHANGED <<passed, now, sweep>> /\ reply' = None
    BY <1>2 DEF Get
  <2>2. data' \in [Keys -> Items \cup {None}] /\ Cached' = Cached \cap (Keys \ {k})
    BY <2>1 DEF IInv, TypeOK, Cached
  <2> QED
    BY <2>1, <2>2, Shrinks
<1> QED
  BY <1>1, <1>2

LEMMA DeleteStep ==
  ASSUME IInv, NEW k \in Keys, Delete(k)
  PROVE  IInv'
<1>1. data' \in [Keys -> Items \cup {None}] /\ Cached' = Cached \cap (Keys \ {k})
  BY DEF IInv, TypeOK, Cached, Delete
<1> QED
  BY <1>1, Shrinks DEF Delete, IInv, TypeOK

LEMMA SweepStep ==
  ASSUME IInv, Sweep
  PROVE  IInv'
<1> DEFINE K == {k \in Cached : ~Expired(k, sweep)}
<1>1. data' \in [Keys -> Items \cup {None}]
  BY DEF IInv, TypeOK, Sweep
<1>2. Cached' = Cached \cap K
  BY DEF IInv, TypeOK, Cached, Sweep
<1>3. order' = Keep(order, K) /\ UNCHANGED <<passed, now, reply>> /\ sweep' = None
  BY DEF Sweep
<1> HIDE DEF K
<1> QED
  BY <1>1, <1>2, <1>3, Shrinks DEF IInv, TypeOK

LEMMA ClearStep ==
  ASSUME IInv, Clear
  PROVE  IInv'
<1>1. order' \in Seq(Keys) /\ DOMAIN order' = {} /\ Cached' = {}
  BY DEF Clear, Cached
<1>2. TypeOK'
  BY <1>1 DEF IInv, TypeOK, Clear
<1>3. Listed' /\ Recent'
  BY <1>1 DEF Listed, Recent, ToSet, IsInjective
<1>4. Bounded' /\ FewPassed' /\ ClockRead'
  BY <1>1, FS_EmptySet, CacheBounds DEF IInv, Clear, Bounded, FewPassed, ClockRead
<1> QED
  BY <1>2, <1>3, <1>4 DEF IInv

\* A new key takes the place of the last of a full list.
LEMMA SetStep ==
  ASSUME IInv, NEW k \in Keys, NEW v \in Values, NEW ttl \in TTLs, SetWithTTL(k, v, ttl)
  PROVE  IInv'
<1> DEFINE full == k \notin Cached /\ MaxEntries > 0 /\ Cardinality(Cached) >= MaxEntries
           oldest == IF full /\ order # <<>> THEN {Last(order)} ELSE {}
           K == Keys \ ({k} \cup oldest)
<1>1. /\ data' = [j \in Keys |-> IF j = k THEN Item(v, ttl)
                                 ELSE IF j \in oldest THEN None ELSE data[j]]
      /\ order' = <<k>> \o Keep(order, K) /\ Used(k) /\ UNCHANGED <<now, sweep, reply>>
  BY DEF SetWithTTL
<1>2. Item(v, ttl) \in Items /\ Item(v, ttl) # None
  BY ItemsAre DEF IInv
<1>3. IsFiniteSet(Cached) /\ Cardinality(Cached) = Len(order) /\ Len(order) \in Nat
  BY AsManyAsListed DEF IInv, TypeOK
<1>4. full => \E j \in Cached : oldest = {j}
  <2> SUFFICES ASSUME full PROVE \E j \in Cached : oldest = {j}
    OBVIOUS
  <2>1. Len(order) > 0
    BY <1>3, CacheBounds
  <2>2. order # <<>> /\ Last(order) \in ToSet(order)
    BY <1>3, <2>1 DEF IInv, TypeOK, Last, ToSet
  <2> QED
    BY <2>2 DEF IInv, Listed
<1>5. ~full => oldest = {}
  OBVIOUS
<1> HIDE DEF oldest
<1>6. Cached' = (Cached \cap K) \cup {k}
  BY <1>1, <1>2 DEF IInv, TypeOK, Cached
<1>7. K \in SUBSET Keys /\ k \notin K
  OBVIOUS
<1>8. Cached' = (Cached \ oldest) \cup {k}
  BY <1>6 DEF Cached
<1> HIDE DEF K
<1>9. order' \in Seq(Keys) /\ Listed' /\ Recent'
  BY <1>1, <1>6, <1>7, PutInFront DEF IInv
<1>10. FewPassed' /\ passed' \in [Keys -> SUBSET Keys]
  BY <1>1, UsesAreFew DEF IInv
<1>11. TypeOK'
  BY <1>1, <1>2, <1>9, <1>10 DEF IInv, TypeOK
<1>12. Bounded'
  <2> SUFFICES ASSUME MaxEntries > 0 PROVE Cardinality(Cached') <= MaxEntries
    BY DEF Bounded
  <2>1. Cardinality(Cached) <= MaxEntries
    BY DEF IInv, Bounded
  <2>2. CASE k \in Cached
    <3>1. Cached' = Cached
      BY <1>5, <1>8, <2>2
    <3> QED
      BY <2>1, <3>1
  <2>3. CASE k \notin Cached /\ Cardinality(Cached) < MaxEntries
    <3>1. oldest = {}
      BY <1>3, <1>5, <2>3, CacheBounds
    <3>2. Cached' = Cached \cup {k}
      BY <1>8, <3>1
    <3>3. Cardinality(Cached') = Cardinality(Cached) + 1
      BY <1>3, <2>3, <3>2, FS_AddElement
    <3> QED
      BY <1>3, <2>3, <3>3, CacheBounds
  <2>4. CASE k \notin Cached /\ Cardinality(Cached) >= MaxEntries
    <3>1. PICK j \in Cached : oldest = {j}
      BY <1>4, <2>4
    <3>2. IsFiniteSet(Cached \ {j}) /\ Cardinality(Cached \ {j}) = Cardinality(Cached) - 1
      BY <1>3, <3>1, FS_RemoveElement
    <3>3. Cached' = (Cached \ {j}) \cup {k} /\ k \notin Cached \ {j}
      BY <1>8, <2>4, <3>1
    <3>4. Cardinality(Cached') = Cardinality(Cached \ {j}) + 1
      BY <3>2, <3>3, FS_AddElement
    <3> QED
      BY <1>3, <2>1, <3>2, <3>4
  <2> QED
    BY <1>3, <2>2, <2>3, <2>4, CacheBounds
<1> QED
  BY <1>1, <1>9, <1>10, <1>11, <1>12 DEF IInv, ClockRead

LEMMA ClockStep ==
  ASSUME IInv, Tick \/ SweepStart
  PROVE  IInv'
<1>1. UNCHANGED <<data, order, reply, passed>> /\ now' \in Nat /\ now' >= now
      /\ (sweep' = sweep \/ sweep' = now)
  BY DEF Tick, SweepStart, IInv, TypeOK
<1>2. TypeOK'
  BY <1>1 DEF IInv, TypeOK
<1>3. Listed' /\ Recent' /\ Bounded' /\ FewPassed'
  BY <1>1 DEF IInv, Listed, Recent, Bounded, FewPassed, Cached
<1>4. ClockRead'
  <2>1. CASE Tick
    BY <1>1, <2>1 DEF Tick, IInv, TypeOK, ClockRead
  <2>2. CASE SweepStart
    BY <1>1, <2>2 DEF SweepStart, IInv, TypeOK, ClockRead
  <2> QED
    BY <2>1, <2>2
<1> QED
  BY <1>2, <1>3, <1>4 DEF IInv

\* Every step keeps the inductive invariant.
LEMMA NextIInv == IInv /\ [Next]_vars => IInv'
<1> SUFFICES ASSUME IInv, [Next]_vars PROVE IInv'
  OBVIOUS
<1>1. CASE UNCHANGED vars
  BY <1>1 DEF vars, IInv, TypeOK, Listed, Recent, Bounded, FewPassed, ClockRead, Cached
<1>2. CASE Next
  BY <1>2, GetStep, DeleteStep, SetStep, ClearStep, ClockStep, SweepStep DEF Next
<1> QED
  BY <1>1, <1>2

\* Every behaviour satisfies the inductive invariant.
THEOREM Invariance == Spec => []IInv
BY InitIInv, NextIInv, PTL DEF Spec

-----------------------------------------------------------------------------

\* The map and the list never disagree, and the bound is kept: with every
\* method, with expired entries, and with a sweep between any two calls.
THEOREM MapIsList == Spec => []MapAndListAgree
<1>1. IInv => MapAndListAgree
  BY DEF IInv, Listed, Bounded, MapAndListAgree
<1> QED
  BY <1>1, Invariance, PTL

\* The janitor spares what is alive: it reads the clock before it waits for
\* the lock, so the time it compares with is never ahead of the clock.
THEOREM JanitorSparesTheLiving == Spec => SweepSparesTheLiving
<1> DEFINE Spares == \A k \in Cached :
               sweep # None /\ sweep' = None /\ data'[k] = None => Expired(k, now)
<1>1. IInv /\ [Next]_vars => [Spares]_vars
  <2> SUFFICES ASSUME IInv, Next, NEW k \in Cached,
                      sweep # None, sweep' = None, data'[k] = None
               PROVE  Expired(k, now)
    BY DEF vars
  <2>1. Sweep
    BY NoneIsNothing DEF Next, Get, Delete, SetWithTTL, Clear, Tick, SweepStart
  <2>2. Expired(k, sweep)
    BY <2>1 DEF Sweep, Cached
  <2>3. data[k].exp \in Nat /\ sweep \in Nat /\ now \in Nat /\ sweep <= now
    BY DEF IInv, TypeOK, ClockRead, Cached, Items
  <2> QED
    BY <2>2, <2>3 DEF Expired
<1> QED
  BY <1>1, Invariance, PTL DEF Spec, SweepSparesTheLiving

\* A key that the bound evicts stands behind all others in the list: each of
\* them, and the new key, was used after it.
LEMMA EvictedIsOld ==
  ASSUME IInv, NEW k \in Keys, NEW v \in Values, NEW ttl \in TTLs, SetWithTTL(k, v, ttl),
         NEW l \in Cached, data'[l] = None, Cardinality(Cached) = MaxEntries
  PROVE  Cardinality(passed'[l]) >= MaxEntries
<1>1. IsFiniteSet(Cached) /\ Cardinality(Cached) = Len(order) /\ Len(order) \in Nat
  BY AsManyAsListed DEF IInv, TypeOK
<1>2. Item(v, ttl) # None
  BY ItemsAre DEF IInv
<1>3. l # k /\ k \notin Cached /\ order # <<>> /\ l = Last(order)
  BY <1>2 DEF SetWithTTL, Cached
<1>4. /\ DOMAIN order = 1 .. Len(order) /\ Len(order) \in DOMAIN order
      /\ l = order[Len(order)]
  BY <1>1, <1>3 DEF IInv, TypeOK, Last
<1>5. Cached \ {l} \subseteq passed[l]
  <2> SUFFICES ASSUME NEW j \in Cached \ {l} PROVE j \in passed[l]
    OBVIOUS
  <2>1. PICK n \in DOMAIN order : order[n] = j
    BY DEF IInv, Listed, ToSet
  <2>2. n < Len(order)
    BY <1>4, <2>1
  <2> QED
    BY <1>4, <2>1, <2>2 DEF IInv, Recent
<1>6. passed'[l] = passed[l] \cup {k}
  BY <1>3 DEF SetWithTTL, Used, Cached
<1>7. /\ IsFiniteSet(Cached \ {l}) /\ Cardinality(Cached \ {l}) = Cardinality(Cached) - 1
  BY <1>1, FS_RemoveElement
<1>8. Cardinality((Cached \ {l}) \cup {k}) = Cardinality(Cached)
  <2>1. k \notin Cached \ {l}
    BY <1>3
  <2>2. Cardinality((Cached \ {l}) \cup {k}) = Cardinality(Cached \ {l}) + 1
    BY <1>7, <2>1, FS_AddElement
  <2> QED
    BY <1>1, <1>7, <2>2
<1>9. IsFiniteSet(passed'[l])
  <2>1. FewPassed'
    BY UsesAreFew DEF IInv, SetWithTTL
  <2> QED
    BY <2>1 DEF FewPassed, Cached
<1>10. (Cached \ {l}) \cup {k} \in SUBSET passed'[l]
  BY <1>5, <1>6
<1>11. /\ Cardinality((Cached \ {l}) \cup {k}) <= Cardinality(passed'[l])
       /\ Cardinality(passed'[l]) \in Nat
  BY <1>9, <1>10, FS_Subset, FS_CardinalityType
<1> QED
  BY <1>8, <1>11, CacheBounds

\* The bound evicts the least recently used key, lookups being uses: no key
\* goes before as many others as the cache may hold were used after it.
THEOREM LeastRecentGoes == Spec => EvictsTheLeastRecent
<1> DEFINE Evicts == \A k \in Cached :
           data'[k] = None /\ Cardinality(Cached) = MaxEntries
           /\ (\E j \in Keys : data[j] = None /\ data'[j] # None)
           => Cardinality(passed'[k]) >= MaxEntries
<1>1. IInv /\ [Next]_vars => [Evicts]_vars
  <2> SUFFICES ASSUME IInv, Next, NEW l \in Cached, data'[l] = None,
                      Cardinality(Cached) = MaxEntries,
                      NEW j \in Keys, data[j] = None, data'[j] # None
               PROVE  Cardinality(passed'[l]) >= MaxEntries
    BY DEF vars
  <2>1. PICK k \in Keys, v \in Values, ttl \in TTLs : SetWithTTL(k, v, ttl)
    BY DEF Next, Get, Delete, Clear, Tick, SweepStart, Sweep, IInv, TypeOK, Cached
  <2> QED
    BY <2>1, EvictedIsOld
<1> QED
  BY <1>1, Invariance, PTL DEF Spec, EvictsTheLeastRecent

-----------------------------------------------------------------------------
(* What callers see.                                                       *)

Stored == [k \in Keys |-> IF data[k] = None THEN None ELSE data[k].value]

\* A step that takes entries out, and answers no lookup.
LEMMA LosesSome ==
  ASSUME TypeOK, NEW K \in SUBSET Keys, reply' = reply,
         data' = [k \in Keys |-> IF k \in K THEN None ELSE data[k]]
  PROVE  Lossy!Lose
<1>1. Stored' = [k \in Keys |-> IF k \in K THEN None ELSE Stored[k]]
  BY DEF Stored
<1> QED
  BY <1>1 DEF Lossy!Lose, Lossy!Without, Stored

LEMMA GetIsFound ==
  ASSUME TypeOK, NEW k \in Keys, Get(k)
  PROVE  Lossy!Find(k) \/ Lossy!Miss(k)
<1>1. CASE k \in Cached /\ ~Expired(k, now)
  <2>1. reply' = data[k].value /\ data' = data /\ data[k] # None
    BY <1>1 DEF Get, Cached
  <2>2. reply' = Stored[k] /\ Stored' = Stored
    BY <2>1 DEF Stored
  <2> QED
    BY <2>2 DEF Lossy!Find, Stored
<1>2. CASE ~(k \in Cached /\ ~Expired(k, now))
  <2>1. reply' = None /\ data' = [data EXCEPT ![k] = None]
    BY <1>2 DEF Get
  <2>2. Stored' = [j \in Keys |-> IF j \in {k} THEN None ELSE Stored[j]]
    BY <2>1 DEF Stored, TypeOK
  <2> QED
    BY <2>1, <2>2 DEF Lossy!Miss, Lossy!Without, Stored
<1> QED
  BY <1>1, <1>2

LEMMA SetIsPut ==
  ASSUME IInv, NEW k \in Keys, NEW v \in Values, NEW ttl \in TTLs, SetWithTTL(k, v, ttl)
  PROVE  Lossy!Put(k, v)
<1>1. PICK oldest \in SUBSET Keys :
         data' = [j \in Keys |-> IF j = k THEN Item(v, ttl)
                                ELSE IF j \in oldest THEN None ELSE data[j]]
  <2>1. order # <<>> => Last(order) \in Keys
    BY DEF IInv, TypeOK, Last
  <2> QED
    BY <2>1 DEF SetWithTTL
<1>2. Item(v, ttl) # None /\ Item(v, ttl).value = v
  BY ItemsAre DEF IInv
<1> DEFINE lost == oldest \ {k}
<1>3. Stored' = [[j \in Keys |-> IF j \in lost THEN None ELSE Stored[j]] EXCEPT ![k] = v]
  BY <1>1, <1>2 DEF Stored
<1>4. lost \in SUBSET (Keys \ {k}) /\ reply' = reply
  BY DEF SetWithTTL
<1> QED
  BY <1>3, <1>4 DEF Lossy!Put, Lossy!Without, Stored

LEMMA StepIsLossy == IInv /\ [Next]_vars => [Lossy!LNext]_(Lossy!lvars)
<1> SUFFICES ASSUME IInv, [Next]_vars PROVE [Lossy!LNext]_(Lossy!lvars)
  OBVIOUS
<1> USE DEF IInv, TypeOK
<1>1. CASE UNCHANGED <<data, reply>>
  BY <1>1 DEF Lossy!lvars
<1>2. ASSUME NEW k \in Keys, Get(k) PROVE Lossy!LNext
  BY <1>2, GetIsFound DEF Lossy!LNext
<1>3. ASSUME NEW k \in Keys, Delete(k) PROVE Lossy!LNext
  <2>1. reply' = reply /\ data' = [j \in Keys |-> IF j \in {k} THEN None ELSE data[j]]
    BY <1>3 DEF Delete
  <2>2. {k} \in SUBSET Keys
    OBVIOUS
  <2> QED
    BY <2>1, <2>2, LosesSome DEF Lossy!LNext
<1>4. ASSUME NEW k \in Keys, NEW v \in Values, NEW ttl \in TTLs, SetWithTTL(k, v, ttl)
      PROVE  Lossy!LNext
  BY <1>4, SetIsPut DEF Lossy!LNext
<1>5. CASE Clear
  <2>1. reply' = reply /\ data' = [j \in Keys |-> IF j \in Keys THEN None ELSE data[j]]
    BY <1>5 DEF Clear
  <2> QED
    BY <2>1, LosesSome DEF Lossy!LNext
<1>6. CASE Sweep
  <2> DEFINE K == {j \in Cached : Expired(j, sweep)}
  <2>1. reply' = reply /\ data' = [j \in Keys |-> IF j \in K THEN None ELSE data[j]]
    BY <1>6 DEF Sweep
  <2>2. K \in SUBSET Keys
    BY DEF Cached
  <2> QED
    BY <2>1, <2>2, LosesSome DEF Lossy!LNext
<1> QED
  BY <1>1, <1>2, <1>3, <1>4, <1>5, <1>6 DEF Next, vars, Tick, SweepStart

\* The cache is a map that loses keys and never mixes values up: a lookup
\* finds what was last set for its key, or nothing.
THEOREM CacheIsALossyMap == Spec => LossySpec
<1>1. Init => Lossy!LInit
  BY DEF Init, Lossy!LInit
<1> QED
  BY <1>1, StepIsLossy, Invariance, PTL DEF Spec, LossySpec, Lossy!LSpec
=============================================================================
