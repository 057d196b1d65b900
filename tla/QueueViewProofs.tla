--------------------------- MODULE QueueViewProofs ---------------------------
(***************************************************************************)
(* The queue viewer: pages shown are true and buttons act on the track     *)
(* they were drawn for, for any number of goroutines, tracks, sorts and    *)
(* filters, and pages of any size.                                         *)
(*                                                                         *)
(* The cache of pages compares a fingerprint of three parts.  It is enough *)
(* because of what happens to a queue between two invalidations: tracks    *)
(* leave it and later ones are added behind.  A page kept was rendered     *)
(* from a queue that the queue of now descends from in this way, and a     *)
(* queue of the same length that keeps its head and its last track has     *)
(* then kept them all.  Whoever reorders the queue invalidates, and until  *)
(* it has done so nothing that is looked up counts as true.                *)
(*                                                                         *)
(* A button holds an index.  As long as no other goroutine changes what it *)
(* was drawn from, the index leads to the track at every step.             *)
(***************************************************************************)
EXTENDS QueueView, ListProofs

-----------------------------------------------------------------------------
(* Queues: sequences of tracks, none of which is there twice.               *)

Distinct(q) == q \in Seq(Tracks) /\ \A i, j \in DOMAIN q : q[i] = q[j] => i = j
Members(q) == {q[i] : i \in DOMAIN q}

\* What is left of q0, in its order, with later tracks behind it.
Descends(q, q0) ==
    \A i, j \in DOMAIN q, l \in DOMAIN q0 :
        i < j /\ q0[l] = q[j] => \E k \in DOMAIN q0 : k < l /\ q0[k] = q[i]

\* The id of what was added since is not that of the last track.
LastIsNotBack(q, q0) ==
    q0 # <<>> => \A i \in DOMAIN q : q[i] \notin Members(q0) => TrackId[q[i]] # TrackId[q0[Len(q0)]]

\* q0 is what q was when n tracks or fewer had been added.
Ancestor(q0, q, n) ==
    Distinct(q0) /\ Members(q0) \subseteq 1 .. n /\ Descends(q, q0) /\ LastIsNotBack(q, q0)

LEMMA QueueFacts ==
  ASSUME NEW q, Distinct(q)
  PROVE  /\ Len(q) \in Nat /\ DOMAIN q = 1 .. Len(q) /\ \A i \in 1 .. Len(q) : q[i] \in Tracks
         /\ Len(q) = 0 <=> q = <<>>
         /\ Len(q) <= MaxTracks
<1>1. /\ Len(q) \in Nat /\ DOMAIN q = 1 .. Len(q) /\ \A i \in 1 .. Len(q) : q[i] \in Tracks
      /\ Len(q) = 0 <=> q = <<>>
  BY DEF Distinct
<1>2. MaxTracks \in Nat
  BY Parameters
<1>3. /\ IsFiniteSet(1 .. Len(q)) /\ Cardinality(1 .. Len(q)) = Len(q)
      /\ IsFiniteSet(Tracks) /\ Cardinality(Tracks) = MaxTracks
  BY <1>1, <1>2, Indices DEF Tracks
<1>4. q \in Injection(1 .. Len(q), Tracks)
  BY <1>1 DEF Distinct, Injection, IsInjective
<1>5. Len(q) <= MaxTracks
  BY <1>3, <1>4, FS_Injection
<1> QED
  BY <1>1, <1>5

LEMMA NoTracks == Distinct(<<>>) /\ Members(<<>>) = {} /\ Len(<<>>) = 0
<1>1. <<>> \in Seq(Tracks) /\ DOMAIN <<>> = {} /\ Len(<<>>) = 0
  OBVIOUS
<1> QED
  BY <1>1 DEF Distinct, Members

\* Queues rearranged, or what is left of them.
LEMMA ThroughIsQueue ==
  ASSUME NEW q, Distinct(q), NEW n \in Nat, NEW m \in [1 .. n -> 1 .. Len(q)],
         \A i, j \in 1 .. n : m[i] = m[j] => i = j
  PROVE  LET r == Through(q, m)
         IN /\ Distinct(r) /\ Members(r) \subseteq Members(q) /\ Len(r) = n
            /\ \A i \in 1 .. n : r[i] = q[m[i]]
<1> DEFINE r == Through(q, m)
<1>1. Len(q) \in Nat /\ DOMAIN q = 1 .. Len(q) /\ \A i \in 1 .. Len(q) : q[i] \in Tracks
  BY QueueFacts
<1>2. r = [i \in 1 .. n |-> q[m[i]]]
  BY DEF Through
<1> HIDE DEF r
<1>3. r \in [1 .. n -> Tracks] /\ \A i \in 1 .. n : r[i] = q[m[i]] /\ m[i] \in DOMAIN q
  BY <1>1, <1>2
<1>4. r \in Seq(Tracks) /\ Len(r) = n /\ DOMAIN r = 1 .. n
  BY <1>3
<1>5. \A i, j \in 1 .. n : r[i] = r[j] => i = j
  BY <1>1, <1>3 DEF Distinct
<1>6. Members(r) \subseteq Members(q)
  BY <1>3, <1>4 DEF Members
<1> QED
  BY <1>3, <1>4, <1>5, <1>6 DEF r, Distinct

LEMMA LeavesAncestor ==
  ASSUME NEW q, Distinct(q), NEW n \in Nat, NEW m \in [1 .. n -> 1 .. Len(q)],
         \A i, j \in 1 .. n : i < j => m[i] < m[j],
         NEW q0, NEW top, Ancestor(q0, q, top)
  PROVE  Ancestor(q0, Through(q, m), top)
<1> DEFINE r == Through(q, m)
<1>1. DOMAIN q = 1 .. Len(q)
  BY QueueFacts
<1>2. DOMAIN r = 1 .. n /\ \A i \in 1 .. n : r[i] = q[m[i]]
  BY DEF Through
<1> HIDE DEF r
<1>3. Descends(r, q0)
  <2> SUFFICES ASSUME NEW i \in 1 .. n, NEW j \in 1 .. n, NEW l \in DOMAIN q0, i < j, q0[l] = r[j]
               PROVE  \E k \in DOMAIN q0 : k < l /\ q0[k] = r[i]
    BY <1>2 DEF Descends
  <2>1. m[i] \in DOMAIN q /\ m[j] \in DOMAIN q /\ m[i] < m[j] /\ r[i] = q[m[i]] /\ q0[l] = q[m[j]]
    BY <1>1, <1>2
  <2> QED
    BY <2>1 DEF Ancestor, Descends
<1>4. LastIsNotBack(r, q0)
  <2> SUFFICES ASSUME q0 # <<>>, NEW i \in 1 .. n, r[i] \notin Members(q0)
               PROVE  TrackId[r[i]] # TrackId[q0[Len(q0)]]
    BY <1>2 DEF LastIsNotBack
  <2>1. m[i] \in DOMAIN q /\ r[i] = q[m[i]]
    BY <1>1, <1>2
  <2> QED
    BY <2>1 DEF Ancestor, LastIsNotBack
<1> QED
  BY <1>3, <1>4 DEF Ancestor, r

\* Removing a track, at the head or elsewhere, and leaving the queue as it is.
Leaves(r, q) ==
    /\ Distinct(r) /\ Members(r) \subseteq Members(q)
    /\ \A q0, top : Ancestor(q0, q, top) => Ancestor(q0, r, top)

LEMMA AfterRemovalFacts ==
  ASSUME NEW n \in Nat, NEW i \in Nat, i < n
  PROVE  /\ n - 1 \in Nat /\ AfterRemoval(n, i) \in [1 .. (n - 1) -> 1 .. n]
         /\ \A k \in 1 .. (n - 1) : AfterRemoval(n, i)[k] = IF k <= i THEN k ELSE k + 1
         /\ \A k, l \in 1 .. (n - 1) : AfterRemoval(n, i)[k] = AfterRemoval(n, i)[l] => k = l
         /\ \A k, l \in 1 .. (n - 1) : k < l => AfterRemoval(n, i)[k] < AfterRemoval(n, i)[l]
<1> DEFINE m == AfterRemoval(n, i)
<1>1. m = [k \in 1 .. (n - 1) |-> IF k <= i THEN k ELSE k + 1]
  BY DEF AfterRemoval
<1> HIDE DEF m
<1>2. \A k \in 1 .. (n - 1) : m[k] = IF k <= i THEN k ELSE k + 1
  BY <1>1
<1>3. \A k \in 1 .. (n - 1) : (IF k <= i THEN k ELSE k + 1) \in 1 .. n
  OBVIOUS
<1>4. m \in [1 .. (n - 1) -> 1 .. n] /\ n - 1 \in Nat
  BY <1>1, <1>3
<1>5. \A k, l \in 1 .. (n - 1) : m[k] = m[l] => k = l
  BY <1>2
<1>6. \A k, l \in 1 .. (n - 1) : k < l => m[k] < m[l]
  BY <1>2
<1> QED
  BY <1>2, <1>4, <1>5, <1>6 DEF m

LEMMA RemovalLeaves ==
  ASSUME NEW q, Distinct(q), NEW i \in Nat, i < Len(q)
  PROVE  /\ Leaves(RemoveIndex(q, i), q)
         /\ Len(RemoveIndex(q, i)) = Len(q) - 1
         /\ q[i + 1] \notin Members(RemoveIndex(q, i))
<1> DEFINE n == Len(q)
           m == AfterRemoval(n, i)
           r == RemoveIndex(q, i)
<1>1. q \in Seq(Tracks) /\ n \in Nat /\ DOMAIN q = 1 .. n /\ r = Through(q, m)
  BY QueueFacts, RemoveIsThrough DEF Distinct
<1> HIDE DEF n, r
<1>2. /\ n - 1 \in Nat /\ m \in [1 .. (n - 1) -> 1 .. n]
      /\ \A k \in 1 .. (n - 1) : m[k] = IF k <= i THEN k ELSE k + 1
      /\ \A k, l \in 1 .. (n - 1) : m[k] = m[l] => k = l
      /\ \A k, l \in 1 .. (n - 1) : k < l => m[k] < m[l]
  BY <1>1, AfterRemovalFacts DEF n
<1> HIDE DEF m
<1>3. /\ Distinct(r) /\ Members(r) \subseteq Members(q) /\ Len(r) = n - 1
      /\ \A k \in 1 .. (n - 1) : r[k] = q[m[k]]
  <2> DEFINE c == n - 1
  <2>1. /\ c \in Nat /\ m \in [1 .. c -> 1 .. Len(q)]
        /\ \A k, l \in 1 .. c : m[k] = m[l] => k = l
    BY <1>2 DEF n
  <2> HIDE DEF c
  <2>2. /\ Distinct(Through(q, m)) /\ Members(Through(q, m)) \subseteq Members(q)
        /\ Len(Through(q, m)) = c /\ \A k \in 1 .. c : Through(q, m)[k] = q[m[k]]
    BY <2>1, ThroughIsQueue, SMTT(30)
  <2> QED
    BY <1>1, <2>2 DEF c
<1>4. \A q0, top : Ancestor(q0, q, top) => Ancestor(q0, r, top)
  BY <1>1, <1>2, LeavesAncestor DEF n
<1>5. q[i + 1] \notin Members(r)
  <2> SUFFICES ASSUME NEW k \in DOMAIN r, r[k] = q[i + 1] PROVE FALSE
    BY DEF Members
  <2>1. k \in 1 .. (n - 1) /\ m[k] \in 1 .. n /\ q[m[k]] = q[i + 1] /\ i + 1 \in 1 .. n
    BY <1>1, <1>2, <1>3, QueueFacts DEF n
  <2>2. m[k] = i + 1
    BY <1>1, <2>1 DEF Distinct
  <2> QED
    BY <1>2, <2>1, <2>2
<1> QED
  BY <1>3, <1>4, <1>5 DEF Leaves, n, r

LEMMA SameLeaves == ASSUME NEW q, Distinct(q) PROVE Leaves(q, q)
  BY DEF Leaves

LEMMA NothingLeaves == ASSUME NEW q, Distinct(q) PROVE Leaves(<<>>, q)
  BY NoTracks DEF Leaves, Ancestor, Descends, LastIsNotBack

LEMMA CurrentLeaves ==
  ASSUME NEW q, Distinct(q)
  PROVE  /\ Leaves(RemoveCurrent(q), q)
         /\ Len(q) > 1 => RemoveCurrent(q) # <<>> /\ Head(RemoveCurrent(q)) = q[2]
<1>1. CASE q = <<>>
  BY <1>1, SameLeaves, NoTracks DEF RemoveCurrent
<1>2. CASE q # <<>>
  <2>1. q \in Seq(Tracks) /\ Len(q) \in Nat /\ 0 < Len(q)
    BY <1>2, QueueFacts DEF Distinct
  <2>2. RemoveCurrent(q) = Through(q, AfterRemoval(Len(q), 0))
        /\ RemoveIndex(q, 0) = Through(q, AfterRemoval(Len(q), 0))
    BY <2>1, RemoveCurrentIsThrough, RemoveIsThrough
  <2>3. Leaves(RemoveCurrent(q), q)
    BY <2>1, <2>2, RemovalLeaves
  <2>4. ASSUME Len(q) > 1 PROVE RemoveCurrent(q) # <<>> /\ Head(RemoveCurrent(q)) = q[2]
    <3>1. RemoveCurrent(q) = Tail(q)
      BY <1>2 DEF RemoveCurrent
    <3>2. Tail(q) \in Seq(Tracks) /\ Len(Tail(q)) > 0 /\ Tail(q)[1] = q[2]
      BY <1>2, <2>1, <2>4, HeadTailProperties
    <3>3. Tail(q) # <<>> /\ Head(Tail(q)) = Tail(q)[1]
      BY <3>2
    <3> QED
      BY <3>1, <3>2, <3>3
  <2> QED
    BY <2>3, <2>4
<1> QED
  BY <1>1, <1>2

\* A track that was never there comes last, under an id that is not that of the
\* last track there was.
LEMMA EnqueueFacts ==
  ASSUME NEW q, Distinct(q), NEW n \in Nat, Members(q) \subseteq 1 .. n, n + 1 \in Tracks
  PROVE  LET r == Enqueue(q, <<n + 1>>)
         IN /\ Distinct(r) /\ Members(r) \subseteq 1 .. (n + 1)
            /\ \A q0 : Ancestor(q0, q, n) /\ (q0 # <<>> => TrackId[n + 1] # TrackId[q0[Len(q0)]])
                       => Ancestor(q0, r, n + 1)
<1> DEFINE r == Enqueue(q, <<n + 1>>)
           c == Len(q)
<1>1. q \in Seq(Tracks) /\ c \in Nat /\ DOMAIN q = 1 .. c /\ \A i \in 1 .. c : q[i] \in Tracks
  BY QueueFacts DEF Distinct
<1>2. r = q \o <<n + 1>>
  BY DEF Enqueue
<1>3. <<n + 1>> \in Seq(Tracks) /\ Len(<<n + 1>>) = 1 /\ <<n + 1>>[1] = n + 1
  OBVIOUS
<1> HIDE DEF r
<1>4. /\ r \in Seq(Tracks) /\ Len(r) = c + 1 /\ DOMAIN r = 1 .. (c + 1)
      /\ \A i \in 1 .. (c + 1) : r[i] = IF i <= c THEN q[i] ELSE n + 1
  <2>1. /\ r \in Seq(Tracks) /\ Len(r) = c + 1
        /\ \A i \in 1 .. (c + 1) : r[i] = IF i <= c THEN q[i] ELSE <<n + 1>>[i - c]
    BY <1>1, <1>2, <1>3, ConcatProperties
  <2>2. \A i \in 1 .. (c + 1) : ~(i <= c) => i - c = 1
    BY <1>1
  <2> QED
    BY <1>3, <2>1, <2>2
<1> HIDE DEF c
<1>5. \A i \in 1 .. c : q[i] \in 1 .. n
  BY <1>1 DEF Members
<1>6. \A i \in 1 .. (c + 1) : r[i] \in 1 .. (n + 1) /\ (i <= c => r[i] \in 1 .. n)
  <2> SUFFICES ASSUME NEW i \in 1 .. (c + 1)
               PROVE  r[i] \in 1 .. (n + 1) /\ (i <= c => r[i] \in 1 .. n)
    OBVIOUS
  <2>1. CASE i <= c
    BY <1>1, <1>4, <1>5, <2>1
  <2>2. CASE ~(i <= c)
    BY <1>1, <1>4, <2>2
  <2> QED
    BY <2>1, <2>2
<1>7. \A i, j \in 1 .. (c + 1) : r[i] = r[j] => i = j
  <2> SUFFICES ASSUME NEW i \in 1 .. (c + 1), NEW j \in 1 .. (c + 1), r[i] = r[j] PROVE i = j
    OBVIOUS
  <2>1. CASE i <= c /\ j <= c
    <3>1. i \in 1 .. c /\ j \in 1 .. c /\ q[i] = q[j]
      BY <1>1, <1>4, <2>1
    <3> QED
      BY <1>1, <3>1 DEF Distinct
  <2>2. CASE ~(i <= c /\ j <= c)
    BY <1>1, <1>4, <1>6, <2>2
  <2> QED
    BY <2>1, <2>2
<1>8. Distinct(r) /\ Members(r) \subseteq 1 .. (n + 1)
  BY <1>4, <1>6, <1>7 DEF Distinct, Members
<1>9. ASSUME NEW q0, Ancestor(q0, q, n), q0 # <<>> => TrackId[n + 1] # TrackId[q0[Len(q0)]]
      PROVE  Ancestor(q0, r, n + 1)
  <2>1. Members(q0) \subseteq 1 .. n /\ Members(q0) \subseteq 1 .. (n + 1) /\ Distinct(q0)
    BY <1>9 DEF Ancestor
  <2>2. Descends(r, q0)
    <3> SUFFICES ASSUME NEW i \in 1 .. (c + 1), NEW j \in 1 .. (c + 1), NEW l \in DOMAIN q0,
                        i < j, q0[l] = r[j]
                 PROVE  \E k \in DOMAIN q0 : k < l /\ q0[k] = r[i]
      BY <1>4 DEF Descends
    <3>1. q0[l] \in 1 .. n
      BY <2>1 DEF Members
    <3>2. r[j] # n + 1
      BY <3>1
    <3>3. i \in 1 .. c /\ j \in 1 .. c /\ r[i] = q[i] /\ q0[l] = q[j]
      BY <1>1, <1>4, <3>2
    <3>4. Descends(q, q0)
      BY <1>9 DEF Ancestor
    <3> QED
      BY <1>1, <3>3, <3>4 DEF Descends
  <2>3. LastIsNotBack(r, q0)
    <3> SUFFICES ASSUME q0 # <<>>, NEW i \in 1 .. (c + 1), r[i] \notin Members(q0)
                 PROVE  TrackId[r[i]] # TrackId[q0[Len(q0)]]
      BY <1>4 DEF LastIsNotBack
    <3>1. CASE i <= c
      <4>1. i \in DOMAIN q /\ r[i] = q[i]
        BY <1>1, <1>4, <3>1
      <4> QED
        BY <1>9, <4>1 DEF Ancestor, LastIsNotBack
    <3>2. CASE ~(i <= c)
      BY <1>4, <1>9, <3>2
    <3> QED
      BY <3>1, <3>2
  <2> QED
    BY <2>1, <2>2, <2>3 DEF Ancestor
<1> QED
  BY <1>8, <1>9 DEF r

LEMMA OwnAncestor ==
  ASSUME NEW q, Distinct(q), NEW n, Members(q) \subseteq 1 .. n
  PROVE  Ancestor(q, q, n)
<1>1. \A l, j \in DOMAIN q : q[l] = q[j] => l = j
  BY DEF Distinct
<1>2. Descends(q, q)
  BY <1>1 DEF Descends
<1>3. LastIsNotBack(q, q)
  BY DEF LastIsNotBack, Members
<1> QED
  BY <1>2, <1>3 DEF Ancestor

-----------------------------------------------------------------------------
(* The fingerprint: although it has three parts only, and these are ids, it  *)
(* tells a queue from every queue that it descends from, unless the last id  *)
(* was added again.                                                          *)

\* Numbers in order, each within 1 .. n, leave no room.
LEMMA IncreasingIsIdentity ==
  ASSUME NEW n \in Nat, NEW f \in [1 .. n -> 1 .. n],
         \A i, j \in 1 .. n : i < j => f[i] < f[j]
  PROVE  \A i \in 1 .. n : f[i] = i
<1> SUFFICES ASSUME NEW i \in 1 .. n PROVE f[i] = i
  OBVIOUS
<1>1. \A j \in 1 .. n : f[j] \in 1 .. n
  OBVIOUS
<1>2. \A j, l \in 1 .. n : f[j] = f[l] => j = l
  <2> SUFFICES ASSUME NEW j \in 1 .. n, NEW l \in 1 .. n, f[j] = f[l], j # l PROVE FALSE
    OBVIOUS
  <2>1. j < l \/ l < j
    OBVIOUS
  <2> QED
    BY <1>1, <2>1
<1> PICK t : t = f[i]
  OBVIOUS
<1>3. t \in 1 .. n /\ i \in 1 .. n
  BY <1>1
<1>4. i <= t
  <2> DEFINE g == [j \in 1 .. i |-> f[j]]
  <2>1. \A j \in 1 .. i : j \in 1 .. n /\ f[j] \in 1 .. t
    <3> SUFFICES ASSUME NEW j \in 1 .. i PROVE j \in 1 .. n /\ f[j] \in 1 .. t
      OBVIOUS
    <3>1. j \in 1 .. n /\ (j < i \/ j = i)
      OBVIOUS
    <3>2. f[j] <= f[i] /\ f[j] \in 1 .. n
      BY <1>1, <3>1
    <3> QED
      BY <1>3, <3>1, <3>2
  <2>2. g \in Injection(1 .. i, 1 .. t)
    BY <1>2, <2>1 DEF Injection, IsInjective
  <2>3. /\ IsFiniteSet(1 .. i) /\ Cardinality(1 .. i) = i
        /\ IsFiniteSet(1 .. t) /\ Cardinality(1 .. t) = t
    BY <1>3, Indices
  <2> HIDE DEF g
  <2> QED
    BY <2>2, <2>3, FS_Injection
<1>5. t <= i
  <2> DEFINE g == [j \in i .. n |-> f[j]]
  <2>1. \A j \in i .. n : j \in 1 .. n /\ f[j] \in t .. n
    <3> SUFFICES ASSUME NEW j \in i .. n PROVE j \in 1 .. n /\ f[j] \in t .. n
      OBVIOUS
    <3>1. j \in 1 .. n /\ (i < j \/ j = i)
      OBVIOUS
    <3>2. f[i] <= f[j] /\ f[j] \in 1 .. n
      BY <1>1, <3>1
    <3> QED
      BY <1>3, <3>1, <3>2
  <2>2. g \in Injection(i .. n, t .. n)
    BY <1>2, <2>1 DEF Injection, IsInjective
  <2>3. /\ IsFiniteSet(i .. n) /\ Cardinality(i .. n) = n - i + 1
        /\ IsFiniteSet(t .. n) /\ Cardinality(t .. n) = n - t + 1
    BY <1>3, FS_Interval
  <2> HIDE DEF g
  <2>4. n - i + 1 <= n - t + 1
    BY <2>2, <2>3, FS_Injection
  <2> QED
    BY <1>3, <2>4
<1> QED
  BY <1>3, <1>4, <1>5

\* A queue that only lost tracks and got later ones, none of which has the id of
\* the last it had, has another fingerprint than it had, unless it is what it was
\* (queueHash, checkHash).  Other ids may be there twice or come back.
THEOREM SameHash ==
  ASSUME NEW q, Distinct(q), NEW q0, NEW n, Ancestor(q0, q, n), QueueHash(q) = QueueHash(q0)
  PROVE  q = q0
<1>1. /\ Distinct(q0) /\ Len(q) \in Nat /\ Len(q0) \in Nat
      /\ DOMAIN q = 1 .. Len(q) /\ DOMAIN q0 = 1 .. Len(q0)
      /\ (Len(q) = 0 <=> q = <<>>) /\ (Len(q0) = 0 <=> q0 = <<>>)
  BY QueueFacts DEF Ancestor
<1>2. CASE q = <<>> \/ q0 = <<>>
  BY <1>1, <1>2 DEF QueueHash
<1>3. CASE q # <<>> /\ q0 # <<>>
  <2> PICK c : c = Len(q)
    OBVIOUS
  <2>1. c = Len(q) /\ c = Len(q0) /\ TrackId[q[c]] = TrackId[q0[c]] /\ c \in Nat /\ c > 0
    BY <1>1, <1>3 DEF QueueHash
  <2>2. \A i \in 1 .. c : \E k \in 1 .. c : q0[k] = q[i]
    <3> SUFFICES ASSUME NEW i \in 1 .. c PROVE \E k \in 1 .. c : q0[k] = q[i]
      OBVIOUS
    <3>0. PICK l \in DOMAIN q0 : q0[l] = q[c]
      <4>1. q[c] \in Members(q0)
        BY <1>1, <1>3, <2>1 DEF Ancestor, LastIsNotBack
      <4> QED
        BY <4>1 DEF Members
    <3>1. CASE i = c
      BY <1>1, <2>1, <3>0, <3>1
    <3>2. CASE i # c
      <4>1. i \in DOMAIN q /\ c \in DOMAIN q /\ i < c
        BY <1>1, <2>1, <3>2
      <4>2. \E k \in DOMAIN q0 : k < l /\ q0[k] = q[i]
        BY <3>0, <4>1 DEF Ancestor, Descends
      <4> QED
        BY <1>1, <2>1, <4>2
    <3> QED
      BY <3>1, <3>2
  <2> DEFINE f == [i \in 1 .. c |-> CHOOSE k \in 1 .. c : q0[k] = q[i]]
  <2>3. \A i \in 1 .. c : f[i] \in 1 .. c /\ q0[f[i]] = q[i]
    BY <2>2
  <2>4. f \in [1 .. c -> 1 .. c]
    BY <2>3
  <2> HIDE DEF f
  <2>5. \A i, j \in 1 .. c : i < j => f[i] < f[j]
    <3> SUFFICES ASSUME NEW i \in 1 .. c, NEW j \in 1 .. c, i < j PROVE f[i] < f[j]
      OBVIOUS
    <3>1. i \in DOMAIN q /\ j \in DOMAIN q /\ f[j] \in DOMAIN q0 /\ q0[f[j]] = q[j]
      BY <1>1, <2>1, <2>3
    <3>2. PICK k \in DOMAIN q0 : k < f[j] /\ q0[k] = q[i]
      BY <3>1 DEF Ancestor, Descends
    <3>3. k = f[i]
      BY <1>1, <2>1, <2>3, <3>2 DEF Distinct
    <3> QED
      BY <3>2, <3>3
  <2>6. \A i \in 1 .. c : f[i] = i
    BY <2>1, <2>4, <2>5, IncreasingIsIdentity
  <2>7. \A i \in 1 .. c : q[i] = q0[i]
    BY <2>3, <2>6
  <2>8. q \in Seq(Tracks) /\ q0 \in Seq(Tracks) /\ Len(q) = Len(q0) /\ \A i \in 1 .. Len(q) : q[i] = q0[i]
    BY <1>1, <2>1, <2>7 DEF Distinct
  <2> QED
    BY <2>8, SeqEqual
<1> QED
  BY <1>2, <1>3

-----------------------------------------------------------------------------
(* What the buttons make of a queue.                                         *)

LEMMA TrimmedQueue ==
  ASSUME NEW q, Distinct(q), NEW n \in Nat \ {0}, n < Len(q)
  PROVE  LET r == TrimBefore(q, n)
         IN /\ Distinct(r) /\ Members(r) \subseteq Members(q)
            /\ Len(r) > 1 /\ r[2] = q[n + 1]
<1>1. q \in Seq(Tracks) /\ Len(q) \in Nat
  BY QueueFacts DEF Distinct
<1>2. CASE n = 1
  BY <1>1, <1>2 DEF TrimBefore
<1>3. CASE n > 1
  <2> DEFINE m == AfterTrim(Len(q), n)
             c == Len(q) - n + 1
  <2>1. TrimBefore(q, n) = Through(q, m)
    BY <1>1, <1>3, TrimIsThrough
  <2>2. m = [k \in 1 .. c |-> IF k = 1 THEN 1 ELSE n + k - 1]
    BY DEF AfterTrim
  <2>3. c \in Nat /\ c > 1 /\ \A k \in 1 .. c : (IF k = 1 THEN 1 ELSE n + k - 1) \in 1 .. Len(q)
    BY <1>1, <1>3
  <2> HIDE DEF m, c
  <2>4. m \in [1 .. c -> 1 .. Len(q)] /\ m[2] = n + 1
    <3>1. 2 \in 1 .. c /\ n + 2 - 1 = n + 1
      BY <2>3
    <3> QED
      BY <2>2, <2>3, <3>1
  <2>5. \A i, j \in 1 .. c : m[i] = m[j] => i = j
    BY <1>3, <2>2
  <2>6. /\ Distinct(Through(q, m)) /\ Members(Through(q, m)) \subseteq Members(q)
        /\ Len(Through(q, m)) = c /\ \A i \in 1 .. c : Through(q, m)[i] = q[m[i]]
    BY <2>3, <2>4, <2>5, ThroughIsQueue, SMTT(30)
  <2>7. 2 \in 1 .. c
    BY <2>3
  <2> QED
    BY <2>1, <2>3, <2>4, <2>6, <2>7
<1> QED
  BY <1>2, <1>3

LEMMA MovedQueue ==
  ASSUME NEW q, Distinct(q), NEW n \in Nat, NEW to \in Nat, CanMove(q, n, to)
  PROVE  LET r == Moved(q, n, to)
         IN /\ Distinct(r) /\ Members(r) \subseteq Members(q)
            /\ to < Len(r) /\ r[to + 1] = q[n + 1]
<1>1. q \in Seq(Tracks) /\ Len(q) \in Nat /\ n < Len(q) /\ to < Len(q) /\ n > 0 /\ to > 0
  BY QueueFacts DEF Distinct, CanMove
<1> DEFINE m == AfterMove(Len(q), n, to)
           c == Len(q)
           at(k) == IF k = to + 1 THEN n + 1
                    ELSE IF n < to /\ k \in (n + 1) .. to THEN k + 1
                    ELSE IF to < n /\ k \in (to + 2) .. (n + 1) THEN k - 1
                    ELSE k
<1>2. Moved(q, n, to) = Through(q, m)
  BY <1>1, MoveIsThrough
<1>3. m = [k \in 1 .. c |-> at(k)]
  BY DEF AfterMove
<1>4. c \in Nat /\ c = Len(q) /\ n < c /\ to < c
  BY <1>1
<1> HIDE DEF m, c
<1>5. \A k \in 1 .. c : at(k) \in 1 .. c
  BY <1>1, <1>4
<1>6. m \in [1 .. c -> 1 .. Len(q)] /\ \A k \in 1 .. c : m[k] = at(k)
  BY <1>3, <1>4, <1>5
<1>7. m[to + 1] = n + 1 /\ to + 1 \in 1 .. c
  BY <1>1, <1>4, <1>6
<1>8. \A i, j \in 1 .. c : at(i) = at(j) => i = j
  BY <1>1, <1>4
<1>9. \A i, j \in 1 .. c : m[i] = m[j] => i = j
  <2> HIDE DEF at
  <2> QED
    BY <1>6, <1>8
<1>10. /\ Distinct(Through(q, m)) /\ Members(Through(q, m)) \subseteq Members(q)
       /\ Len(Through(q, m)) = c /\ \A i \in 1 .. c : Through(q, m)[i] = q[m[i]]
  <2>1. m \in [1 .. c -> 1 .. Len(q)]
    BY <1>6
  <2> QED
    BY <1>4, <1>9, <2>1, ThroughIsQueue, SMTT(30)
<1> QED
  BY <1>2, <1>4, <1>7, <1>10

LEMMA ReversedQueue ==
  ASSUME NEW q, Distinct(q)
  PROVE  Distinct(ReverseUpNext(q)) /\ Members(ReverseUpNext(q)) \subseteq Members(q)
<1>1. q \in Seq(Tracks) /\ Len(q) \in Nat
  BY QueueFacts DEF Distinct
<1>2. CASE ~(Len(q) > 2)
  BY <1>2 DEF ReverseUpNext
<1>3. CASE Len(q) > 2
  <2> DEFINE m == AfterReverse(Len(q))
             c == Len(q)
  <2>1. ReverseUpNext(q) = Through(q, m)
    BY <1>1, <1>3, ReverseIsThrough
  <2>2. m = [k \in 1 .. c |-> IF k = 1 THEN 1 ELSE c + 2 - k]
    BY DEF AfterReverse
  <2>3. c \in Nat /\ c = Len(q) /\ \A k \in 1 .. c : (IF k = 1 THEN 1 ELSE c + 2 - k) \in 1 .. c
    BY <1>1, <1>3
  <2> HIDE DEF m, c
  <2>4. m \in [1 .. c -> 1 .. Len(q)]
    BY <2>2, <2>3
  <2>5. \A i, j \in 1 .. c : m[i] = m[j] => i = j
    BY <2>2, <2>3
  <2>6. Distinct(Through(q, m)) /\ Members(Through(q, m)) \subseteq Members(q)
    BY <2>3, <2>4, <2>5, ThroughIsQueue
  <2> QED
    BY <2>1, <2>6
<1> QED
  BY <1>2, <1>3

LEMMA ShuffledQueue ==
  ASSUME NEW q, Distinct(q), NEW r \in Shuffles(q)
  PROVE  Distinct(r) /\ Members(r) \subseteq Members(q)
<1>1. q \in Seq(Tracks) /\ Len(q) \in Nat
  BY QueueFacts DEF Distinct
<1>2. CASE ~(Len(q) > 2)
  BY <1>2 DEF Shuffles
<1>3. CASE Len(q) > 2
  <2> PICK c : c = Len(q)
    OBVIOUS
  <2>1. PICK p \in Injection(1 .. (c - 1), 2 .. c) : r = <<q[1]>> \o [i \in 1 .. (c - 1) |-> q[p[i]]]
    BY <1>3 DEF Shuffles
  <2>2. /\ c \in Nat /\ c > 2 /\ p \in [1 .. (c - 1) -> 2 .. c]
        /\ \A i, j \in 1 .. (c - 1) : p[i] = p[j] => i = j
    BY <1>1, <1>3 DEF Injection, IsInjective
  <2> DEFINE u == <<q[1]>>
             v == [i \in 1 .. (c - 1) |-> q[p[i]]]
             m == [k \in 1 .. c |-> IF k = 1 THEN 1 ELSE p[k - 1]]
  <2>3. u \in Seq(Tracks) /\ Len(u) = 1 /\ u[1] = q[1]
    BY <1>1, <1>3, ElementOfSeq
  <2>4. v \in Seq(Tracks) /\ Len(v) = c - 1 /\ \A i \in 1 .. (c - 1) : v[i] = q[p[i]]
    <3>1. \A i \in 1 .. (c - 1) : p[i] \in 1 .. Len(q)
      <4>1. \A i \in 1 .. (c - 1) : p[i] \in 2 .. c
        BY <2>2
      <4>2. \A x \in 2 .. c : x \in 1 .. Len(q)
        BY <2>2
      <4> QED
        BY <4>1, <4>2, Zenon
    <3>2. v \in [1 .. (c - 1) -> Tracks] /\ c - 1 \in Nat
      BY <1>1, <2>2, <3>1, ElementOfSeq
    <3> QED
      BY <3>2
  <2>5. \A k \in 1 .. c : m[k] = IF k = 1 THEN 1 ELSE p[k - 1]
    OBVIOUS
  <2>6. \A k \in 1 .. c : k # 1 => k - 1 \in 1 .. (c - 1) /\ p[k - 1] \in 2 .. c
    <3>1. \A k \in 1 .. c : k # 1 => k - 1 \in 1 .. (c - 1)
      BY <2>2
    <3>2. \A i \in 1 .. (c - 1) : p[i] \in 2 .. c
      BY <2>2
    <3> QED
      BY <3>1, <3>2, Zenon
  <2>7. m \in [1 .. c -> 1 .. Len(q)]
    <3>1. \A k \in 1 .. c : (IF k = 1 THEN 1 ELSE p[k - 1]) \in 1 .. Len(q)
      BY <2>2, <2>6
    <3> QED
      BY <3>1
  <2> HIDE DEF u, v, m
  <2>8. \A i, j \in 1 .. c : m[i] = m[j] => i = j
    <3> SUFFICES ASSUME NEW i \in 1 .. c, NEW j \in 1 .. c, m[i] = m[j] PROVE i = j
      OBVIOUS
    <3>1. CASE i = 1 \/ j = 1
      BY <2>5, <2>6, <3>1
    <3>2. CASE i # 1 /\ j # 1
      <4>1. i - 1 = j - 1
        BY <2>2, <2>5, <2>6, <3>2
      <4> QED
        BY <4>1
    <3> QED
      BY <3>1, <3>2
  <2>9. Joins(u, v, q, m)
    <3>1. DOMAIN m = 1 .. (Len(u) + Len(v))
      BY <2>2, <2>3, <2>4, <2>7
    <3>2. \A k \in 1 .. Len(u) : u[k] = q[m[k]]
      BY <2>2, <2>3, <2>5
    <3>3. \A k \in 1 .. (c - 1) : 1 + k \in 1 .. c /\ 1 + k # 1 /\ (1 + k) - 1 = k
      BY <2>2
    <3>4. \A k \in 1 .. Len(v) : v[k] = q[m[Len(u) + k]]
      BY <2>3, <2>4, <2>5, <3>3
    <3> QED
      BY <3>1, <3>2, <3>4 DEF Joins
  <2>10. r = Through(q, m)
    BY <2>1, <2>3, <2>4, <2>9, JoinIsThrough DEF u, v
  <2>11. Distinct(Through(q, m)) /\ Members(Through(q, m)) \subseteq Members(q)
    BY <2>2, <2>7, <2>8, ThroughIsQueue
  <2> QED
    BY <2>10, <2>11
<1> QED
  BY <1>2, <1>3

-----------------------------------------------------------------------------
(* Views.  Of what a view shows, what is up next in it is up next in the     *)
(* queue.                                                                    *)

IsView(v, q) ==
    /\ v \in Seq(Tracks) /\ Len(v) <= Len(q)
    /\ \A i \in DOMAIN v : i > 1 => \E j \in DOMAIN q : j > 1 /\ v[i] = q[j]

LEMMA HeadAndRest ==
  ASSUME NEW q \in Seq(Tracks), q # <<>>, NEW w \in Seq(Tracks), Len(w) < Len(q),
         \A i \in DOMAIN w : \E j \in DOMAIN q : j > 1 /\ w[i] = q[j]
  PROVE  IsView(<<q[1]>> \o w, q)
<1> DEFINE v == <<q[1]>> \o w
<1>1. <<q[1]>> \in Seq(Tracks) /\ Len(<<q[1]>>) = 1 /\ Len(w) \in Nat /\ DOMAIN w = 1 .. Len(w)
  OBVIOUS
<1>2. /\ v \in Seq(Tracks) /\ Len(v) = 1 + Len(w)
      /\ \A i \in 1 .. (1 + Len(w)) : v[i] = IF i <= 1 THEN <<q[1]>>[i] ELSE w[i - 1]
  BY <1>1, ConcatProperties
<1> HIDE DEF v
<1>3. Len(v) <= Len(q) /\ DOMAIN v = 1 .. (1 + Len(w))
  BY <1>1, <1>2
<1>4. ASSUME NEW i \in DOMAIN v, i > 1
      PROVE  \E j \in DOMAIN q : j > 1 /\ v[i] = q[j]
  <2>1. i - 1 \in DOMAIN w /\ v[i] = w[i - 1]
    BY <1>1, <1>2, <1>3, <1>4
  <2> QED
    BY <2>1
<1> QED
  BY <1>2, <1>3, <1>4 DEF IsView, v

\* The order by which a stable sort lines up the tracks of a queue.
LEMMA BeforeFacts ==
  ASSUME NEW t, Distinct(t), NEW s \in Sorts, NEW i \in DOMAIN t, NEW j \in DOMAIN t
  PROVE  /\ SortKey[s][t[i]] \in Int /\ SortKey[s][t[j]] \in Int
         /\ Before(s, t, t[i], t[j]) <=>
                \/ SortKey[s][t[i]] < SortKey[s][t[j]]
                \/ SortKey[s][t[i]] = SortKey[s][t[j]] /\ i < j
<1>1. t[i] \in Tracks /\ t[j] \in Tracks /\ \A k, l \in DOMAIN t : t[k] = t[l] => k = l
  BY QueueFacts DEF Distinct
<1>2. SortKey \in [Sorts -> [Tracks -> Int]]
  BY Parameters
<1>3. SortKey[s][t[i]] \in Int /\ SortKey[s][t[j]] \in Int
  BY <1>1, <1>2
<1>4. (\E k, l \in DOMAIN t : k < l /\ t[k] = t[i] /\ t[l] = t[j]) <=> i < j
  BY <1>1
<1> QED
  BY <1>3, <1>4 DEF Before

LEMMA SortedFacts ==
  ASSUME NEW t, Distinct(t), NEW s \in Sorts
  PROVE  /\ Sorted(t, s) \in Seq(Tracks) /\ Len(Sorted(t, s)) = Len(t)
         /\ \A i \in DOMAIN Sorted(t, s) : \E j \in DOMAIN t : Sorted(t, s)[i] = t[j]
<1>1. Len(t) \in Nat /\ DOMAIN t = 1 .. Len(t) /\ \A i \in 1 .. Len(t) : t[i] \in Tracks
  BY QueueFacts
<1> PICK n : n = Len(t)
  OBVIOUS
<1> PICK T : T = ToSet(t)
  OBVIOUS
<1>2. n \in Nat /\ DOMAIN t = 1 .. n /\ T = {t[i] : i \in 1 .. n}
  BY <1>1 DEF ToSet
<1>3. IsFiniteSet(T)
  <2> DEFINE F == [i \in 1 .. n |-> t[i]]
  <2>1. IsFiniteSet(1 .. n)
    BY <1>2, Indices
  <2>2. F \in Surjection(1 .. n, T)
    BY <1>2 DEF Surjection
  <2> HIDE DEF F
  <2> QED
    BY <2>1, <2>2, FS_Surjection
<1>4. Cardinality(T) \in Nat /\ Cardinality(T) <= n
  <2> DEFINE F == [i \in 1 .. n |-> t[i]]
  <2>1. IsFiniteSet(1 .. n) /\ Cardinality(1 .. n) = n
    BY <1>2, Indices
  <2>2. F \in Surjection(1 .. n, T)
    BY <1>2 DEF Surjection
  <2> HIDE DEF F
  <2>3. Cardinality(T) <= Cardinality(1 .. n)
    BY <2>1, <2>2, FS_Surjection
  <2> QED
    BY <1>3, <2>1, <2>3, FS_CardinalityType
<1> DEFINE B(u) == {v \in T : Before(s, t, v, u)}
           c(u) == Cardinality(B(u))
<1>5. ASSUME NEW i \in 1 .. n
      PROVE  c(t[i]) \in 0 .. (n - 1) /\ IsFiniteSet(B(t[i]))
  <2>1. ~Before(s, t, t[i], t[i]) /\ t[i] \in T
    BY <1>2, BeforeFacts
  <2>2. B(t[i]) \in SUBSET T /\ B(t[i]) # T
    BY <2>1
  <2>3. IsFiniteSet(B(t[i])) /\ c(t[i]) <= Cardinality(T) /\ c(t[i]) # Cardinality(T)
    BY <1>3, <2>2, FS_Subset
  <2>4. c(t[i]) \in Nat
    BY <2>3, FS_CardinalityType
  <2> QED
    BY <1>2, <1>4, <2>3, <2>4
<1>6. ASSUME NEW i \in 1 .. n, NEW j \in 1 .. n, Before(s, t, t[i], t[j])
      PROVE  c(t[i]) # c(t[j])
  <2>1. ASSUME NEW k \in 1 .. n, Before(s, t, t[k], t[i]) PROVE Before(s, t, t[k], t[j])
    <3> PICK x, y, z : x = SortKey[s][t[k]] /\ y = SortKey[s][t[i]] /\ z = SortKey[s][t[j]]
      OBVIOUS
    <3>1. x \in Int /\ y \in Int /\ z \in Int
      BY <1>2, BeforeFacts
    <3>2. x < y \/ (x = y /\ k < i)
      BY <1>2, <2>1, BeforeFacts
    <3>3. y < z \/ (y = z /\ i < j)
      BY <1>2, <1>6, BeforeFacts
    <3>4. x < z \/ (x = z /\ k < j)
      BY <3>1, <3>2, <3>3
    <3> QED
      BY <1>2, <3>4, BeforeFacts
  <2>2. B(t[i]) \in SUBSET B(t[j])
    BY <1>2, <2>1
  <2>3. t[i] \in B(t[j]) /\ t[i] \notin B(t[i])
    BY <1>2, <1>6, BeforeFacts
  <2>4. B(t[i]) # B(t[j])
    BY <2>3
  <2> QED
    BY <1>5, <2>2, <2>4, FS_Subset
<1> DEFINE f == [i \in 1 .. n |-> c(t[i])]
<1>7. f \in Injection(1 .. n, 0 .. (n - 1))
  <2>1. f \in [1 .. n -> 0 .. (n - 1)]
    BY <1>5
  <2>2. ASSUME NEW i \in 1 .. n, NEW j \in 1 .. n, i # j PROVE f[i] # f[j]
    <3>1. Before(s, t, t[i], t[j]) \/ Before(s, t, t[j], t[i])
      <4> PICK x, y : x = SortKey[s][t[i]] /\ y = SortKey[s][t[j]]
        OBVIOUS
      <4>1. x \in Int /\ y \in Int
        BY <1>2, BeforeFacts
      <4>2. (x < y \/ (x = y /\ i < j)) \/ (y < x \/ (y = x /\ j < i))
        BY <2>2, <4>1
      <4> QED
        BY <1>2, <4>2, BeforeFacts
    <3>2. c(t[i]) # c(t[j])
      BY <1>6, <3>1
    <3> QED
      BY <3>2
  <2> HIDE DEF f
  <2> QED
    BY <2>1, <2>2 DEF Injection, IsInjective
<1>8. f \in Surjection(1 .. n, 0 .. (n - 1))
  <2>1. IsFiniteSet(1 .. n) /\ Cardinality(1 .. n) = n
    BY <1>2, Indices
  <2>2. IsFiniteSet(0 .. (n - 1)) /\ Cardinality(0 .. (n - 1)) = n
    <3>1. 0 \in Int /\ n - 1 \in Int
      BY <1>2
    <3>2. /\ IsFiniteSet(0 .. (n - 1))
          /\ Cardinality(0 .. (n - 1)) = IF 0 > n - 1 THEN 0 ELSE (n - 1) - 0 + 1
      BY <3>1, FS_Interval
    <3> QED
      BY <1>2, <3>2
  <2> HIDE DEF f
  <2> QED
    BY <1>7, <2>1, <2>2, FS_Injection
<1>9. \A i \in 1 .. n : \E j \in 1 .. n : c(t[j]) = i - 1
  <2> SUFFICES ASSUME NEW i \in 1 .. n PROVE \E j \in 1 .. n : c(t[j]) = i - 1
    OBVIOUS
  <2>1. i - 1 \in 0 .. (n - 1)
    BY <1>2
  <2>2. \E j \in 1 .. n : f[j] = i - 1
    <3> HIDE DEF f
    <3> QED
      BY <1>8, <2>1 DEF Surjection
  <2> QED
    BY <2>2
<1> DEFINE r == Sorted(t, s)
<1>10. r = [i \in 1 .. n |-> CHOOSE u \in T : c(u) = i - 1]
  BY <1>2 DEF Sorted
<1>11. \A i \in 1 .. n : \E u \in T : c(u) = i - 1
  BY <1>2, <1>9
<1> HIDE DEF r, c
<1>12. \A i \in 1 .. n : r[i] \in T
  BY <1>10, <1>11
<1>13. r \in [1 .. n -> Tracks] /\ DOMAIN r = 1 .. n
  <2>1. \A i \in 1 .. n : r[i] \in Tracks
    BY <1>1, <1>2, <1>12
  <2> QED
    BY <1>10, <2>1
<1>14. r \in Seq(Tracks) /\ Len(r) = n
  BY <1>2, <1>13
<1> QED
  BY <1>2, <1>12, <1>13, <1>14 DEF r

LEMMA UpNext ==
  ASSUME NEW q, Distinct(q), q # <<>>
  PROVE  /\ Distinct(Tail(q)) /\ Tail(q) \in Seq(Tracks) /\ Len(Tail(q)) = Len(q) - 1
         /\ \A i \in DOMAIN Tail(q) : i + 1 \in DOMAIN q /\ i + 1 > 1 /\ Tail(q)[i] = q[i + 1]
<1>1. q \in Seq(Tracks) /\ Len(q) \in Nat /\ DOMAIN q = 1 .. Len(q)
  BY QueueFacts DEF Distinct
<1>2. Distinct(Tail(q))
  BY CurrentLeaves DEF Leaves, RemoveCurrent
<1>3. /\ Tail(q) \in Seq(Tracks) /\ Len(Tail(q)) = Len(q) - 1
      /\ \A i \in 1 .. Len(Tail(q)) : Tail(q)[i] = q[i + 1]
  BY <1>1, HeadTailProperties
<1>4. DOMAIN Tail(q) = 1 .. (Len(q) - 1)
  BY <1>3
<1> QED
  BY <1>1, <1>2, <1>3, <1>4

LEMMA SortIsView ==
  ASSUME NEW q, Distinct(q), NEW s \in Sorts
  PROVE  IsView(ApplySort(q, s), q)
<1>1. q \in Seq(Tracks) /\ Len(q) \in Nat
  BY QueueFacts DEF Distinct
<1>2. IsView(q, q)
  BY <1>1 DEF IsView
<1>3. CASE ~(Len(q) > 1) \/ s = SortDefault \/ s = "old"
  <2>1. Len(q) <= 1 \/ s \in {SortDefault, "old"}
    BY <1>1, <1>3
  <2>2. ~(Len(q) > 1 /\ s = "new")
    BY <1>3, Zenon DEF SortDefault
  <2>3. ApplySort(q, s) = q
    BY <2>1, <2>2, Zenon DEF ApplySort
  <2> QED
    BY <1>2, <2>3
<1>4. CASE Len(q) > 1 /\ s = "new"
  <2> DEFINE w == Reverse(Tail(q))
  <2>1. q # <<>> /\ Len(Tail(q)) = Len(q) - 1 /\ Tail(q) \in Seq(Tracks)
        /\ \A i \in DOMAIN Tail(q) : i + 1 \in DOMAIN q /\ i + 1 > 1 /\ Tail(q)[i] = q[i + 1]
    BY <1>1, <1>4, UpNext
  <2> PICK n : n = Len(q) - 1
    OBVIOUS
  <2> PICK t : t = Tail(q)
    OBVIOUS
  <2>2. w = [i \in 1 .. n |-> t[(n - i) + 1]]
    BY <2>1 DEF Reverse
  <2>3. \A i \in 1 .. n : (n - i) + 1 \in DOMAIN t
    BY <1>1, <1>4, <2>1
  <2> HIDE DEF w
  <2>4. w \in [1 .. n -> Tracks] /\ n \in Nat
    <3>1. \A i \in DOMAIN t : t[i] \in Tracks
      BY <2>1
    <3> QED
      BY <1>1, <1>4, <2>2, <2>3, <3>1
  <2>5. w \in Seq(Tracks) /\ Len(w) = n /\ DOMAIN w = 1 .. n
    BY <2>4
  <2>6. \A i \in DOMAIN w : \E j \in DOMAIN q : j > 1 /\ w[i] = q[j]
    BY <2>1, <2>2, <2>3, <2>5
  <2>7. IsView(<<q[1]>> \o w, q)
    BY <1>1, <2>1, <2>5, <2>6, HeadAndRest
  <2>8. ApplySort(q, s) = <<q[1]>> \o w
    BY <1>1, <1>4 DEF ApplySort, w
  <2> QED
    BY <2>7, <2>8
<1>5. CASE Len(q) > 1 /\ s # SortDefault /\ s # "old" /\ s # "new"
  <2> DEFINE w == Sorted(Tail(q), s)
  <2>1. /\ q # <<>> /\ Distinct(Tail(q)) /\ Len(Tail(q)) = Len(q) - 1
        /\ \A i \in DOMAIN Tail(q) : i + 1 \in DOMAIN q /\ i + 1 > 1 /\ Tail(q)[i] = q[i + 1]
    <3>1. Len(q) > 1 /\ Len(q) \in Nat /\ q # <<>>
      BY <1>1, <1>5
    <3> QED
      BY <3>1, UpNext
  <2>2. /\ w \in Seq(Tracks) /\ Len(w) = Len(Tail(q))
        /\ \A i \in DOMAIN w : \E j \in DOMAIN Tail(q) : w[i] = Tail(q)[j]
    BY <2>1, SortedFacts
  <2> HIDE DEF w
  <2>3. \A i \in DOMAIN w : \E j \in DOMAIN q : j > 1 /\ w[i] = q[j]
    BY <2>1, <2>2
  <2>4. IsView(<<q[1]>> \o w, q)
    <3>1. Len(w) < Len(q)
      BY <1>1, <2>1, <2>2
    <3> QED
      BY <1>1, <2>1, <2>2, <2>3, <3>1, HeadAndRest
  <2>5. ApplySort(q, s) = <<q[1]>> \o w
    <3>1. ~(Len(q) <= 1)
      BY <1>1, <1>5
    <3> QED
      BY <1>5, <3>1, Zenon DEF ApplySort, w
  <2> QED
    BY <2>4, <2>5
<1> QED
  BY <1>1, <1>3, <1>4, <1>5

LEMMA ViewFacts ==
  ASSUME NEW q, Distinct(q), NEW s \in Sorts, NEW f
  PROVE  IsView(View(q, s, f), q) /\ View(q, s, f) \in Seq(Tracks) /\ Len(View(q, s, f)) \in Nat
         /\ Len(View(q, s, f)) <= MaxTracks
<1> DEFINE v == ApplySort(q, s)
<1>1. IsView(v, q) /\ v \in Seq(Tracks) /\ Len(v) \in Nat /\ DOMAIN v = 1 .. Len(v)
  BY SortIsView DEF IsView
<1> HIDE DEF v
<1>2. IsView(ApplyFilter(v, f), q)
  <2>1. CASE v = <<>> \/ f = FilterAll
    BY <1>1, <2>1 DEF ApplyFilter
  <2>2. CASE v # <<>> /\ f # FilterAll
    <3> DEFINE t == Tail(v)
               w == Keep(t, Passes[f])
    <3>1. /\ t \in Seq(Tracks) /\ Len(t) = Len(v) - 1
          /\ \A i \in 1 .. Len(t) : t[i] = v[i + 1]
      BY <1>1, <2>2, HeadTailProperties
    <3> HIDE DEF t
    <3>2. /\ w \in Seq(Tracks) /\ Len(w) <= Len(t)
          /\ \A i \in DOMAIN w : \E j \in DOMAIN t : w[i] = t[j]
      <4> DEFINE from == [n \in DOMAIN w |-> Nth(KeptAt(t, Passes[f]), n)]
      <4>1. /\ w \in Seq(Tracks) /\ Len(w) <= Len(t) /\ from \in [DOMAIN w -> KeptAt(t, Passes[f])]
            /\ \A n \in DOMAIN w : w[n] = t[from[n]]
        BY <3>1, Kept
      <4> HIDE DEF w, from
      <4>2. \A n \in DOMAIN w : from[n] \in DOMAIN t
        BY <4>1 DEF KeptAt
      <4> QED
        BY <4>1, <4>2
    <3> HIDE DEF w
    <3>3. ASSUME NEW i \in DOMAIN w PROVE \E j \in DOMAIN v : j > 1 /\ w[i] = v[j]
      <4>1. PICK j \in DOMAIN t : w[i] = t[j]
        BY <3>2
      <4>2. j \in 1 .. Len(t) /\ j + 1 \in DOMAIN v /\ j + 1 > 1 /\ t[j] = v[j + 1]
        BY <1>1, <3>1
      <4> QED
        BY <4>1, <4>2
    <3>4. IsView(<<v[1]>> \o w, v)
      <4>1. Len(w) \in Nat /\ Len(w) < Len(v)
        BY <1>1, <3>1, <3>2
      <4> QED
        BY <1>1, <2>2, <3>2, <3>3, <4>1, HeadAndRest
    <3>5. IsView(<<v[1]>> \o w, q)
      <4> PICK x : x = <<v[1]>> \o w
        OBVIOUS
      <4>1. x \in Seq(Tracks) /\ Len(x) \in Nat /\ Len(x) <= Len(v) /\ Len(v) <= Len(q) /\ Len(q) \in Nat
        BY <1>1, <3>4, QueueFacts DEF IsView
      <4>2. \A i \in DOMAIN x : i > 1 => \E j \in DOMAIN q : j > 1 /\ x[i] = q[j]
        <5>1. \A i \in DOMAIN x : i > 1 => \E j \in DOMAIN v : j > 1 /\ x[i] = v[j]
          BY <3>4 DEF IsView
        <5>2. \A j \in DOMAIN v : j > 1 => \E k \in DOMAIN q : k > 1 /\ v[j] = q[k]
          BY <1>1 DEF IsView
        <5> QED
          BY <5>1, <5>2
      <4> QED
        BY <4>1, <4>2 DEF IsView
    <3>6. ApplyFilter(v, f) = <<v[1]>> \o w
      BY <2>2 DEF ApplyFilter, t, w
    <3> QED
      BY <3>5, <3>6
  <2> QED
    BY <2>1, <2>2
<1>3. IsView(View(q, s, f), q)
  BY <1>2 DEF View, v
<1>4. Len(q) \in Nat /\ Len(q) <= MaxTracks /\ MaxTracks \in Nat
  BY QueueFacts, Parameters
<1> QED
  BY <1>3, <1>4 DEF IsView

-----------------------------------------------------------------------------
(* Pages.                                                                    *)

LEMMA Quotients ==
  ASSUME NEW a \in Nat, NEW b \in Nat, NEW d \in Nat \ {0}
  PROVE  /\ a \div d \in Nat
         /\ a <= b => a \div d <= b \div d
         /\ d * (a \div d) <= a /\ a < d * (a \div d) + d
<1> PICK x : x = a \div d
  OBVIOUS
<1> PICK y : y = b \div d
  OBVIOUS
<1>1. x \in Int /\ d * x <= a /\ a < d * (x + 1)
  OBVIOUS
<1>2. y \in Int /\ d * y <= b /\ b < d * (y + 1)
  OBVIOUS
<1>3. x >= 0
  BY <1>1
<1>4. a <= b => x <= y
  BY <1>1, <1>2
<1>5. d * (x + 1) = d * x + d
  BY <1>1
<1> QED
  BY <1>1, <1>3, <1>4, <1>5

LEMMA Products ==
  ASSUME NEW a \in Nat, NEW b \in Nat, NEW d \in Nat, a <= b
  PROVE  a * d <= b * d /\ a * d \in Nat /\ b * d \in Nat
<1> PICK k : k = b - a
  OBVIOUS
<1>1. k \in Nat /\ b = a + k
  OBVIOUS
<1>2. a * d \in Nat /\ k * d \in Nat
  BY <1>1
<1>3. (a + k) * d = a * d + k * d
  BY <1>1
<1> QED
  BY <1>1, <1>2, <1>3

LEMMA PageCounts ==
  ASSUME NEW n \in Nat
  PROVE  /\ PageCount(n) \in Nat /\ (PageCount(n) = 0 <=> n = 0)
         /\ n <= MaxTracks => PageCount(n) <= MaxPage
         /\ n <= PageCount(n) * PageSize + 1
         /\ MaxPage \in Nat \ {0}
<1>1. /\ PageSize \in Nat /\ PageSize > 0 /\ PageSize \in Nat \ {0}
      /\ MaxTracks \in Nat /\ MaxTracks > 1
  BY Parameters
<1> DEFINE up(k) == k - 1 + PageSize - 1
<1>2. ASSUME NEW k \in Nat, k > 1
      PROVE  /\ PageCount(k) = up(k) \div PageSize
             /\ PageCount(k) \in Nat /\ PageCount(k) > 0 /\ k <= PageCount(k) * PageSize + 1
  <2> PICK u : u = up(k)
    OBVIOUS
  <2> PICK x : x = u \div PageSize
    OBVIOUS
  <2>1. PageCount(k) = x /\ up(k) \div PageSize = x
    BY <1>2 DEF PageCount
  <2>2. u \in Nat /\ u >= PageSize /\ u = k + PageSize - 2
    BY <1>1, <1>2
  <2>3. x \in Nat /\ PageSize * x <= u /\ u < PageSize * x + PageSize
    BY <1>1, <2>2, Quotients
  <2>4. x # 0
    BY <1>1, <2>2, <2>3
  <2> PICK z : z = PageSize * x
    OBVIOUS
  <2>5. z \in Int /\ x * PageSize = z
    BY <1>1, <2>3
  <2>6. k <= z + 1
    BY <1>1, <1>2, <2>2, <2>3, <2>5
  <2> QED
    BY <2>1, <2>3, <2>4, <2>5, <2>6
<1>3. PageCount(0) = 0 /\ PageCount(1) = 1
  BY DEF PageCount
<1>4. MaxPage = up(MaxTracks) \div PageSize /\ MaxPage \in Nat /\ MaxPage > 0
  BY <1>1, <1>2 DEF MaxPage
<1>5. CASE n > 1
  <2>1. ASSUME n <= MaxTracks PROVE PageCount(n) <= MaxPage
    <3>1. up(n) \in Nat /\ up(MaxTracks) \in Nat /\ up(n) <= up(MaxTracks)
      BY <1>1, <1>5, <2>1
    <3> HIDE DEF up
    <3>2. up(n) \div PageSize <= up(MaxTracks) \div PageSize
      BY <1>1, <3>1, Quotients
    <3> QED
      BY <1>2, <1>4, <1>5, <3>2
  <2> QED
    BY <1>2, <1>4, <1>5, <2>1
<1>6. CASE n = 1
  BY <1>1, <1>3, <1>4, <1>6
<1>7. CASE n = 0
  <2>1. 0 * PageSize = 0
    BY <1>1
  <2> QED
    BY <1>1, <1>3, <1>4, <1>7, <2>1
<1> QED
  BY <1>5, <1>6, <1>7

LEMMA ClampFacts ==
  ASSUME NEW page \in Nat, NEW n \in Nat, n <= MaxTracks
  PROVE  ClampPage(page, n) \in 1 .. MaxPage
<1>1. PageCount(n) \in Nat /\ PageCount(n) <= MaxPage /\ MaxPage \in Nat \ {0}
  BY PageCounts
<1> QED
  BY <1>1 DEF ClampPage

\* The rows of a page are up next; a page that does not exist has none.
LEMMA RowFacts ==
  ASSUME NEW q, Distinct(q), NEW v, IsView(v, q), NEW page \in Nat \ {0}
  PROVE  LET rows == PageSlice(v, page)
         IN /\ rows \in Seq(Tracks)
            /\ \A n \in DOMAIN rows : \E j \in DOMAIN q : j > 1 /\ rows[n] = q[j]
            /\ page # ClampPage(page, Len(v)) => DOMAIN rows = {}
<1> DEFINE start == (page - 1) * PageSize + 1
           end == IF start + PageSize < Len(v) THEN start + PageSize ELSE Len(v)
           rows == PageSlice(v, page)
<1>1. v \in Seq(Tracks) /\ Len(v) \in Nat /\ DOMAIN v = 1 .. Len(v)
  BY DEF IsView
<1>2. PageSize \in Nat /\ PageSize > 0
  BY Parameters
<1>3. start \in Nat /\ start > 0
  <2> PICK p : p = page - 1
    OBVIOUS
  <2>1. p \in Nat /\ p * PageSize \in Nat
    BY <1>2
  <2> QED
    BY <2>1
<1>4. rows = SubSeq(v, start + 1, end)
  BY DEF PageSlice
<1>5. end \in Nat /\ end <= Len(v) /\ (start >= Len(v) => end = Len(v))
  <2> HIDE DEF start
  <2>1. start + PageSize \in Nat /\ start + PageSize > start
    BY <1>2, <1>3
  <2> QED
    BY <1>1, <1>3, <2>1
<1> HIDE DEF start, end, rows
<1>6. CASE start + 1 <= end
  <2> PICK a, b, c : a = start + 1 /\ b = end /\ c = b + 1 - a
    OBVIOUS
  <2>1. a \in Nat /\ a > 1 /\ b \in Nat /\ b <= Len(v) /\ a <= b
    BY <1>3, <1>5, <1>6
  <2>2. c \in Nat /\ a + c = b + 1
    BY <2>1
  <2>3. rows \in Seq(Tracks) /\ Len(rows) = c /\ \A k \in 1 .. c : rows[k] = v[a + k - 1]
    <3>1. /\ SubSeq(v, a, b) \in Seq(Tracks) /\ Len(SubSeq(v, a, b)) = b + 1 - a
          /\ \A k \in 1 .. (b + 1 - a) : SubSeq(v, a, b)[k] = v[a + k - 1]
      <4>1. a > 0 /\ a <= b + 1
        BY <2>1
      <4> QED
        BY <1>1, <2>1, <4>1, CutOut
    <3>2. rows = SubSeq(v, a, b)
      BY <1>4
    <3> QED
      BY <3>1, <3>2
  <2>4. ASSUME NEW n \in DOMAIN rows PROVE \E j \in DOMAIN q : j > 1 /\ rows[n] = q[j]
    <3>1. n \in 1 .. c /\ rows[n] = v[a + n - 1]
      BY <2>2, <2>3
    <3>2. a + n - 1 \in 1 .. Len(v) /\ a + n - 1 > 1
      BY <1>1, <2>1, <2>2, <3>1
    <3> QED
      BY <1>1, <3>1, <3>2 DEF IsView
  <2>5. page = ClampPage(page, Len(v))
    <3> SUFFICES ASSUME page > PageCount(Len(v)) PROVE FALSE
      <4>1. PageCount(Len(v)) \in Nat
        BY <1>1, PageCounts
      <4> QED
        BY <4>1 DEF ClampPage
    <3> PICK p, x : p = page - 1 /\ x = PageCount(Len(v))
      OBVIOUS
    <3>1. x \in Nat /\ p \in Nat /\ x <= p /\ Len(v) <= x * PageSize + 1
      BY <1>1, PageCounts
    <3>2. x * PageSize <= p * PageSize /\ x * PageSize \in Nat /\ p * PageSize \in Nat
      BY <1>2, <3>1, Products
    <3>3. start = p * PageSize + 1
      BY DEF start
    <3>4. start >= Len(v)
      BY <1>1, <3>1, <3>2, <3>3
    <3> QED
      BY <1>1, <1>3, <1>5, <1>6, <3>4
  <2> QED
    BY <2>3, <2>4, <2>5 DEF rows
<1>7. CASE ~(start + 1 <= end)
  <2>1. rows = <<>>
    <3>1. start + 1 \in Int /\ end \in Int /\ start + 1 > end
      BY <1>3, <1>5, <1>7
    <3> QED
      BY <1>1, <1>4, <3>1, SubSeqEmpty
  <2> QED
    BY <2>1 DEF rows
<1> QED
  BY <1>6, <1>7

-----------------------------------------------------------------------------
(* The inductive invariant.                                                  *)

QueueOK(q, n) == Distinct(q) /\ n \in 0 .. MaxTracks /\ Members(q) \subseteq 1 .. n

StateOK(s) ==
    /\ s = [page |-> s.page, sortBy |-> s.sortBy, filterBy |-> s.filterBy, locked |-> s.locked,
            hash |-> s.hash, text |-> s.text, stats |-> s.stats]
    /\ s.page \in 1 .. MaxPage /\ s.sortBy \in Sorts /\ s.filterBy \in Filters
    /\ s.locked \in BOOLEAN
    /\ s.text = [p \in 1 .. MaxPage |-> s.text[p]]

ScreenOK(x) ==
    /\ x = [kind |-> x.kind, text |-> x.text, rows |-> x.rows, late |-> x.late,
            track |-> x.track, index |-> x.index]
    /\ x.rows \in Nat
    /\ x.kind = "detail" => x.track \in Tracks /\ x.index \in 1 .. MaxTracks

IsFrame(r) ==
    r = [at |-> r.at, cmd |-> r.cmd, user |-> r.user, arg |-> r.arg, q |-> r.q, page |-> r.page,
         sortBy |-> r.sortBy, filterBy |-> r.filterBy, locked |-> r.locked, text |-> r.text,
         late |-> r.late, want |-> r.want]

\* Whose argument is an index into the queue; who has trimmed the queue.
OnIndex(r) ==
    \/ r.at \in {"rm", "remove", "mu", "md", "jmp", "trim", "moved"}
    \/ r.at = "invalidate" /\ r.cmd \in {"mu", "md"}
AfterJump(r) == r.cmd = "jmp" /\ r.at \in {"invalidate", "skip"}

\* What a goroutine knows at each of its steps.
Fits(r) ==
    /\ IsFrame(r) /\ Distinct(r.q)
    /\ r.at = "pg" => r.arg \in Nat
    /\ r.at = "srt" => r.arg \in Sorts
    /\ r.at = "flt" => r.arg \in Filters
    /\ r.at \in {"dtl", "open"} \/ OnIndex(r) => r.arg \in Nat \ {0}
    /\ r.at \in {"rm", "mu", "md", "jmp", "shf", "rev", "clr", "lck"} => r.cmd = r.at
    /\ r.at = "remove" => r.cmd = "rm"
    /\ r.at \in {"trim", "skip"} => r.cmd = "jmp"
    /\ r.at \in {"page", "lookup", "store", "edit"} => r.page \in 1 .. MaxPage
    /\ r.at \in {"lookup", "store", "edit"} => r.sortBy \in Sorts
    /\ r.at = "store" => r.text = Render(r)
    /\ r.at = "edit" /\ ~r.late => r.text = Render(r)

\* Who is not late has the queue and the settings of now.
Fresh(r, q, s) ==
    ~r.late =>
        /\ r.at \in {"hash", "page", "lookup", "store", "queue"} => r.q = q
        /\ r.at \in {"lookup", "store"} =>
               r.sortBy = s.sortBy /\ r.filterBy = s.filterBy /\ r.locked = s.locked

\* The rows that a truthful screen shows.
RowsNow(q, s) ==
    PageSlice(View(q, s.sortBy, s.filterBy), ClampPage(s.page, Len(View(q, s.sortBy, s.filterBy))))

\* Where the track is that a button was drawn for.
Wanted(r, q, s) ==
    r.want # 0 =>
        /\ r.at \in {"dtl", "open"} => r.want = RowsNow(q, s)[r.arg]
        /\ r.at = "open" => r.q = q
        /\ OnIndex(r) => r.arg < Len(q) /\ q[r.arg + 1] = r.want
        /\ AfterJump(r) => Len(q) > 1 /\ q[2] = r.want

\* Pages that LookUp would take for true ones.
Held(s, p) == s.text[p] # NoText /\ ~s.text[p].late
Shows(s, p, q) == s.text[p].text = RenderPage(q, s.sortBy, s.filterBy, s.locked, p)

\* Each was rendered from the queue that has the fingerprint; the queue of now
\* descends from it.
EntriesTrue(q, n, s) ==
    \A p \in 1 .. MaxPage : Held(s, p) =>
        \E q0 : Ancestor(q0, q, n) /\ s.hash = QueueHash(q0) /\ Shows(s, p, q0)

\* For who has compared the fingerprint, it is the queue of now.
Looks(r) == ~r.late /\ r.at \in {"page", "lookup"}
EntriesCurrent(q, s) == \A p \in 1 .. MaxPage : Held(s, p) => Shows(s, p, q)

Pending == \E h \in Goroutines : go[h].at = "invalidate"

CacheInv ==
    \/ Pending
    \/ /\ EntriesTrue(queue, added, st)
       /\ (\E g \in Goroutines : Looks(go[g])) => EntriesCurrent(queue, st)

IInv ==
    /\ QueueOK(queue, added) /\ loop \in {0, 1} /\ StateOK(st) /\ ScreenOK(screen)
    /\ go = [g \in Goroutines |-> go[g]]
    /\ \A g \in Goroutines : Fits(go[g]) /\ Fresh(go[g], queue, st) /\ Wanted(go[g], queue, st)
    /\ CacheInv

-----------------------------------------------------------------------------
(* Steps.  A step moves some goroutines, one or none, and at most marks the  *)
(* others: late, or without a track they want.                               *)

SameSettings(s, t) == s.sortBy = t.sortBy /\ s.filterBy = t.filterBy /\ s.locked = t.locked

\* How the step finds a goroutine that does not move.
Stays(h) == go'[h] = go[h] /\ queue' = queue /\ SameSettings(st', st) /\ st'.page = st.page
LosesWant(h) == go'[h] = Unwanted(h) /\ queue' = queue /\ SameSettings(st', st)
IsOvertaken(h) == go'[h] = Overtaken(h)
Marked(h) == Stays(h) \/ LosesWant(h) \/ IsOvertaken(h)

LEMMA UnwantedFacts ==
  ASSUME NEW r, Fits(r), NEW t, t = [r EXCEPT !.want = 0]
  PROVE  /\ Fits(t) /\ t.want = 0 /\ t.at = r.at /\ (t.late <=> r.late)
         /\ t.q = r.q /\ t.sortBy = r.sortBy /\ t.filterBy = r.filterBy /\ t.locked = r.locked
<1>1. IsFrame(r)
  BY DEF Fits
<1>2. /\ IsFrame(t) /\ t.want = 0 /\ t.at = r.at /\ t.cmd = r.cmd /\ t.user = r.user
      /\ t.arg = r.arg /\ t.q = r.q /\ t.page = r.page /\ t.sortBy = r.sortBy
      /\ t.filterBy = r.filterBy /\ t.locked = r.locked /\ t.text = r.text /\ t.late = r.late
  BY <1>1 DEF IsFrame
<1>3. Fits(t)
  BY <1>2 DEF Fits, OnIndex, Render
<1> QED
  BY <1>2, <1>3

LEMMA LateFacts ==
  ASSUME NEW r, Fits(r), NEW t, t = [r EXCEPT !.late = TRUE]
  PROVE  Fits(t) /\ t.want = r.want /\ t.at = r.at /\ t.late
<1>1. IsFrame(r)
  BY DEF Fits
<1>2. /\ IsFrame(t) /\ t.want = r.want /\ t.at = r.at /\ t.cmd = r.cmd /\ t.user = r.user
      /\ t.arg = r.arg /\ t.q = r.q /\ t.page = r.page /\ t.sortBy = r.sortBy
      /\ t.filterBy = r.filterBy /\ t.locked = r.locked /\ t.text = r.text /\ t.late = TRUE
  BY <1>1 DEF IsFrame
<1>3. Fits(t)
  BY <1>2 DEF Fits, OnIndex, Render
<1> QED
  BY <1>2, <1>3

LEMMA MarkedFacts ==
  ASSUME IInv, NEW h \in Goroutines, Marked(h)
  PROVE  /\ Fits(go'[h]) /\ Fresh(go'[h], queue', st') /\ Wanted(go'[h], queue', st')
         /\ go'[h].at = go[h].at
         /\ Looks(go'[h]) => Looks(go[h])
         /\ IsOvertaken(h) => ~Looks(go'[h])
<1>1. Fits(go[h]) /\ Fresh(go[h], queue, st) /\ Wanted(go[h], queue, st)
  BY DEF IInv
<1> PICK r : r = go[h]
  OBVIOUS
<1> PICK t : t = go'[h]
  OBVIOUS
<1> DEFINE Good == /\ Fits(t) /\ Fresh(t, queue', st') /\ Wanted(t, queue', st')
                   /\ t.at = r.at /\ (Looks(t) => Looks(r))
<1>2. ASSUME Stays(h) PROVE Good
  BY <1>1, <1>2 DEF Stays, SameSettings, Fresh, Wanted, RowsNow
<1>3. ASSUME LosesWant(h) PROVE Good
  <2>1. t = [r EXCEPT !.want = 0] /\ queue' = queue /\ SameSettings(st', st)
    BY <1>3 DEF LosesWant, Unwanted
  <2>2. /\ Fits(t) /\ t.want = 0 /\ t.at = r.at /\ (t.late <=> r.late)
        /\ t.q = r.q /\ t.sortBy = r.sortBy /\ t.filterBy = r.filterBy /\ t.locked = r.locked
    BY <1>1, <2>1, UnwantedFacts
  <2>3. Fresh(t, queue', st') /\ Wanted(t, queue', st')
    BY <1>1, <2>1, <2>2 DEF SameSettings, Fresh, Wanted
  <2> QED
    BY <2>2, <2>3 DEF Looks
<1>4. ASSUME IsOvertaken(h) PROVE Good /\ ~Looks(t)
  <2>1. CASE r.at \in {"hash", "page", "lookup", "store", "edit", "queue"}
    <3>1. t = [r EXCEPT !.late = TRUE]
      BY <1>4, <2>1 DEF IsOvertaken, Overtaken
    <3>2. Fits(t) /\ t.want = r.want /\ t.at = r.at /\ t.late
      BY <1>1, <3>1, LateFacts
    <3>3. Fresh(t, queue', st')
      BY <3>2 DEF Fresh
    <3>4. Wanted(t, queue', st')
      BY <2>1, <3>2 DEF Wanted, OnIndex, AfterJump
    <3> QED
      BY <3>2, <3>3, <3>4 DEF Looks
  <2>2. CASE r.at \notin {"hash", "page", "lookup", "store", "edit", "queue"}
    <3>1. t = [r EXCEPT !.want = 0]
      BY <1>4, <2>2 DEF IsOvertaken, Overtaken, Unwanted
    <3>2. Fits(t) /\ t.want = 0 /\ t.at = r.at /\ (t.late <=> r.late)
      BY <1>1, <3>1, UnwantedFacts
    <3>3. Fresh(t, queue', st')
      BY <2>2, <3>2 DEF Fresh
    <3>4. Wanted(t, queue', st')
      BY <3>2 DEF Wanted
    <3>5. ~Looks(t)
      BY <2>2, <3>2 DEF Looks
    <3> QED
      BY <3>2, <3>3, <3>4, <3>5
  <2> QED
    BY <2>1, <2>2
<1> QED
  BY <1>2, <1>3, <1>4 DEF Marked

\* What is to be shown of a step.
LEMMA Keeps ==
  ASSUME IInv, NEW M \in SUBSET Goroutines,
         go' = [h \in Goroutines |-> go'[h]],
         \A h \in Goroutines \ M : Marked(h),
         \A h \in M : Fits(go'[h]) /\ Fresh(go'[h], queue', st') /\ Wanted(go'[h], queue', st'),
         QueueOK(queue', added'), loop' \in {0, 1}, StateOK(st'), ScreenOK(screen'),
         CacheInv'
  PROVE  IInv'
<1>1. \A h \in Goroutines : Fits(go'[h]) /\ Fresh(go'[h], queue', st') /\ Wanted(go'[h], queue', st')
  BY MarkedFacts
<1> QED
  BY <1>1 DEF IInv

\* How a step may leave the cache: empty; with an invalidation to come; as it is.
LEMMA CacheEmpty ==
  ASSUME StateOK(st'), st'.text = NoTexts
  PROVE  CacheInv'
<1>1. \A p \in 1 .. MaxPage : st'.text[p] = NoText
  BY DEF NoTexts
<1>2. \A p \in 1 .. MaxPage : ~Held(st', p)
  BY <1>1 DEF Held
<1>3. EntriesTrue(queue', added', st') /\ EntriesCurrent(queue', st')
  BY <1>2 DEF EntriesTrue, EntriesCurrent
<1> QED
  BY <1>3 DEF CacheInv

LEMMA CachePending ==
  ASSUME NEW g \in Goroutines, go'[g].at = "invalidate"
  PROVE  CacheInv'
  BY DEF CacheInv, Pending

SameCache(s, t) == SameSettings(s, t) /\ s.hash = t.hash /\ s.text = t.text

LEMMA SameEntries ==
  ASSUME NEW s, NEW t, SameCache(s, t), NEW q, NEW n
  PROVE  /\ EntriesTrue(q, n, t) => EntriesTrue(q, n, s)
         /\ EntriesCurrent(q, t) => EntriesCurrent(q, s)
<1>1. \A p : (Held(s, p) <=> Held(t, p)) /\ \A r : Shows(s, p, r) <=> Shows(t, p, r)
  BY DEF SameCache, SameSettings, Held, Shows
<1> QED
  BY <1>1 DEF EntriesTrue, EntriesCurrent, SameCache

LEMMA CacheKept ==
  ASSUME IInv, NEW M \in SUBSET Goroutines,
         \A h \in Goroutines \ M : Marked(h),
         \A h \in M : go[h].at # "invalidate" /\ (Looks(go'[h]) => Looks(go[h])),
         queue' = queue, added' = added, SameCache(st', st)
  PROVE  CacheInv'
<1>1. \A h \in Goroutines : Looks(go'[h]) => Looks(go[h])
  BY MarkedFacts
<1>2. CASE Pending
  <2>1. PICK h \in Goroutines : go[h].at = "invalidate"
    BY <1>2 DEF Pending
  <2>2. go'[h].at = "invalidate"
    BY <2>1, MarkedFacts
  <2> QED
    BY <2>2, CachePending
<1>3. CASE ~Pending
  <2>1. /\ EntriesTrue(queue, added, st)
        /\ (\E h \in Goroutines : Looks(go[h])) => EntriesCurrent(queue, st)
    BY <1>3 DEF IInv, CacheInv
  <2>2. /\ EntriesTrue(queue, added, st')
        /\ EntriesCurrent(queue, st) => EntriesCurrent(queue, st')
    BY <2>1, SameEntries
  <2>3. EntriesTrue(queue', added', st')
        /\ ((\E h \in Goroutines : Looks(go'[h])) => EntriesCurrent(queue', st'))
    BY <1>1, <2>1, <2>2
  <2> QED
    BY <2>3 DEF CacheInv
<1> QED
  BY <1>2, <1>3

\* The queue changes to one that descends from what the old one descends from and
\* pages are kept of.
LEMMA CacheAfterChange ==
  ASSUME IInv, NEW M \in SUBSET Goroutines,
         \A h \in Goroutines \ M : IsOvertaken(h),
         \A h \in M : go[h].at # "invalidate" /\ ~Looks(go'[h]),
         \A q0 : Ancestor(q0, queue, added) /\ st.hash = QueueHash(q0) => Ancestor(q0, queue', added'),
         SameCache(st', st)
  PROVE  CacheInv'
<1>0. \A h \in Goroutines \ M : Marked(h)
  BY DEF Marked
<1>1. \A h \in Goroutines : ~Looks(go'[h])
  BY <1>0, MarkedFacts
<1>2. CASE Pending
  <2>1. PICK h \in Goroutines : go[h].at = "invalidate"
    BY <1>2 DEF Pending
  <2>2. go'[h].at = "invalidate"
    BY <1>0, <2>1, MarkedFacts
  <2> QED
    BY <2>2, CachePending
<1>3. CASE ~Pending
  <2>1. EntriesTrue(queue, added, st)
    BY <1>3 DEF IInv, CacheInv
  <2>2. EntriesTrue(queue', added', st)
    BY <2>1 DEF EntriesTrue
  <2>3. EntriesTrue(queue', added', st')
    BY <2>2, SameEntries
  <2>4. EntriesTrue(queue', added', st')
        /\ ((\E h \in Goroutines : Looks(go'[h])) => EntriesCurrent(queue', st'))
    BY <1>1, <2>3
  <2> QED
    BY <2>4 DEF CacheInv
<1> QED
  BY <1>2, <1>3

\* Goroutine g becomes r, the others stay or are overtaken.
LEMMA Turns ==
  ASSUME IInv, NEW g \in Goroutines, NEW r, Step(g, r)
  PROVE  /\ go'[g] = r /\ go' = [h \in Goroutines |-> go'[h]]
         /\ \A h \in Goroutines \ {g} : go'[h] = go[h]
  BY DEF IInv, Step

LEMMA Overtakes ==
  ASSUME IInv, NEW g \in Goroutines, NEW r, Late(g, r)
  PROVE  /\ go'[g] = r /\ go' = [h \in Goroutines |-> go'[h]]
         /\ \A h \in Goroutines \ {g} : IsOvertaken(h) /\ Marked(h)
<1>1. go'[g] = r /\ \A h \in Goroutines \ {g} : go'[h] = Overtaken(h)
  BY DEF Late
<1>2. go' = [h \in Goroutines |-> go'[h]]
  BY DEF Late
<1> QED
  BY <1>1, <1>2 DEF IsOvertaken, Marked

\* A step of g alone that leaves queue, settings and page.
LEMMA KeepsAlone ==
  ASSUME IInv, NEW g \in Goroutines, NEW r, Step(g, r),
         queue' = queue, added' = added, loop' = loop,
         StateOK(st'), SameSettings(st', st), st'.page = st.page, ScreenOK(screen'),
         Fits(r), Fresh(r, queue, st), Wanted(r, queue, st),
         CacheInv' \/ (SameCache(st', st) /\ go[g].at # "invalidate" /\ (Looks(r) => Looks(go[g])))
  PROVE  IInv'
<1>1. /\ go'[g] = r /\ go' = [h \in Goroutines |-> go'[h]]
      /\ \A h \in Goroutines \ {g} : Marked(h)
  BY Turns DEF Marked, Stays
<1>2. Fresh(r, queue', st') /\ Wanted(r, queue', st')
  BY DEF Fresh, Wanted, RowsNow, SameSettings
<1>3. CacheInv'
  <2>1. CASE SameCache(st', st) /\ go[g].at # "invalidate" /\ (Looks(r) => Looks(go[g]))
    <3> DEFINE M == {g}
    <3>1. /\ M \in SUBSET Goroutines /\ \A h \in Goroutines \ M : Marked(h)
          /\ \A h \in M : go[h].at # "invalidate" /\ (Looks(go'[h]) => Looks(go[h]))
      BY <1>1, <2>1
    <3> QED
      BY <2>1, <3>1, CacheKept
  <2> QED
    BY <2>1
<1>4. QueueOK(queue', added') /\ loop' \in {0, 1}
  BY DEF IInv
<1> DEFINE M == {g}
<1>5. /\ M \in SUBSET Goroutines /\ \A h \in Goroutines \ M : Marked(h)
      /\ \A h \in M : Fits(go'[h]) /\ Fresh(go'[h], queue', st') /\ Wanted(go'[h], queue', st')
  BY <1>1, <1>2
<1> QED
  BY <1>1, <1>3, <1>4, <1>5, Keeps

-----------------------------------------------------------------------------
(* Steps of one goroutine that leave queue and settings.                     *)

LEMMA IdleFacts ==
  /\ IsFrame(Idle) /\ Fits(Idle) /\ Idle.at = "idle" /\ Idle.cmd = "none" /\ Idle.arg = 0
  /\ Idle.q = <<>> /\ Idle.want = 0 /\ ~Idle.late /\ ~Looks(Idle)
  /\ \A q, s : Fresh(Idle, q, s) /\ Wanted(Idle, q, s)
<1>1. /\ IsFrame(Idle) /\ Idle.at = "idle" /\ Idle.cmd = "none" /\ Idle.arg = 0
      /\ Idle.q = <<>> /\ Idle.want = 0 /\ Idle.late = FALSE
  BY DEF Idle, IsFrame
<1>2. Distinct(<<>>)
  BY NoTracks
<1>3. Fits(Idle)
  BY <1>1, <1>2 DEF Fits, OnIndex
<1>4. \A q, s : Fresh(Idle, q, s) /\ Wanted(Idle, q, s)
  BY <1>1 DEF Fresh, Wanted
<1> QED
  BY <1>1, <1>3, <1>4 DEF Looks

LEMMA GoesOn ==
  ASSUME NEW r, Fits(r), NEW l, NEW t, t = [r EXCEPT !.at = l]
  PROVE  /\ IsFrame(t) /\ t.at = l /\ t.cmd = r.cmd /\ t.user = r.user /\ t.arg = r.arg
         /\ t.q = r.q /\ t.page = r.page /\ t.sortBy = r.sortBy /\ t.filterBy = r.filterBy
         /\ t.locked = r.locked /\ t.text = r.text /\ t.late = r.late /\ t.want = r.want
         /\ Distinct(t.q)
<1>1. IsFrame(r) /\ Distinct(r.q)
  BY DEF Fits
<1> QED
  BY <1>1 DEF IsFrame

\* What the invariant says of one goroutine and of the shared state.
LEMMA HereFacts ==
  ASSUME IInv, NEW g \in Goroutines
  PROVE  /\ Fits(go[g]) /\ Fresh(go[g], queue, st) /\ Wanted(go[g], queue, st)
         /\ Distinct(queue) /\ Distinct(go[g].q) /\ StateOK(st) /\ ScreenOK(screen)
         /\ Len(queue) \in Nat /\ Len(queue) <= MaxTracks /\ Len(go[g].q) \in Nat
         /\ SameSettings(st, st) /\ SameCache(st, st)
<1>1. /\ Fits(go[g]) /\ Fresh(go[g], queue, st) /\ Wanted(go[g], queue, st)
      /\ Distinct(queue) /\ Distinct(go[g].q) /\ StateOK(st) /\ ScreenOK(screen)
  BY DEF IInv, QueueOK, Fits
<1> QED
  BY <1>1, QueueFacts DEF SameSettings, SameCache

LEMMA ReturnStep ==
  ASSUME IInv, NEW g \in Goroutines, Return(g), go[g].at # "invalidate",
         queue' = queue, added' = added, loop' = loop, st' = st, ScreenOK(screen')
  PROVE  IInv'
<1>1. Step(g, Idle)
  BY DEF Return
<1> QED
  BY <1>1, HereFacts, IdleFacts, KeepsAlone

\* Label l asks for nothing that g would not have.
Plain == {"render", "drop"}
LEMMA PlainStep ==
  ASSUME IInv, NEW g \in Goroutines, NEW l \in Plain, Goto(g, l), go[g].at # "invalidate",
         queue' = queue, added' = added, loop' = loop, st' = st, ScreenOK(screen')
  PROVE  IInv'
<1> PICK r : r = [go[g] EXCEPT !.at = l]
  OBVIOUS
<1>1. Step(g, r)
  BY DEF Goto
<1>2. IsFrame(r) /\ r.at = l /\ Distinct(r.q)
  BY HereFacts, GoesOn
<1>3. Fits(r) /\ Fresh(r, queue, st) /\ Wanted(r, queue, st) /\ ~Looks(r)
  BY <1>2 DEF Plain, Fits, OnIndex, AfterJump, Fresh, Wanted, Looks
<1> QED
  BY <1>1, <1>3, HereFacts, KeepsAlone

LEMMA Drawn ==
  ASSUME NEW cmd, NEW arg, NEW w, w = DrawnFor(cmd, arg)
  PROVE  \/ w = 0
         \/ cmd = "dtl" /\ ShowsTheTruth /\ w = Rows(screen.text)[arg]
         \/ cmd \in {"rm", "mu", "md", "jmp"} /\ arg < Len(queue) /\ w = queue[arg + 1]
<1>0. "dtl" \notin {"rm", "mu", "md", "jmp"}
  OBVIOUS
<1>1. CASE cmd = "dtl" /\ ShowsTheTruth
  BY <1>0, <1>1, Zenon DEF DrawnFor
<1>2. CASE cmd \in {"rm", "mu", "md", "jmp"} /\ arg < Len(queue) /\ screen.track = queue[arg + 1]
  <2>1. cmd # "dtl"
    BY <1>0, <1>2
  <2>2. w = screen.track
    BY <1>2, <2>1, Zenon DEF DrawnFor
  <2> QED
    BY <1>2, <2>2
<1>3. CASE /\ ~(cmd = "dtl" /\ ShowsTheTruth)
           /\ ~(cmd \in {"rm", "mu", "md", "jmp"} /\ arg < Len(queue) /\ screen.track = queue[arg + 1])
  BY <1>3, Zenon DEF DrawnFor
<1> QED
  BY <1>1, <1>2, <1>3

Commands == {"pg", "ref", "sts", "cls", "menu", "clr", "shf", "rev", "lck", "dtl", "bk", "rm",
             "mu", "md", "jmp", "srt", "flt"}

LEMMA ClickStep ==
  ASSUME IInv, NEW g \in Goroutines, NEW cmd \in Commands, NEW user, NEW arg,
         Click(g, cmd, user, arg),
         cmd = "pg" => arg \in Nat, cmd = "srt" => arg \in Sorts, cmd = "flt" => arg \in Filters,
         cmd \in {"dtl", "rm", "mu", "md", "jmp"} => arg \in Nat \ {0}
  PROVE  IInv'
<1> PICK w : w = DrawnFor(cmd, arg)
  OBVIOUS
<1> PICK r : r = [Idle EXCEPT !.at = cmd, !.cmd = cmd, !.user = user, !.arg = arg, !.want = w]
  OBVIOUS
<1>1. /\ Step(g, r) /\ go[g].at = "idle"
      /\ queue' = queue /\ added' = added /\ loop' = loop /\ st' = st /\ screen' = screen
  BY DEF Click, At
<1>2. IsFrame(r) /\ r.at = cmd /\ r.cmd = cmd /\ r.arg = arg /\ r.q = <<>> /\ r.want = w
  BY IdleFacts DEF IsFrame
<1>3. Fits(r)
  BY <1>2, NoTracks DEF Fits, OnIndex, Commands
<1>4. Fresh(r, queue, st) /\ ~Looks(r)
  BY <1>2 DEF Fresh, Looks, Commands
<1>5. Wanted(r, queue, st)
  <2>1. CASE w = 0
    BY <1>2, <2>1 DEF Wanted
  <2>2. CASE cmd = "dtl" /\ ShowsTheTruth /\ w = Rows(screen.text)[arg]
    <3>1. Rows(screen.text) = RowsNow(queue, st)
      BY <2>2 DEF ShowsTheTruth, RenderPage, Rows, RowsNow
    <3> QED
      BY <1>2, <2>2, <3>1 DEF Wanted, OnIndex, AfterJump
  <2>3. CASE cmd \in {"rm", "mu", "md", "jmp"} /\ arg < Len(queue) /\ w = queue[arg + 1]
    BY <1>2, <2>3 DEF Wanted, OnIndex, AfterJump
  <2> QED
    BY <2>1, <2>2, <2>3, Drawn
<1> QED
  BY <1>1, <1>3, <1>4, <1>5, HereFacts, KeepsAlone

LEMMA ClicksStep ==
  ASSUME IInv, NEW g \in Goroutines, ClickOnPage(g) \/ ClickOnDetail(g) \/ ClickOnMenu(g)
  PROVE  IInv'
<1> USE DEF Commands
<1>1. MaxPage \in Nat
  BY Parameters, PageCounts
<1>2. CASE ClickOnPage(g)
  <2>1. screen.rows \in Nat
    BY HereFacts DEF ScreenOK
  <2>2. CASE \E n \in 1 .. MaxPage : Click(g, "pg", "none", n)
    <3>1. PICK n \in 1 .. MaxPage : Click(g, "pg", "none", n)
      BY <2>2
    <3>2. n \in Nat
      BY <1>1
    <3> QED
      BY <3>1, <3>2, ClickStep
  <2>3. CASE \E cmd \in {"ref", "sts", "cls", "menu"} : Click(g, cmd, "none", 0)
    BY <2>3, ClickStep
  <2>4. CASE \E cmd \in {"clr", "shf", "rev", "lck"}, u \in Users : Manage(g, cmd, u, 0)
    BY <2>4, ClickStep DEF Manage
  <2>5. CASE \E n \in 1 .. screen.rows : n <= Len(Rows(screen.text)) /\ Click(g, "dtl", "none", n)
    <3>1. PICK n \in 1 .. screen.rows : Click(g, "dtl", "none", n)
      BY <2>5
    <3>2. n \in Nat \ {0}
      BY <2>1
    <3> QED
      BY <3>1, <3>2, ClickStep
  <2> QED
    BY <1>2, <2>2, <2>3, <2>4, <2>5 DEF ClickOnPage
<1>3. CASE ClickOnDetail(g)
  <2>1. screen.index \in Nat \ {0}
    <3>1. screen.index \in 1 .. MaxTracks
      BY <1>3, HereFacts DEF ScreenOK, ClickOnDetail
    <3> QED
      BY <3>1
  <2>2. CASE Click(g, "bk", "none", 0)
    BY <2>2, ClickStep
  <2>3. CASE \E u \in Users : Click(g, "rm", u, screen.index)
    BY <2>1, <2>3, ClickStep
  <2>4. CASE \E cmd \in {"mu", "md", "jmp"}, u \in Users : Manage(g, cmd, u, screen.index)
    BY <2>1, <2>4, ClickStep DEF Manage
  <2> QED
    BY <1>3, <2>2, <2>3, <2>4 DEF ClickOnDetail
<1>4. CASE ClickOnMenu(g)
  <2>1. CASE Click(g, "bk", "none", 0)
    BY <2>1, ClickStep
  <2>2. CASE \E s \in Sorts : Click(g, "srt", "none", s)
    BY <2>2, ClickStep
  <2>3. CASE \E f \in Filters : Click(g, "flt", "none", f)
    BY <2>3, ClickStep
  <2> QED
    BY <1>4, <2>1, <2>2, <2>3 DEF ClickOnMenu
<1> QED
  BY <1>2, <1>3, <1>4

LEMMA StartQueueStep ==
  ASSUME IInv, NEW g \in Goroutines, StartQueue(g)
  PROVE  IInv'
<1> PICK r : r = [Idle EXCEPT !.at = "queue", !.cmd = "queue", !.q = queue]
  OBVIOUS
<1>1. /\ Step(g, r) /\ go[g].at = "idle"
      /\ queue' = queue /\ added' = added /\ loop' = loop /\ st' = st /\ screen' = screen
  BY DEF StartQueue, At
<1>2. IsFrame(r) /\ r.at = "queue" /\ r.q = queue /\ r.want = 0
  BY IdleFacts DEF IsFrame
<1>3. Fits(r) /\ Fresh(r, queue, st) /\ Wanted(r, queue, st) /\ ~Looks(r)
  BY <1>2, HereFacts DEF Fits, OnIndex, Fresh, Wanted, Looks
<1> QED
  BY <1>1, <1>3, HereFacts, KeepsAlone

LEMMA StartPlayStep ==
  ASSUME IInv, NEW g \in Goroutines, NEW u \in Users, StartPlay(g, u)
  PROVE  IInv'
<1> PICK r : r = [Idle EXCEPT !.at = "add"]
  OBVIOUS
<1>1. /\ Step(g, r) /\ go[g].at = "idle"
      /\ queue' = queue /\ added' = added /\ loop' = loop /\ st' = st /\ screen' = screen
  BY DEF StartPlay, At
<1>2. IsFrame(r) /\ r.at = "add" /\ r.q = <<>> /\ r.want = 0
  BY IdleFacts DEF IsFrame
<1>3. Fits(r) /\ Fresh(r, queue, st) /\ Wanted(r, queue, st) /\ ~Looks(r)
  BY <1>2, NoTracks DEF Fits, OnIndex, Fresh, Wanted, Looks
<1> QED
  BY <1>1, <1>3, HereFacts, KeepsAlone

\* Screens that are neither a page nor a detail.
LEMMA PlainScreen ==
  ASSUME NEW kind, kind # "detail", Show(kind)
  PROVE  ScreenOK(screen')
BY DEF Show, NoScreen, ScreenOK

LEMMA DetailScreen ==
  ASSUME NEW q, NEW index \in 1 .. MaxTracks, q[index + 1] \in Tracks, ShowDetail(q, index)
  PROVE  ScreenOK(screen') /\ screen'.track = q[index + 1]
BY DEF ShowDetail, NoScreen, ScreenOK

LEMMA CloseOrMenuStep ==
  ASSUME IInv, NEW g \in Goroutines, CloseOrMenu(g)
  PROVE  IInv'
<1>1. ScreenOK(screen')
  BY PlainScreen, HereFacts DEF CloseOrMenu
<1> QED
  BY <1>1, ReturnStep DEF CloseOrMenu, At

LEMMA DetailReadStep ==
  ASSUME IInv, NEW g \in Goroutines, DetailRead(g)
  PROVE  IInv'
<1> PICK f : f = go[g]
  OBVIOUS
<1> PICK r : r = [f EXCEPT !.at = "open", !.q = queue]
  OBVIOUS
<1>1. /\ Step(g, r) /\ f.at = "dtl"
      /\ queue' = queue /\ added' = added /\ loop' = loop /\ st' = st /\ screen' = screen
  BY DEF DetailRead, At
<1>2. Fits(f) /\ Wanted(f, queue, st) /\ Distinct(queue)
  BY HereFacts
<1>3. IsFrame(r) /\ r.at = "open" /\ r.q = queue /\ r.want = f.want /\ r.arg = f.arg
  BY <1>2 DEF IsFrame, Fits
<1>4. Fits(r) /\ Fresh(r, queue, st) /\ ~Looks(r)
  BY <1>1, <1>2, <1>3 DEF Fits, OnIndex, Fresh, Looks
<1>5. Wanted(r, queue, st)
  BY <1>1, <1>2, <1>3 DEF Wanted, OnIndex, AfterJump
<1> QED
  BY <1>1, <1>4, <1>5, HereFacts, KeepsAlone

\* The row that DetailOpen looks up, and where it finds it.
LEMMA OpenFacts ==
  ASSUME IInv, NEW g \in Goroutines, go[g].at = "open",
         NEW rows, rows = PageSlice(View(go[g].q, st.sortBy, st.filterBy), st.page),
         go[g].arg \in DOMAIN rows,
         NEW i, i = CHOOSE j \in DOMAIN go[g].q : go[g].q[j + 1] = rows[go[g].arg]
  PROVE  /\ i \in 1 .. MaxTracks /\ go[g].q[i + 1] = rows[go[g].arg]
         /\ go[g].q[i + 1] \in Tracks
         /\ go[g].want # 0 => go[g].want = rows[go[g].arg]
<1> PICK f : f = go[g]
  OBVIOUS
<1> PICK v : v = View(f.q, st.sortBy, st.filterBy)
  OBVIOUS
<1>1. /\ Distinct(f.q) /\ Wanted(f, queue, st) /\ st.page \in Nat \ {0} /\ st.sortBy \in Sorts
      /\ Len(f.q) \in Nat /\ Len(f.q) <= MaxTracks /\ DOMAIN f.q = 1 .. Len(f.q)
      /\ \A j \in 1 .. Len(f.q) : f.q[j] \in Tracks
  <2>1. Distinct(f.q) /\ Wanted(f, queue, st) /\ StateOK(st)
    BY HereFacts
  <2>2. /\ Len(f.q) \in Nat /\ Len(f.q) <= MaxTracks /\ DOMAIN f.q = 1 .. Len(f.q)
        /\ \A j \in 1 .. Len(f.q) : f.q[j] \in Tracks
    BY <2>1, QueueFacts
  <2>3. st.page \in Nat \ {0} /\ st.sortBy \in Sorts
    <3>1. MaxPage \in Nat /\ st.page \in 1 .. MaxPage /\ st.sortBy \in Sorts
      BY <2>1, Parameters, PageCounts DEF StateOK
    <3> QED
      BY <3>1
  <2> QED
    BY <2>1, <2>2, <2>3
<1>2. IsView(v, f.q)
  BY <1>1, ViewFacts
<1>3. /\ \A n \in DOMAIN rows : \E j \in DOMAIN f.q : j > 1 /\ rows[n] = f.q[j]
      /\ st.page # ClampPage(st.page, Len(v)) => DOMAIN rows = {}
  <2> PICK page : page = st.page
    OBVIOUS
  <2>1. rows = PageSlice(v, page) /\ page \in Nat \ {0}
    BY <1>1
  <2> PICK q : q = f.q
    OBVIOUS
  <2>2. Distinct(q) /\ IsView(v, q)
    BY <1>1, <1>2
  <2>3. /\ \A n \in DOMAIN PageSlice(v, page) : \E j \in DOMAIN q : j > 1 /\ PageSlice(v, page)[n] = q[j]
        /\ page # ClampPage(page, Len(v)) => DOMAIN PageSlice(v, page) = {}
    BY <2>1, <2>2, RowFacts
  <2> QED
    BY <2>1, <2>3
<1>4. PICK j \in DOMAIN f.q : j > 1 /\ rows[f.arg] = f.q[j]
  BY <1>3
<1>5. j - 1 \in DOMAIN f.q /\ f.q[(j - 1) + 1] = rows[f.arg]
  BY <1>1, <1>4
<1>6. i \in DOMAIN f.q /\ f.q[i + 1] = rows[f.arg]
  BY <1>5
<1>7. i \in 1 .. MaxTracks /\ f.q[i + 1] \in Tracks
  <2> PICK n : n = Len(f.q)
    OBVIOUS
  <2>1. n \in Nat /\ n <= MaxTracks /\ MaxTracks \in Nat /\ i \in 1 .. n
    BY <1>1, <1>6, Parameters
  <2>2. i \in 1 .. MaxTracks
    BY <2>1
  <2>3. f.q[j] \in Tracks
    BY <1>1, <1>4
  <2>4. f.q[i + 1] \in Tracks
    BY <1>4, <1>6, <2>3, Zenon
  <2> QED
    BY <2>2, <2>4
<1>8. ASSUME f.want # 0 PROVE f.want = rows[f.arg]
  <2>1. f.q = queue /\ f.want = RowsNow(queue, st)[f.arg]
    BY <1>1, <1>8 DEF Wanted
  <2>2. st.page = ClampPage(st.page, Len(v))
    BY <1>3
  <2>3. RowsNow(queue, st) = rows
    BY <2>1, <2>2 DEF RowsNow
  <2> QED
    BY <2>1, <2>3
<1> QED
  BY <1>6, <1>7, <1>8

LEMMA DetailOpenStep ==
  ASSUME IInv, NEW g \in Goroutines, DetailOpen(g)
  PROVE  IInv'
<1> PICK q : q = go[g].q
  OBVIOUS
<1> PICK rows : rows = PageSlice(View(q, st.sortBy, st.filterBy), st.page)
  OBVIOUS
<1>1. CASE go[g].arg \in DOMAIN rows
  <2> PICK i : i = CHOOSE j \in DOMAIN q : q[j + 1] = rows[go[g].arg]
    OBVIOUS
  <2>1. ShowDetail(q, i) /\ go[g].at = "open"
    BY <1>1 DEF DetailOpen, At
  <2>2. ScreenOK(screen')
    BY <1>1, <2>1, OpenFacts, DetailScreen
  <2> QED
    BY <2>1, <2>2, ReturnStep DEF DetailOpen
<1>2. CASE go[g].arg \notin DOMAIN rows
  BY <1>2, HereFacts, ReturnStep DEF DetailOpen, At
<1> QED
  BY <1>1, <1>2

LEMMA RemoveCheckStep ==
  ASSUME IInv, NEW g \in Goroutines, RemoveCheck(g)
  PROVE  IInv'
<1> PICK f : f = go[g]
  OBVIOUS
<1> PICK r : r = [f EXCEPT !.at = "remove", !.user = "none"]
  OBVIOUS
<1>1. /\ f.at = "rm" /\ (Step(g, r) \/ Return(g))
      /\ queue' = queue /\ added' = added /\ loop' = loop /\ st' = st /\ screen' = screen
  BY DEF RemoveCheck, At
<1>2. Fits(f) /\ Wanted(f, queue, st)
  BY HereFacts
<1>3. /\ IsFrame(r) /\ r.at = "remove" /\ r.cmd = f.cmd /\ r.q = f.q /\ r.want = f.want
      /\ r.arg = f.arg
  BY <1>2 DEF IsFrame, Fits
<1>4. Fits(r) /\ Fresh(r, queue, st) /\ ~Looks(r)
  BY <1>1, <1>2, <1>3 DEF Fits, OnIndex, Fresh, Looks
<1>5. Wanted(r, queue, st)
  BY <1>1, <1>2, <1>3 DEF Wanted, OnIndex, AfterJump
<1> QED
  BY <1>1, <1>4, <1>5, HereFacts, KeepsAlone, ReturnStep

LEMMA ShowMovedStep ==
  ASSUME IInv, NEW g \in Goroutines, ShowMoved(g)
  PROVE  IInv'
<1>1. CASE go[g].arg < Len(queue)
  <2> PICK n : n = go[g].arg
    OBVIOUS
  <2>1. n \in Nat \ {0}
    BY HereFacts DEF ShowMoved, At, Fits, OnIndex
  <2>2. n \in 1 .. MaxTracks /\ queue[n + 1] \in Tracks
    <3>1. Len(queue) \in Nat /\ Len(queue) <= MaxTracks /\ \A i \in 1 .. Len(queue) : queue[i] \in Tracks
      BY HereFacts, QueueFacts
    <3> QED
      BY <1>1, <2>1, <3>1, Parameters
  <2>3. ScreenOK(screen')
    BY <1>1, <2>2, DetailScreen DEF ShowMoved
  <2> QED
    BY <1>1, <2>3, ReturnStep DEF ShowMoved, At
<1>2. CASE ~(go[g].arg < Len(queue))
  BY <1>2, HereFacts, PlainStep DEF ShowMoved, At, Plain
<1> QED
  BY <1>1, <1>2

LEMMA ReadStep ==
  ASSUME IInv, NEW g \in Goroutines, Read(g)
  PROVE  IInv'
<1> PICK r : r = [Idle EXCEPT !.at = "hash", !.q = queue]
  OBVIOUS
<1>1. /\ Step(g, r) /\ go[g].at = "render"
      /\ queue' = queue /\ added' = added /\ loop' = loop /\ st' = st /\ screen' = screen
  BY DEF Read, At
<1>2. IsFrame(r) /\ r.at = "hash" /\ r.q = queue /\ r.want = 0
  BY IdleFacts DEF IsFrame
<1>3. Fits(r) /\ Fresh(r, queue, st) /\ Wanted(r, queue, st) /\ ~Looks(r)
  BY <1>2, HereFacts DEF Fits, OnIndex, Fresh, Wanted, Looks
<1> QED
  BY <1>1, <1>3, HereFacts, KeepsAlone

-----------------------------------------------------------------------------
(* Steps that change what the manager keeps.                                 *)

LEMMA InvalidatedFacts ==
  ASSUME NEW s, StateOK(s)
  PROVE  /\ StateOK(Invalidated(s)) /\ Invalidated(s).text = NoTexts
         /\ SameSettings(Invalidated(s), s) /\ Invalidated(s).page = s.page
<1> PICK t : t = Invalidated(s)
  OBVIOUS
<1>1. t = [page |-> s.page, sortBy |-> s.sortBy, filterBy |-> s.filterBy, locked |-> s.locked,
           hash |-> s.hash, text |-> NoTexts, stats |-> NoStats]
  BY DEF StateOK, Invalidated
<1>2. NoTexts = [p \in 1 .. MaxPage |-> NoTexts[p]]
  BY DEF NoTexts
<1>3. StateOK(t)
  BY <1>1, <1>2 DEF StateOK
<1> QED
  BY <1>1, <1>3 DEF SameSettings

\* Goroutine g ends or goes on to a plain label; the pages kept may go.
LEMMA QuietStep ==
  ASSUME IInv, NEW g \in Goroutines, Return(g) \/ \E l \in Plain : Goto(g, l),
         queue' = queue, added' = added, loop' = loop, ScreenOK(screen'),
         StateOK(st'), SameSettings(st', st), st'.page = st.page,
         CacheInv' \/ (SameCache(st', st) /\ go[g].at # "invalidate")
  PROVE  IInv'
<1>1. CASE Return(g)
  <2>1. Step(g, Idle)
    BY <1>1 DEF Return
  <2> QED
    BY <2>1, IdleFacts, KeepsAlone
<1>2. CASE \E l \in Plain : Goto(g, l)
  <2> PICK l \in Plain : Goto(g, l)
    BY <1>2
  <2> PICK r : r = [go[g] EXCEPT !.at = l]
    OBVIOUS
  <2>1. Step(g, r)
    BY DEF Goto
  <2>2. IsFrame(r) /\ r.at = l /\ Distinct(r.q)
    <3>1. Fits(go[g])
      BY HereFacts
    <3> QED
      BY <3>1, GoesOn
  <2>3. Fits(r) /\ Fresh(r, queue, st) /\ Wanted(r, queue, st) /\ ~Looks(r)
    BY <2>2 DEF Plain, Fits, OnIndex, AfterJump, Fresh, Wanted, Looks
  <2> QED
    BY <2>1, <2>3, KeepsAlone
<1> QED
  BY <1>1, <1>2

LEMMA RefreshStep ==
  ASSUME IInv, NEW g \in Goroutines, Refresh(g)
  PROVE  IInv'
<1>1. /\ Return(g) \/ \E l \in Plain : Goto(g, l)
      /\ queue' = queue /\ added' = added /\ loop' = loop /\ go[g].at # "invalidate"
  BY DEF Refresh, Plain
<1>2. ScreenOK(screen')
  BY HereFacts, PlainScreen DEF Refresh
<1>3. CASE At(g, "ref")
  <2>1. st' = Invalidated(st)
    BY <1>3 DEF Refresh
  <2>2. StateOK(st') /\ st'.text = NoTexts /\ SameSettings(st', st) /\ st'.page = st.page
    BY <2>1, HereFacts, InvalidatedFacts
  <2>3. CacheInv'
    BY <2>2, CacheEmpty
  <2> QED
    BY <1>1, <1>2, <2>2, <2>3, QuietStep
<1>4. CASE ~At(g, "ref")
  <2>1. st' = st
    BY <1>4 DEF Refresh
  <2> QED
    BY <1>1, <1>2, <2>1, HereFacts, QuietStep
<1> QED
  BY <1>3, <1>4

LEMMA StatsStep ==
  ASSUME IInv, NEW g \in Goroutines, Stats(g)
  PROVE  IInv'
<1>1. /\ Return(g) /\ go[g].at # "invalidate"
      /\ queue' = queue /\ added' = added /\ loop' = loop /\ screen' = screen
      /\ \E x : st' = [st EXCEPT !.stats = x] \/ st' = st
  BY DEF Stats, At
<1>2. StateOK(st') /\ SameCache(st', st) /\ st'.page = st.page
  BY <1>1, HereFacts DEF StateOK, SameCache, SameSettings
<1> QED
  BY <1>1, <1>2, HereFacts, QuietStep DEF SameCache

\* Under the fingerprint of the queue of now, a true page is the page of now.
LEMMA HashCurrent ==
  ASSUME NEW q, NEW n, QueueOK(q, n), NEW s, EntriesTrue(q, n, s), s.hash = QueueHash(q)
  PROVE  EntriesCurrent(q, s)
<1> SUFFICES ASSUME NEW p \in 1 .. MaxPage, Held(s, p)
             PROVE  Shows(s, p, q)
  BY DEF EntriesCurrent
<1>1. PICK q0 : Ancestor(q0, q, n) /\ s.hash = QueueHash(q0) /\ Shows(s, p, q0)
  BY DEF EntriesTrue
<1>2. q = q0
  BY <1>1, SameHash DEF QueueOK
<1> QED
  BY <1>1, <1>2

LEMMA HashStep ==
  ASSUME IInv, NEW g \in Goroutines, Hash(g)
  PROVE  IInv'
<1> PICK f : f = go[g]
  OBVIOUS
<1> PICK page : page = ClampPage(st.page, Len(f.q))
  OBVIOUS
<1> PICK r : r = [f EXCEPT !.at = "page", !.page = page]
  OBVIOUS
<1>1. /\ Step(g, r) /\ f.at = "hash" /\ st' = CheckHash(st, f.q)
      /\ queue' = queue /\ added' = added /\ loop' = loop /\ screen' = screen
  BY DEF Hash, At
<1>2. Fits(f) /\ Fresh(f, queue, st) /\ Distinct(f.q) /\ StateOK(st) /\ ScreenOK(screen)
  BY HereFacts
<1>3. /\ IsFrame(r) /\ r.at = "page" /\ r.q = f.q /\ r.page = page /\ (r.late <=> f.late)
  BY <1>2 DEF IsFrame, Fits
<1>4. page \in 1 .. MaxPage
  <2>1. st.page \in Nat /\ Len(f.q) \in Nat /\ Len(f.q) <= MaxTracks
    <3>1. MaxPage \in Nat /\ st.page \in 1 .. MaxPage
      BY <1>2, Parameters, PageCounts DEF StateOK
    <3> QED
      BY <1>2, <3>1, QueueFacts
  <2> QED
    BY <2>1, ClampFacts
<1>5. Fits(r) /\ Fresh(r, queue, st) /\ Wanted(r, queue, st)
  BY <1>1, <1>2, <1>3, <1>4 DEF Fits, OnIndex, AfterJump, Fresh, Wanted
<1>6. StateOK(st') /\ SameSettings(st', st) /\ st'.page = st.page
  <2>1. CASE st.hash = QueueHash(f.q)
    BY <1>1, <2>1, HereFacts DEF CheckHash
  <2>2. CASE st.hash # QueueHash(f.q)
    <3> PICK s : s = Invalidated(st)
      OBVIOUS
    <3>1. StateOK(s) /\ SameSettings(s, st) /\ s.page = st.page /\ st' = [s EXCEPT !.hash = QueueHash(f.q)]
      BY <1>1, <1>2, <2>2, InvalidatedFacts DEF CheckHash
    <3> QED
      BY <3>1 DEF StateOK, SameSettings
  <2> QED
    BY <2>1, <2>2
<1>7. CacheInv'
  <2>1. CASE st.hash = QueueHash(f.q)
    <3>1. st' = st
      BY <1>1, <2>1 DEF CheckHash
    <3>2. go'[g] = r /\ \A h \in Goroutines \ {g} : go'[h] = go[h]
      BY <1>1, Turns
    <3>3. CASE Pending
      <4>1. PICK h \in Goroutines : go[h].at = "invalidate"
        BY <3>3 DEF Pending
      <4>2. go'[h].at = "invalidate"
        BY <1>1, <3>2, <4>1
      <4> QED
        BY <4>2, CachePending
    <3>4. CASE ~Pending
      <4>1. /\ EntriesTrue(queue, added, st)
            /\ (\E h \in Goroutines : Looks(go[h])) => EntriesCurrent(queue, st)
        BY <3>4 DEF IInv, CacheInv
      <4>2. ASSUME NEW h \in Goroutines, Looks(go'[h]) PROVE EntriesCurrent(queue, st)
        <5>1. CASE h = g
          <6>1. f.q = queue
            BY <1>1, <1>2, <1>3, <3>2, <4>2, <5>1 DEF Looks, Fresh
          <6> QED
            BY <2>1, <4>1, <6>1, HashCurrent DEF IInv
        <5>2. CASE h # g
          BY <3>2, <4>1, <4>2, <5>2
        <5> QED
          BY <5>1, <5>2
      <4>3. EntriesTrue(queue', added', st')
            /\ ((\E h \in Goroutines : Looks(go'[h])) => EntriesCurrent(queue', st'))
        BY <1>1, <3>1, <4>1, <4>2
      <4> QED
        BY <4>3 DEF CacheInv
    <3> QED
      BY <3>3, <3>4
  <2>2. CASE st.hash # QueueHash(f.q)
    <3>1. st'.text = NoTexts
      BY <1>1, <1>2, <2>2, InvalidatedFacts DEF CheckHash, Invalidated, StateOK
    <3> QED
      BY <1>6, <3>1, CacheEmpty
  <2> QED
    BY <2>1, <2>2
<1> QED
  BY <1>1, <1>2, <1>5, <1>6, <1>7, KeepsAlone

LEMMA SettleStep ==
  ASSUME IInv, NEW g \in Goroutines, Settle(g)
  PROVE  IInv'
<1> PICK f : f = go[g]
  OBVIOUS
<1> PICK page : page = ClampPage(f.page, Len(View(f.q, st.sortBy, st.filterBy)))
  OBVIOUS
<1> PICK r : r = [f EXCEPT !.at = "lookup", !.sortBy = st.sortBy, !.filterBy = st.filterBy,
                           !.locked = st.locked, !.page = page]
  OBVIOUS
<1>1. /\ f.at = "page" /\ st' = [st EXCEPT !.page = f.page]
      /\ queue' = queue /\ added' = added /\ loop' = loop /\ screen' = screen
  BY DEF Settle, At
<1>2. /\ Fits(f) /\ Fresh(f, queue, st) /\ Distinct(f.q) /\ StateOK(st) /\ ScreenOK(screen)
      /\ MaxPage \in Nat /\ f.page \in 1 .. MaxPage /\ st.sortBy \in Sorts
  BY <1>1, HereFacts, Parameters, PageCounts DEF Fits, StateOK
<1>3. /\ StateOK(st') /\ SameCache(st', st) /\ st'.page = f.page
  BY <1>1, <1>2 DEF StateOK, SameCache, SameSettings
<1>4. page \in 1 .. MaxPage
  <2>1. f.page \in Nat
    BY <1>2
  <2> QED
    BY <1>2, <2>1, ViewFacts, ClampFacts
<1>5. /\ IsFrame(r) /\ r.at = "lookup" /\ r.q = f.q /\ r.page = page /\ (r.late <=> f.late)
      /\ r.sortBy = st.sortBy /\ r.filterBy = st.filterBy /\ r.locked = st.locked
  BY <1>2 DEF IsFrame, Fits
<1>6. Fits(r) /\ Wanted(r, queue, st') /\ (Looks(r) => Looks(f))
  BY <1>1, <1>2, <1>4, <1>5 DEF Fits, OnIndex, AfterJump, Wanted, Looks
<1>7. Fresh(r, queue, st')
  BY <1>1, <1>2, <1>3, <1>5 DEF Fresh, SameCache, SameSettings
<1>8. /\ go'[g] = r /\ go' = [h \in Goroutines |-> go'[h]]
      /\ \A h \in Goroutines \ {g} : go'[h] = IF st.page # f.page THEN Unwanted(h) ELSE go[h]
  BY DEF Settle
<1>9. \A h \in Goroutines \ {g} : Marked(h)
  BY <1>1, <1>3, <1>8 DEF Marked, Stays, LosesWant, SameCache
<1> DEFINE M == {g}
<1>10. /\ M \in SUBSET Goroutines /\ \A h \in Goroutines \ M : Marked(h)
       /\ \A h \in M : go[h].at # "invalidate" /\ (Looks(go'[h]) => Looks(go[h]))
       /\ \A h \in M : Fits(go'[h]) /\ Fresh(go'[h], queue', st') /\ Wanted(go'[h], queue', st')
  BY <1>1, <1>6, <1>7, <1>8, <1>9
<1>11. CacheInv'
  BY <1>1, <1>3, <1>10, CacheKept
<1>12. QueueOK(queue', added') /\ loop' \in {0, 1}
  BY <1>1 DEF IInv
<1> QED
  BY <1>1, <1>2, <1>3, <1>8, <1>10, <1>11, <1>12, Keeps

LEMMA LookUpStep ==
  ASSUME IInv, NEW g \in Goroutines, LookUp(g)
  PROVE  IInv'
<1> PICK f : f = go[g]
  OBVIOUS
<1> PICK hit : hit = st.text[f.page]
  OBVIOUS
<1>1. /\ f.at = "lookup"
      /\ queue' = queue /\ added' = added /\ loop' = loop /\ st' = st /\ screen' = screen
  BY DEF LookUp, At
<1>2. /\ Fits(f) /\ Fresh(f, queue, st) /\ Distinct(f.q) /\ IsFrame(f) /\ f.page \in 1 .. MaxPage
  BY <1>1, HereFacts DEF Fits
<1>3. CASE hit # NoText
  <2> PICK late : late = (f.late \/ hit.late \/ \E h \in Goroutines : At(h, "invalidate"))
    OBVIOUS
  <2> PICK r : r = [f EXCEPT !.at = "edit", !.text = hit.text, !.late = late]
    OBVIOUS
  <2>1. Step(g, r)
    BY <1>3 DEF LookUp
  <2>2. /\ IsFrame(r) /\ r.at = "edit" /\ r.q = f.q /\ r.page = f.page /\ r.sortBy = f.sortBy
        /\ r.filterBy = f.filterBy /\ r.locked = f.locked /\ r.text = hit.text /\ r.late = late
    BY <1>2 DEF IsFrame
  <2>3. ASSUME ~late PROVE r.text = Render(r)
    <3>1. ~f.late /\ ~hit.late /\ ~Pending
      BY <2>3 DEF Pending, At
    <3>2. EntriesCurrent(queue, st)
      BY <1>1, <3>1 DEF IInv, CacheInv, Looks
    <3>3. Held(st, f.page)
      BY <1>3, <3>1 DEF Held
    <3>4. hit.text = RenderPage(queue, st.sortBy, st.filterBy, st.locked, f.page)
      BY <1>2, <3>2, <3>3 DEF EntriesCurrent, Shows
    <3>5. f.q = queue /\ f.sortBy = st.sortBy /\ f.filterBy = st.filterBy /\ f.locked = st.locked
      BY <1>1, <1>2, <3>1 DEF Fresh
    <3> QED
      BY <2>2, <3>4, <3>5 DEF Render
  <2>4. Fits(r)
    <3>1. r.late => late
      BY <2>2
    <3> QED
      BY <1>1, <1>2, <2>2, <2>3 DEF Fits, OnIndex
  <2>5. Fresh(r, queue, st) /\ Wanted(r, queue, st) /\ ~Looks(r)
    BY <2>2 DEF OnIndex, AfterJump, Fresh, Wanted, Looks
  <2> QED
    BY <1>1, <2>1, <2>4, <2>5, HereFacts, KeepsAlone
<1>4. CASE hit = NoText
  <2> PICK r : r = [f EXCEPT !.at = "store", !.text = Render(f)]
    OBVIOUS
  <2>1. Step(g, r)
    BY <1>4 DEF LookUp
  <2>2. /\ IsFrame(r) /\ r.at = "store" /\ r.q = f.q /\ r.page = f.page /\ r.sortBy = f.sortBy
        /\ r.filterBy = f.filterBy /\ r.locked = f.locked /\ r.text = Render(f)
        /\ (r.late <=> f.late)
    BY <1>2 DEF IsFrame
  <2>3. r.text = Render(r)
    BY <2>2 DEF Render
  <2>4. Fits(r) /\ Fresh(r, queue, st) /\ Wanted(r, queue, st) /\ ~Looks(r)
    BY <1>1, <1>2, <2>2, <2>3 DEF Fits, OnIndex, AfterJump, Fresh, Wanted, Looks
  <2> QED
    BY <1>1, <2>1, <2>4, HereFacts, KeepsAlone
<1> QED
  BY <1>3, <1>4

\* A page stored while nobody is late is the page of now.
LEMMA StoreStep ==
  ASSUME IInv, NEW g \in Goroutines, Store(g)
  PROVE  IInv'
<1> PICK f : f = go[g]
  OBVIOUS
<1> PICK r : r = [f EXCEPT !.at = "edit"]
  OBVIOUS
<1> PICK x : x = [text |-> f.text, late |-> f.late \/ st.hash # QueueHash(f.q)]
  OBVIOUS
<1>1. /\ Step(g, r) /\ f.at = "store" /\ st' = [st EXCEPT !.text[f.page] = x]
      /\ queue' = queue /\ added' = added /\ loop' = loop /\ screen' = screen
  BY DEF Store, Goto, At
<1>2. /\ Fits(f) /\ Fresh(f, queue, st) /\ StateOK(st) /\ f.page \in 1 .. MaxPage
      /\ f.text = Render(f)
  BY <1>1, HereFacts DEF Fits
<1>3. /\ IsFrame(r) /\ r.at = "edit" /\ r.q = f.q /\ r.page = f.page /\ r.sortBy = f.sortBy
      /\ r.filterBy = f.filterBy /\ r.locked = f.locked /\ r.text = f.text
  BY <1>2, GoesOn
<1>4. Fits(r) /\ Fresh(r, queue, st) /\ Wanted(r, queue, st) /\ ~Looks(r)
  BY <1>1, <1>2, <1>3 DEF Fits, OnIndex, AfterJump, Fresh, Wanted, Looks, Render
<1>5. /\ st' = [page |-> st.page, sortBy |-> st.sortBy, filterBy |-> st.filterBy,
                locked |-> st.locked, hash |-> st.hash,
                text |-> [st.text EXCEPT ![f.page] = x], stats |-> st.stats]
      /\ st.text = [p \in 1 .. MaxPage |-> st.text[p]]
  BY <1>1, <1>2 DEF StateOK
<1>6. /\ st'.text[f.page] = x /\ \A p \in 1 .. MaxPage : p # f.page => st'.text[p] = st.text[p]
      /\ st'.text = [p \in 1 .. MaxPage |-> st'.text[p]]
      /\ SameSettings(st', st) /\ st'.page = st.page /\ st'.hash = st.hash
  BY <1>2, <1>5 DEF SameSettings
<1>7. StateOK(st')
  BY <1>2, <1>5, <1>6 DEF StateOK
<1>8. CacheInv'
  <2>1. go'[g] = r /\ \A h \in Goroutines \ {g} : go'[h] = go[h]
    BY <1>1, Turns
  <2>2. CASE Pending
    <3>1. PICK h \in Goroutines : go[h].at = "invalidate"
      BY <2>2 DEF Pending
    <3>2. go'[h].at = "invalidate"
      BY <1>1, <2>1, <3>1
    <3> QED
      BY <3>2, CachePending
  <2>3. CASE ~Pending
    <3>1. /\ EntriesTrue(queue, added, st)
          /\ (\E h \in Goroutines : Looks(go[h])) => EntriesCurrent(queue, st)
      BY <2>3 DEF IInv, CacheInv
    <3>2. (\E h \in Goroutines : Looks(go'[h])) => \E h \in Goroutines : Looks(go[h])
      BY <1>4, <2>1
    <3>3. Ancestor(queue, queue, added)
      BY OwnAncestor DEF IInv, QueueOK
    <3>4. ASSUME Held(st', f.page)
          PROVE  st'.hash = QueueHash(queue) /\ Shows(st', f.page, queue)
      <4>1. ~f.late /\ st.hash = QueueHash(f.q)
        <5> PICK late : late = (f.late \/ st.hash # QueueHash(f.q))
          OBVIOUS
        <5>1. x = [text |-> f.text, late |-> late]
          OBVIOUS
        <5>2. x.late = late
          BY <5>1
        <5>3. ~x.late
          BY <1>6, <3>4 DEF Held
        <5> QED
          BY <5>2, <5>3
      <4>2. /\ f.q = queue /\ f.sortBy = st.sortBy /\ f.filterBy = st.filterBy
            /\ f.locked = st.locked
        BY <1>1, <1>2, <4>1 DEF Fresh
      <4>3. st'.text[f.page].text = RenderPage(queue, st.sortBy, st.filterBy, st.locked, f.page)
        BY <1>2, <1>6, <4>2 DEF Render
      <4> QED
        BY <1>6, <4>1, <4>2, <4>3 DEF Shows, SameSettings
    <3>5. ASSUME NEW p \in 1 .. MaxPage, Held(st', p), p # f.page
          PROVE  Held(st, p) /\ \A q : Shows(st, p, q) => Shows(st', p, q)
      BY <1>6, <3>5 DEF Held, Shows, SameSettings
    <3>6. EntriesTrue(queue, added, st')
      <4> SUFFICES ASSUME NEW p \in 1 .. MaxPage, Held(st', p)
                   PROVE  \E q0 : /\ Ancestor(q0, queue, added) /\ st'.hash = QueueHash(q0)
                                  /\ Shows(st', p, q0)
        BY DEF EntriesTrue
      <4>1. CASE p = f.page
        BY <3>3, <3>4, <4>1
      <4>2. CASE p # f.page
        <5>1. PICK q0 : Ancestor(q0, queue, added) /\ st.hash = QueueHash(q0) /\ Shows(st, p, q0)
          BY <3>1, <3>5, <4>2 DEF EntriesTrue
        <5> QED
          BY <1>6, <3>5, <4>2, <5>1
      <4> QED
        BY <4>1, <4>2
    <3>7. ASSUME EntriesCurrent(queue, st) PROVE EntriesCurrent(queue, st')
      <4> SUFFICES ASSUME NEW p \in 1 .. MaxPage, Held(st', p) PROVE Shows(st', p, queue)
        BY DEF EntriesCurrent
      <4>1. CASE p = f.page
        BY <3>4, <4>1
      <4>2. CASE p # f.page
        BY <3>5, <3>7, <4>2 DEF EntriesCurrent
      <4> QED
        BY <4>1, <4>2
    <3>8. EntriesTrue(queue', added', st')
          /\ ((\E h \in Goroutines : Looks(go'[h])) => EntriesCurrent(queue', st'))
      BY <1>1, <3>1, <3>2, <3>6, <3>7
    <3> QED
      BY <3>8 DEF CacheInv
  <2> QED
    BY <2>2, <2>3
<1> QED
  BY <1>1, <1>4, <1>6, <1>7, <1>8, HereFacts, KeepsAlone

LEMMA EditStep ==
  ASSUME IInv, NEW g \in Goroutines, Edit(g)
  PROVE  IInv'
<1> PICK f : f = go[g]
  OBVIOUS
<1> PICK page : page = f.page
  OBVIOUS
<1> PICK v : v = View(f.q, f.sortBy, f.filterBy)
  OBVIOUS
<1>1. /\ Return(g) /\ f.at = "edit"
      /\ queue' = queue /\ added' = added /\ loop' = loop /\ st' = st
      /\ screen' = [NoScreen EXCEPT !.kind = "page", !.text = f.text, !.late = f.late,
                                    !.rows = Len(PageSlice(v, page))]
  BY DEF Edit, At
<1>2. Distinct(f.q) /\ page \in 1 .. MaxPage /\ f.sortBy \in Sorts /\ MaxPage \in Nat
  BY <1>1, HereFacts, Parameters, PageCounts DEF Fits
<1>3. page \in Nat \ {0}
  BY <1>2
<1>4. IsView(v, f.q)
  BY <1>2, ViewFacts
<1>5. PageSlice(v, page) \in Seq(Tracks)
  BY <1>2, <1>3, <1>4, RowFacts
<1>6. Len(PageSlice(v, page)) \in Nat
  BY <1>5
<1>7. ScreenOK(screen')
  BY <1>1, <1>6 DEF NoScreen, ScreenOK
<1> QED
  BY <1>1, <1>7, ReturnStep

LEMMA InvalidateStep ==
  ASSUME IInv, NEW g \in Goroutines, Invalidate(g)
  PROVE  IInv'
<1> PICK f : f = go[g]
  OBVIOUS
<1> PICK l : l = CASE f.cmd \in {"mu", "md"} -> "moved"
                   [] f.cmd = "jmp" -> "skip"
                   [] f.cmd = "clr" -> "drop"
                   [] OTHER -> "render"
  OBVIOUS
<1> PICK r : r = [f EXCEPT !.at = l]
  OBVIOUS
<1>1. /\ Step(g, r) /\ f.at = "invalidate" /\ st' = Invalidated(st)
      /\ queue' = queue /\ added' = added /\ loop' = loop /\ screen' = screen
  BY DEF Invalidate, Goto, At
<1>2. \/ f.cmd \in {"mu", "md"} /\ l = "moved"
      \/ f.cmd = "jmp" /\ l = "skip"
      \/ f.cmd \notin {"mu", "md", "jmp"} /\ l \in Plain
  <2>1. f.cmd \in {"mu", "md"} => l = "moved"
    BY Zenon
  <2>2. "jmp" \notin {"mu", "md"} /\ "clr" \notin {"mu", "md"} /\ "jmp" # "clr"
    OBVIOUS
  <2>3. f.cmd = "jmp" => l = "skip"
    BY <2>2, Zenon
  <2>4. f.cmd = "clr" => l = "drop"
    BY <2>2, Zenon
  <2>5. f.cmd \notin {"mu", "md"} /\ f.cmd # "jmp" /\ f.cmd # "clr" => l = "render"
    BY Zenon
  <2> QED
    BY <2>1, <2>3, <2>4, <2>5 DEF Plain
<1>3. Fits(f) /\ Wanted(f, queue, st) /\ StateOK(st) /\ ScreenOK(screen)
  BY HereFacts
<1>4. /\ IsFrame(r) /\ r.at = l /\ r.cmd = f.cmd /\ r.arg = f.arg /\ r.want = f.want
      /\ Distinct(r.q)
  BY <1>3, GoesOn
<1>5. Fits(r)
  BY <1>1, <1>2, <1>3, <1>4 DEF Plain, Fits, OnIndex
<1>6. Fresh(r, queue, st) /\ ~Looks(r)
  BY <1>2, <1>4 DEF Plain, Fresh, Looks
<1>7. Wanted(r, queue, st)
  BY <1>1, <1>2, <1>3, <1>4 DEF Plain, OnIndex, AfterJump, Wanted
<1>8. StateOK(st') /\ st'.text = NoTexts /\ SameSettings(st', st) /\ st'.page = st.page
  BY <1>1, <1>3, InvalidatedFacts
<1>9. CacheInv'
  BY <1>8, CacheEmpty
<1> QED
  BY <1>1, <1>3, <1>5, <1>6, <1>7, <1>8, <1>9, KeepsAlone

LEMMA TurnPageStep ==
  ASSUME IInv, NEW g \in Goroutines, TurnPage(g)
  PROVE  IInv'
<1> PICK f : f = go[g]
  OBVIOUS
<1> PICK page : page = ClampPage(f.arg, Len(View(queue, st.sortBy, st.filterBy)))
  OBVIOUS
<1> PICK r : r = [f EXCEPT !.at = "render"]
  OBVIOUS
<1>1. /\ f.at = "pg" /\ st' = [st EXCEPT !.page = page]
      /\ queue' = queue /\ added' = added /\ loop' = loop /\ screen' = screen
  BY DEF TurnPage, At
<1>2. /\ Fits(f) /\ Distinct(queue) /\ StateOK(st) /\ ScreenOK(screen) /\ f.arg \in Nat
      /\ st.sortBy \in Sorts
  BY <1>1, HereFacts DEF Fits, StateOK
<1>3. page \in 1 .. MaxPage
  BY <1>2, ViewFacts, ClampFacts
<1>4. StateOK(st') /\ SameCache(st', st)
  BY <1>1, <1>2, <1>3 DEF StateOK, SameCache, SameSettings
<1>5. IsFrame(r) /\ r.at = "render" /\ Distinct(r.q)
  BY <1>2, GoesOn
<1>6. Fits(r) /\ Fresh(r, queue', st') /\ Wanted(r, queue', st') /\ ~Looks(r)
  BY <1>5 DEF Fits, OnIndex, AfterJump, Fresh, Wanted, Looks
<1>7. /\ go'[g] = r /\ go' = [h \in Goroutines |-> go'[h]]
      /\ \A h \in Goroutines \ {g} : go'[h] = Unwanted(h)
  BY DEF TurnPage
<1>8. \A h \in Goroutines \ {g} : Marked(h)
  BY <1>1, <1>4, <1>7 DEF Marked, LosesWant, SameCache
<1> DEFINE M == {g}
<1>9. /\ M \in SUBSET Goroutines /\ \A h \in Goroutines \ M : Marked(h)
      /\ \A h \in M : go[h].at # "invalidate" /\ (Looks(go'[h]) => Looks(go[h]))
      /\ \A h \in M : Fits(go'[h]) /\ Fresh(go'[h], queue', st') /\ Wanted(go'[h], queue', st')
  BY <1>1, <1>6, <1>7, <1>8
<1>10. CacheInv'
  BY <1>1, <1>4, <1>9, CacheKept
<1>11. QueueOK(queue', added') /\ loop' \in {0, 1}
  BY <1>1 DEF IInv
<1> QED
  BY <1>1, <1>2, <1>4, <1>7, <1>9, <1>10, <1>11, Keeps

LEMMA QueueHandlerStep ==
  ASSUME IInv, NEW g \in Goroutines, QueueHandler(g)
  PROVE  IInv'
<1> PICK f : f = go[g]
  OBVIOUS
<1> PICK text : text = RenderPage(f.q, st.sortBy, st.filterBy, st.locked, 1)
  OBVIOUS
<1> PICK r : r = [f EXCEPT !.at = "store", !.page = 1, !.sortBy = st.sortBy,
                           !.filterBy = st.filterBy, !.locked = st.locked, !.text = text]
  OBVIOUS
<1>1. /\ f.at = "queue" /\ st' = [Invalidated(st) EXCEPT !.page = 1]
      /\ queue' = queue /\ added' = added /\ loop' = loop /\ screen' = screen
  BY DEF QueueHandler, At
<1>2. /\ Fits(f) /\ Fresh(f, queue, st) /\ StateOK(st) /\ ScreenOK(screen)
      /\ MaxPage \in Nat \ {0} /\ st.sortBy \in Sorts
  BY HereFacts, Parameters, PageCounts DEF StateOK
<1>3. 1 \in 1 .. MaxPage
  BY <1>2
<1>4. StateOK(st') /\ st'.text = NoTexts /\ SameSettings(st', st)
  <2> PICK s : s = Invalidated(st)
    OBVIOUS
  <2>1. StateOK(s) /\ s.text = NoTexts /\ SameSettings(s, st) /\ st' = [s EXCEPT !.page = 1]
    BY <1>1, <1>2, InvalidatedFacts
  <2> QED
    BY <1>3, <2>1 DEF StateOK, SameSettings
<1>5. /\ IsFrame(r) /\ r.at = "store" /\ r.q = f.q /\ r.page = 1 /\ (r.late <=> f.late)
      /\ r.sortBy = st.sortBy /\ r.filterBy = st.filterBy /\ r.locked = st.locked
      /\ r.text = text /\ Distinct(r.q)
  BY <1>2 DEF IsFrame, Fits
<1>6. r.text = Render(r)
  BY <1>5 DEF Render
<1>7. Fits(r) /\ Wanted(r, queue, st')
  BY <1>2, <1>3, <1>5, <1>6 DEF Fits, OnIndex, AfterJump, Wanted
<1>8. Fresh(r, queue, st')
  BY <1>1, <1>2, <1>4, <1>5 DEF Fresh, SameSettings
<1>9. /\ go'[g] = r /\ go' = [h \in Goroutines |-> go'[h]]
      /\ \A h \in Goroutines \ {g} : go'[h] = Unwanted(h)
  BY DEF QueueHandler
<1>10. \A h \in Goroutines \ {g} : Marked(h)
  BY <1>1, <1>4, <1>9 DEF Marked, LosesWant
<1> DEFINE M == {g}
<1>11. /\ M \in SUBSET Goroutines /\ \A h \in Goroutines \ M : Marked(h)
       /\ \A h \in M : Fits(go'[h]) /\ Fresh(go'[h], queue', st') /\ Wanted(go'[h], queue', st')
  BY <1>1, <1>7, <1>8, <1>9, <1>10
<1>12. CacheInv'
  BY <1>4, CacheEmpty
<1>13. QueueOK(queue', added') /\ loop' \in {0, 1}
  BY <1>1 DEF IInv
<1> QED
  BY <1>1, <1>2, <1>4, <1>9, <1>11, <1>12, <1>13, Keeps

-----------------------------------------------------------------------------
(* Steps that overtake the others.                                           *)

LEMMA LateStep ==
  ASSUME IInv, NEW g \in Goroutines, NEW r, Late(g, r),
         Fits(r), Fresh(r, queue', st'), Wanted(r, queue', st'),
         QueueOK(queue', added'), loop' \in {0, 1}, StateOK(st'), ScreenOK(screen'), CacheInv'
  PROVE  IInv'
<1> DEFINE M == {g}
<1>1. /\ go' = [h \in Goroutines |-> go'[h]]
      /\ M \in SUBSET Goroutines /\ \A h \in Goroutines \ M : Marked(h)
      /\ \A h \in M : Fits(go'[h]) /\ Fresh(go'[h], queue', st') /\ Wanted(go'[h], queue', st')
  BY Overtakes
<1> QED
  BY <1>1, Keeps

LEMMA SortStep ==
  ASSUME IInv, NEW g \in Goroutines, Sort(g)
  PROVE  IInv'
<1> PICK f : f = go[g]
  OBVIOUS
<1> PICK r : r = [f EXCEPT !.at = "render"]
  OBVIOUS
<1> PICK s : s = Invalidated(st)
  OBVIOUS
<1>1. /\ Late(g, r) /\ queue' = queue /\ added' = added /\ loop' = loop /\ screen' = screen
      /\ \/ f.at = "srt" /\ st' = [s EXCEPT !.sortBy = f.arg, !.page = 1]
         \/ f.at = "flt" /\ st' = [s EXCEPT !.filterBy = f.arg, !.page = 1]
  BY DEF Sort, At, SetSort, SetFilter
<1>2. Fits(f) /\ StateOK(s) /\ s.text = NoTexts /\ ScreenOK(screen)
  BY HereFacts, InvalidatedFacts
<1>3. 1 \in 1 .. MaxPage
  <2>1. MaxPage \in Nat \ {0}
    BY Parameters, PageCounts
  <2> QED
    BY <2>1
<1>4. StateOK(st') /\ st'.text = NoTexts
  <2>1. CASE f.at = "srt"
    <3>1. f.arg \in Sorts /\ st' = [s EXCEPT !.sortBy = f.arg, !.page = 1]
      BY <1>1, <1>2, <2>1 DEF Fits
    <3> QED
      BY <1>2, <1>3, <3>1 DEF StateOK
  <2>2. CASE f.at = "flt"
    <3>1. f.arg \in Filters /\ st' = [s EXCEPT !.filterBy = f.arg, !.page = 1]
      BY <1>1, <1>2, <2>2 DEF Fits
    <3> QED
      BY <1>2, <1>3, <3>1 DEF StateOK
  <2> QED
    BY <1>1, <2>1, <2>2
<1>5. IsFrame(r) /\ r.at = "render" /\ Distinct(r.q)
  BY <1>2, GoesOn
<1>6. Fits(r) /\ Fresh(r, queue', st') /\ Wanted(r, queue', st')
  BY <1>5 DEF Fits, OnIndex, AfterJump, Fresh, Wanted
<1>7. CacheInv'
  BY <1>4, CacheEmpty
<1>8. QueueOK(queue', added') /\ loop' \in {0, 1}
  BY <1>1 DEF IInv
<1> QED
  BY <1>1, <1>2, <1>4, <1>6, <1>7, <1>8, LateStep

LEMMA ToggleLockStep ==
  ASSUME IInv, NEW g \in Goroutines, ToggleLock(g)
  PROVE  IInv'
<1> PICK f : f = go[g]
  OBVIOUS
<1> PICK r : r = [f EXCEPT !.at = "invalidate"]
  OBVIOUS
<1>1. /\ Late(g, r) /\ f.at = "lck" /\ st' = [st EXCEPT !.locked = ~st.locked]
      /\ queue' = queue /\ added' = added /\ loop' = loop /\ screen' = screen
  BY DEF ToggleLock, At
<1>2. Fits(f) /\ StateOK(st) /\ ScreenOK(screen) /\ f.cmd = "lck"
  BY <1>1, HereFacts DEF Fits
<1>3. StateOK(st')
  BY <1>1, <1>2 DEF StateOK
<1>4. IsFrame(r) /\ r.at = "invalidate" /\ r.cmd = "lck" /\ Distinct(r.q)
  BY <1>2, GoesOn
<1>5. Fits(r) /\ Fresh(r, queue', st') /\ Wanted(r, queue', st')
  BY <1>4 DEF Fits, OnIndex, AfterJump, Fresh, Wanted
<1>6. CacheInv'
  BY <1>1, <1>4, Overtakes, CachePending
<1>7. QueueOK(queue', added') /\ loop' \in {0, 1}
  BY <1>1 DEF IInv
<1> QED
  BY <1>1, <1>2, <1>3, <1>5, <1>6, <1>7, LateStep

LEMMA NewStateFacts == StateOK(NewState) /\ NewState.text = NoTexts
<1>1. SortDefault \in Sorts /\ FilterAll \in Filters
  BY Parameters
<1>2. 1 \in 1 .. MaxPage
  <2>1. MaxPage \in Nat \ {0}
    BY Parameters, PageCounts
  <2> QED
    BY <2>1
<1>3. NoTexts = [p \in 1 .. MaxPage |-> NoTexts[p]]
  BY DEF NoTexts
<1> QED
  BY <1>1, <1>2, <1>3 DEF NewState, StateOK

LEMMA DropStep ==
  ASSUME IInv, NEW g \in Goroutines, Drop(g)
  PROVE  IInv'
<1>1. /\ Late(g, Idle) /\ st' = NewState /\ queue' = queue /\ added' = added /\ loop' = loop
      /\ Show("cleared")
  BY DEF Drop
<1>2. StateOK(st') /\ st'.text = NoTexts /\ ScreenOK(screen')
  BY <1>1, NewStateFacts, PlainScreen
<1>3. CacheInv'
  BY <1>2, CacheEmpty
<1>4. QueueOK(queue', added') /\ loop' \in {0, 1}
  BY <1>1 DEF IInv
<1> QED
  BY <1>1, <1>2, <1>3, <1>4, IdleFacts, LateStep

\* A handler that changes the queue, and has yet to invalidate.
LEMMA ChangeStep ==
  ASSUME IInv, NEW g \in Goroutines, NEW q, Change(g, q, "invalidate"),
         Distinct(q), Members(q) \subseteq Members(queue),
         st' = st, added' = added, loop' \in {0, 1}, screen' = screen,
         NEW r, r = [go[g] EXCEPT !.at = "invalidate"], Fits(r), Wanted(r, q, st)
  PROVE  IInv'
<1>1. queue' = q
  BY DEF Change
<1>2. r.at = "invalidate"
  BY HereFacts, GoesOn
<1>3. Fresh(r, queue', st') /\ Wanted(r, queue', st')
  BY <1>1, <1>2 DEF Fresh
<1>4. QueueOK(queue', added')
  BY <1>1 DEF IInv, QueueOK
<1>5. StateOK(st') /\ ScreenOK(screen')
  BY HereFacts
<1>6. CASE q = queue
  <2>1. Step(g, r)
    BY <1>6 DEF Change, Goto
  <2>2. /\ go'[g] = r /\ go' = [h \in Goroutines |-> go'[h]]
        /\ \A h \in Goroutines \ {g} : go'[h] = go[h]
    BY <2>1, Turns
  <2>3. \A h \in Goroutines \ {g} : Marked(h)
    BY <1>1, <1>6, <2>2, HereFacts DEF Marked, Stays
  <2>4. CacheInv'
    BY <1>2, <2>2, CachePending
  <2> DEFINE M == {g}
  <2>5. /\ M \in SUBSET Goroutines /\ \A h \in Goroutines \ M : Marked(h)
        /\ \A h \in M : Fits(go'[h]) /\ Fresh(go'[h], queue', st') /\ Wanted(go'[h], queue', st')
    BY <1>3, <2>2, <2>3
  <2> QED
    BY <1>4, <1>5, <2>2, <2>4, <2>5, Keeps
<1>7. CASE q # queue
  <2>1. Late(g, r)
    BY <1>7 DEF Change
  <2>2. CacheInv'
    BY <1>2, <2>1, Overtakes, CachePending
  <2> QED
    BY <1>3, <1>4, <1>5, <2>1, <2>2, LateStep
<1> QED
  BY <1>6, <1>7

LEMMA RemoveTrackStep ==
  ASSUME IInv, NEW g \in Goroutines, RemoveTrack(g)
  PROVE  IInv'
<1> PICK f : f = go[g]
  OBVIOUS
<1> PICK n : n = f.arg
  OBVIOUS
<1>1. f.at = "remove" /\ loop' = loop /\ st' = st /\ screen' = screen /\ added' = added
  BY DEF RemoveTrack, At
<1>2. Fits(f) /\ Distinct(queue) /\ n \in Nat /\ f.cmd = "rm"
  BY <1>1, HereFacts DEF Fits, OnIndex
<1>3. CASE n < Len(queue)
  <2> PICK q : q = RemoveIndex(queue, n)
    OBVIOUS
  <2> PICK r : r = [f EXCEPT !.at = "invalidate"]
    OBVIOUS
  <2>1. Change(g, q, "invalidate")
    BY <1>3 DEF RemoveTrack
  <2>2. Distinct(q) /\ Members(q) \subseteq Members(queue)
    BY <1>2, <1>3, RemovalLeaves DEF Leaves
  <2>3. IsFrame(r) /\ r.at = "invalidate" /\ r.cmd = "rm" /\ Distinct(r.q)
    BY <1>2, GoesOn
  <2>4. Fits(r) /\ Wanted(r, q, st)
    BY <2>3 DEF Fits, OnIndex, AfterJump, Wanted
  <2>5. loop' \in {0, 1}
    BY <1>1 DEF IInv
  <2> QED
    BY <1>1, <2>1, <2>2, <2>4, <2>5, ChangeStep
<1>4. CASE ~(n < Len(queue))
  <2>1. Return(g) /\ queue' = queue
    BY <1>4 DEF RemoveTrack
  <2> QED
    BY <1>1, <2>1, HereFacts, ReturnStep
<1> QED
  BY <1>3, <1>4

\* The argument of "mu" and "md" follows the track.
LEMMA MoveStep ==
  ASSUME IInv, NEW g \in Goroutines, Move(g)
  PROVE  IInv'
<1> PICK f : f = go[g]
  OBVIOUS
<1> PICK n : n = f.arg
  OBVIOUS
<1>1. /\ f.at \in {"mu", "md"} /\ loop' = loop /\ st' = st /\ screen' = screen /\ added' = added
      /\ MoveBy(g, n, n - 1) \/ MoveBy(g, n, n + 1)
  BY DEF Move, At
<1>2. /\ Fits(f) /\ Wanted(f, queue, st) /\ Distinct(queue) /\ StateOK(st) /\ ScreenOK(screen)
      /\ n \in Nat \ {0} /\ f.cmd = f.at
  BY <1>1, HereFacts DEF Fits, OnIndex
<1>3. PICK to : MoveBy(g, n, to) /\ (to = n - 1 \/ to = n + 1)
  BY <1>1
<1>4. to \in Nat
  BY <1>2, <1>3
<1>5. CASE CanMove(queue, n, to)
  <2> PICK q : q = Moved(queue, n, to)
    OBVIOUS
  <2> PICK r : r = [f EXCEPT !.at = "invalidate", !.arg = to]
    OBVIOUS
  <2>1. Late(g, r) /\ queue' = q
    BY <1>3, <1>5 DEF MoveBy
  <2>2. /\ Distinct(q) /\ Members(q) \subseteq Members(queue)
        /\ to < Len(q) /\ q[to + 1] = queue[n + 1]
    BY <1>2, <1>4, <1>5, MovedQueue
  <2>3. to # 0
    BY <1>4, <1>5 DEF CanMove
  <2>4. /\ IsFrame(r) /\ r.at = "invalidate" /\ r.cmd = f.at /\ r.arg = to /\ r.want = f.want
        /\ r.q = f.q
    BY <1>2 DEF IsFrame, Fits
  <2>5. Fits(r) /\ Fresh(r, queue', st')
    BY <1>1, <1>2, <1>4, <2>3, <2>4 DEF Fits, OnIndex, Fresh
  <2>6. Wanted(r, queue', st')
    BY <1>1, <1>2, <2>1, <2>2, <2>4 DEF Wanted, OnIndex, AfterJump
  <2>7. CacheInv'
    BY <2>1, <2>4, Overtakes, CachePending
  <2>8. QueueOK(queue', added') /\ loop' \in {0, 1}
    BY <1>1, <2>1, <2>2 DEF IInv, QueueOK
  <2> QED
    BY <1>1, <1>2, <2>1, <2>5, <2>6, <2>7, <2>8, LateStep
<1>6. CASE ~CanMove(queue, n, to)
  <2>1. Return(g) /\ queue' = queue
    BY <1>3, <1>6 DEF MoveBy
  <2> QED
    BY <1>1, <1>2, <2>1, ReturnStep
<1> QED
  BY <1>5, <1>6

LEMMA JumpCheckStep ==
  ASSUME IInv, NEW g \in Goroutines, JumpCheck(g)
  PROVE  IInv'
<1> PICK f : f = go[g]
  OBVIOUS
<1> PICK r : r = [f EXCEPT !.at = "trim"]
  OBVIOUS
<1>1. /\ f.at = "jmp" /\ (Step(g, r) \/ Return(g))
      /\ queue' = queue /\ added' = added /\ loop' = loop /\ st' = st /\ screen' = screen
  BY DEF JumpCheck, At, Goto
<1>2. Fits(f) /\ Wanted(f, queue, st) /\ f.cmd = "jmp"
  BY <1>1, HereFacts DEF Fits
<1>3. /\ IsFrame(r) /\ r.at = "trim" /\ r.cmd = f.cmd /\ Distinct(r.q) /\ r.want = f.want
      /\ r.arg = f.arg
  BY <1>2, GoesOn
<1>4. Fits(r) /\ Fresh(r, queue, st) /\ ~Looks(r)
  BY <1>1, <1>2, <1>3 DEF Fits, OnIndex, Fresh, Looks
<1>5. Wanted(r, queue, st)
  BY <1>1, <1>2, <1>3 DEF Wanted, OnIndex, AfterJump
<1> QED
  BY <1>1, <1>4, <1>5, HereFacts, KeepsAlone, ReturnStep

LEMMA JumpStep ==
  ASSUME IInv, NEW g \in Goroutines, Jump(g)
  PROVE  IInv'
<1> PICK f : f = go[g]
  OBVIOUS
<1> PICK n : n = f.arg
  OBVIOUS
<1>1. f.at = "trim" /\ loop' = loop /\ st' = st /\ screen' = screen /\ added' = added
  BY DEF Jump, At
<1>2. /\ Fits(f) /\ Wanted(f, queue, st) /\ Distinct(queue)
      /\ n \in Nat \ {0} /\ f.cmd = "jmp"
  BY <1>1, HereFacts DEF Fits, OnIndex
<1> PICK q : q = TrimBefore(queue, n)
  OBVIOUS
<1> PICK r : r = [f EXCEPT !.at = "invalidate"]
  OBVIOUS
<1>3. Change(g, q, "invalidate")
  BY DEF Jump
<1>4. /\ Distinct(q) /\ Members(q) \subseteq Members(queue)
      /\ n < Len(queue) => Len(q) > 1 /\ q[2] = queue[n + 1]
  <2>1. CASE n < Len(queue)
    BY <1>2, <2>1, TrimmedQueue
  <2>2. CASE ~(n < Len(queue))
    <3>1. q = queue
      BY <2>2 DEF TrimBefore
    <3> QED
      BY <1>2, <2>2, <3>1
  <2> QED
    BY <2>1, <2>2
<1>5. /\ IsFrame(r) /\ r.at = "invalidate" /\ r.cmd = "jmp" /\ Distinct(r.q)
      /\ r.want = f.want
  BY <1>2, GoesOn
<1>6. Fits(r)
  BY <1>5 DEF Fits, OnIndex
<1>7. Wanted(r, q, st)
  BY <1>1, <1>2, <1>4, <1>5 DEF OnIndex, AfterJump, Wanted
<1>8. loop' \in {0, 1}
  BY <1>1 DEF IInv
<1> QED
  BY <1>1, <1>3, <1>4, <1>6, <1>7, <1>8, ChangeStep

LEMMA ReorderStep ==
  ASSUME IInv, NEW g \in Goroutines, Reorder(g)
  PROVE  IInv'
<1> PICK f : f = go[g]
  OBVIOUS
<1> PICK r : r = [f EXCEPT !.at = "invalidate"]
  OBVIOUS
<1>1. /\ f.at \in {"shf", "rev", "clr"} /\ loop' \in {0, 1}
      /\ st' = st /\ screen' = screen /\ added' = added
  BY DEF Reorder, At, IInv
<1>2. Fits(f) /\ Distinct(queue) /\ f.cmd = f.at
  BY <1>1, HereFacts DEF Fits
<1>3. PICK q : /\ Change(g, q, "invalidate")
               /\ q \in Shuffles(queue) \/ q = ReverseUpNext(queue) \/ q = <<>>
  BY DEF Reorder
<1>4. Distinct(q) /\ Members(q) \subseteq Members(queue)
  <2>1. CASE q = <<>>
    BY <2>1, NoTracks
  <2> QED
    BY <1>2, <1>3, <2>1, ShuffledQueue, ReversedQueue
<1>5. IsFrame(r) /\ r.at = "invalidate" /\ r.cmd = f.at /\ Distinct(r.q)
  BY <1>2, GoesOn
<1>6. Fits(r) /\ Wanted(r, q, st)
  BY <1>1, <1>5 DEF Fits, OnIndex, AfterJump, Wanted
<1> QED
  BY <1>1, <1>3, <1>4, <1>6, ChangeStep

LEMMA PlayNextFacts ==
  ASSUME IInv, PlayNext
  PROVE  loop' \in {0, 1} /\ Leaves(queue', queue)
<1>1. Distinct(queue) /\ loop \in {0, 1}
  BY DEF IInv, QueueOK
<1>2. CASE loop > 0
  BY <1>1, <1>2, SameLeaves DEF PlayNext
<1>3. CASE ~(loop > 0)
  BY <1>1, <1>3, CurrentLeaves DEF PlayNext
<1> QED
  BY <1>2, <1>3

LEMMA SkipAfterJumpStep ==
  ASSUME IInv, NEW g \in Goroutines, SkipAfterJump(g)
  PROVE  IInv'
<1>1. Late(g, Idle) /\ Show("none") /\ st' = st /\ added' = added /\ go[g].at = "skip"
  BY DEF SkipAfterJump, At
<1>2. loop' \in {0, 1} /\ Leaves(queue', queue)
  BY PlayNextFacts DEF SkipAfterJump
<1>3. QueueOK(queue', added') /\ \A q0 : Ancestor(q0, queue, added) => Ancestor(q0, queue', added')
  BY <1>1, <1>2 DEF IInv, QueueOK, Leaves
<1>4. StateOK(st') /\ ScreenOK(screen') /\ SameCache(st', st)
  BY <1>1, HereFacts, PlainScreen
<1> DEFINE M == {g}
<1>5. /\ M \in SUBSET Goroutines /\ \A h \in Goroutines \ M : IsOvertaken(h)
      /\ \A h \in M : go[h].at # "invalidate" /\ ~Looks(go'[h])
  BY <1>1, Overtakes, IdleFacts
<1>6. CacheInv'
  BY <1>3, <1>4, <1>5, CacheAfterChange
<1> QED
  BY <1>1, <1>2, <1>3, <1>4, <1>6, IdleFacts, LateStep

\* Either the fingerprint tells the track from its last one or nothing is held.
LEMMA ConfusedFacts ==
  ASSUME NEW s, StateOK(s), NEW t, NEW u, u = Confused(s, t)
  PROVE  /\ StateOK(u) /\ SameSettings(u, s) /\ u.page = s.page
         /\ \/ u = s /\ \A q : s.hash = QueueHash(q) /\ q # <<>> => TrackId[t] # TrackId[q[Len(q)]]
            \/ \A p \in 1 .. MaxPage : ~Held(u, p)
<1>1. CASE Len(s.hash) = 3 /\ s.hash[3] = TrackId[t]
  <2> DEFINE old(p) == [text |-> s.text[p].text, late |-> TRUE]
  <2> PICK texts : texts = [p \in 1 .. MaxPage |-> IF s.text[p] = NoText THEN NoText ELSE old(p)]
    OBVIOUS
  <2>1. DOMAIN s.text = 1 .. MaxPage
    BY DEF StateOK
  <2>2. u = [s EXCEPT !.text = texts]
    BY <1>1, <2>1 DEF Confused
  <2>3. u = [page |-> s.page, sortBy |-> s.sortBy, filterBy |-> s.filterBy, locked |-> s.locked,
             hash |-> s.hash, text |-> texts, stats |-> s.stats]
    BY <2>2 DEF StateOK
  <2>4. texts = [p \in 1 .. MaxPage |-> texts[p]]
    OBVIOUS
  <2>5. StateOK(u) /\ SameSettings(u, s) /\ u.page = s.page
    BY <2>3, <2>4 DEF StateOK, SameSettings
  <2>6. ASSUME NEW p \in 1 .. MaxPage PROVE ~Held(u, p)
    <3>1. u.text[p] = NoText \/ u.text[p] = old(p)
      BY <2>3
    <3>2. old(p).late = TRUE
      OBVIOUS
    <3> HIDE DEF old
    <3> QED
      BY <3>1, <3>2 DEF Held
  <2> QED
    BY <2>5, <2>6
<1>2. CASE ~(Len(s.hash) = 3 /\ s.hash[3] = TrackId[t])
  <2>1. u = s
    BY <1>2 DEF Confused
  <2>2. ASSUME NEW q, s.hash = QueueHash(q), q # <<>> PROVE TrackId[t] # TrackId[q[Len(q)]]
    <3>1. s.hash = <<Len(q), TrackId[q[1]], TrackId[q[Len(q)]]>>
      BY <2>2 DEF QueueHash
    <3>2. Len(s.hash) = 3 /\ s.hash[3] = TrackId[q[Len(q)]]
      BY <3>1
    <3> QED
      BY <1>2, <3>2
  <2> QED
    BY <2>1, <2>2 DEF SameSettings
<1> QED
  BY <1>1, <1>2

LEMMA AddStep ==
  ASSUME IInv, NEW g \in Goroutines, Add(g)
  PROVE  IInv'
<1>1. /\ Late(g, Idle) /\ added < MaxTracks /\ added' = added + 1 /\ go[g].at = "add"
      /\ queue' = Enqueue(queue, <<added + 1>>) /\ st' = Confused(st, added + 1)
      /\ screen' = screen /\ loop' = loop
  BY DEF Add, At
<1>2. Distinct(queue) /\ added \in Nat /\ MaxTracks \in Nat /\ Members(queue) \subseteq 1 .. added
  BY Parameters DEF IInv, QueueOK
<1>3. added + 1 \in Tracks /\ added + 1 \in 0 .. MaxTracks
  BY <1>1, <1>2 DEF Tracks
<1>4. /\ Distinct(queue') /\ Members(queue') \subseteq 1 .. (added + 1)
      /\ \A q0 : Ancestor(q0, queue, added) /\ (q0 # <<>> => TrackId[added + 1] # TrackId[q0[Len(q0)]])
                 => Ancestor(q0, queue', added + 1)
  BY <1>1, <1>2, <1>3, EnqueueFacts
<1>5. QueueOK(queue', added')
  BY <1>1, <1>3, <1>4 DEF QueueOK
<1>6. /\ StateOK(st') /\ ScreenOK(screen') /\ loop' \in {0, 1}
      /\ \/ /\ st' = st
            /\ \A q0 : st.hash = QueueHash(q0) /\ q0 # <<>> => TrackId[added + 1] # TrackId[q0[Len(q0)]]
         \/ \A p \in 1 .. MaxPage : ~Held(st', p)
  BY <1>1, HereFacts, ConfusedFacts DEF IInv
<1> DEFINE M == {g}
<1>7. /\ M \in SUBSET Goroutines /\ \A h \in Goroutines \ M : IsOvertaken(h)
      /\ \A h \in M : go[h].at # "invalidate" /\ ~Looks(go'[h])
  BY <1>1, Overtakes, IdleFacts
<1>8. CacheInv'
  <2>1. CASE \A p \in 1 .. MaxPage : ~Held(st', p)
    <3>1. EntriesTrue(queue', added', st') /\ EntriesCurrent(queue', st')
      BY <2>1 DEF EntriesTrue, EntriesCurrent
    <3> QED
      BY <3>1 DEF CacheInv
  <2>2. CASE /\ st' = st
             /\ \A q0 : st.hash = QueueHash(q0) /\ q0 # <<>> => TrackId[added + 1] # TrackId[q0[Len(q0)]]
    <3>1. SameCache(st', st)
      BY <2>2 DEF SameCache, SameSettings
    <3>2. \A q0 : Ancestor(q0, queue, added) /\ st.hash = QueueHash(q0) => Ancestor(q0, queue', added')
      BY <1>1, <1>4, <2>2
    <3> QED
      BY <1>7, <3>1, <3>2, CacheAfterChange
  <2> QED
    BY <1>6, <2>1, <2>2
<1> QED
  BY <1>1, <1>5, <1>6, <1>8, IdleFacts, LateStep

LEMMA ElsewhereStep ==
  ASSUME IInv, Elsewhere
  PROVE  IInv'
<1>1. /\ st' = st /\ added' = added /\ screen' = screen
      /\ go' = [h \in Goroutines |-> Overtaken(h)]
  BY DEF Elsewhere
<1>2. loop' \in {0, 1} /\ Leaves(queue', queue)
  <2>1. Distinct(queue) /\ loop \in {0, 1} /\ Len(queue) \in Nat
    BY QueueFacts DEF IInv, QueueOK
  <2>2. CASE PlayNext
    BY <2>2, PlayNextFacts
  <2>3. CASE queue' = <<>> /\ loop' = 0
    BY <2>1, <2>3, NothingLeaves
  <2>4. CASE \E n \in 1 .. Len(queue) - 1 : queue' = RemoveIndex(queue, n) /\ UNCHANGED loop
    <3>1. PICK n \in 1 .. Len(queue) - 1 : queue' = RemoveIndex(queue, n) /\ loop' = loop
      BY <2>4
    <3>2. n \in Nat /\ n < Len(queue)
      BY <2>1
    <3> QED
      BY <2>1, <3>1, <3>2, RemovalLeaves
  <2> QED
    BY <2>2, <2>3, <2>4 DEF Elsewhere
<1>3. QueueOK(queue', added') /\ \A q0 : Ancestor(q0, queue, added) => Ancestor(q0, queue', added')
  BY <1>1, <1>2 DEF IInv, QueueOK, Leaves
<1>4. StateOK(st') /\ ScreenOK(screen') /\ SameCache(st', st)
  BY <1>1 DEF IInv, SameCache, SameSettings
<1>5. go' = [h \in Goroutines |-> go'[h]] /\ \A h \in Goroutines : IsOvertaken(h) /\ Marked(h)
  BY <1>1 DEF IsOvertaken, Marked
<1> DEFINE M == {}
<1>6. /\ M \in SUBSET Goroutines
      /\ \A h \in Goroutines \ M : IsOvertaken(h)
      /\ \A h \in Goroutines \ M : Marked(h)
      /\ \A h \in M : go[h].at # "invalidate" /\ ~Looks(go'[h])
      /\ \A h \in M : Fits(go'[h]) /\ Fresh(go'[h], queue', st') /\ Wanted(go'[h], queue', st')
  BY <1>5
<1>7. CacheInv'
  BY <1>3, <1>4, <1>6, CacheAfterChange
<1> QED
  BY <1>2, <1>3, <1>4, <1>5, <1>6, <1>7, Keeps

-----------------------------------------------------------------------------
(* The invariant holds.                                                      *)

LEMMA FirstQueue ==
  ASSUME NEW n \in {MaxTracks - 1, MaxTracks}, NEW q, q = [i \in 1 .. n |-> i]
  PROVE  QueueOK(q, n)
<1>1. MaxTracks \in Nat /\ MaxTracks > 1 /\ n \in 0 .. MaxTracks
  BY Parameters
<1>2. \A i \in 1 .. n : i \in Tracks /\ q[i] = i
  BY <1>1 DEF Tracks
<1>3. q \in Seq(Tracks) /\ DOMAIN q = 1 .. n
  BY <1>1, <1>2
<1> QED
  BY <1>1, <1>2, <1>3 DEF QueueOK, Distinct, Members

LEMMA InitIInv == Init => IInv
<1> SUFFICES ASSUME Init PROVE IInv
  OBVIOUS
<1> PICK first : first = FirstPage(queue)
  OBVIOUS
<1> PICK x : x = [text |-> first, late |-> FALSE]
  OBVIOUS
<1>1. QueueOK(queue, added) /\ Distinct(queue)
  BY FirstQueue DEF Init, QueueOK
<1>2. MaxPage \in Nat \ {0} /\ 1 \in 1 .. MaxPage /\ SortDefault \in Sorts
  <2>1. MaxPage \in Nat \ {0} /\ SortDefault \in Sorts
    BY Parameters, PageCounts
  <2> QED
    BY <2>1
<1>3. /\ st.page = 1 /\ st.sortBy = SortDefault /\ st.filterBy = FilterAll /\ st.locked = FALSE
      /\ st.hash = QueueHash(queue) /\ st.text[1] = x
      /\ \A p \in 1 .. MaxPage : p # 1 => st.text[p] = NoText
      /\ StateOK(st)
  <2> PICK s : s = NewState
    OBVIOUS
  <2>1. /\ StateOK(s) /\ s.text = NoTexts /\ s.page = 1 /\ s.sortBy = SortDefault
        /\ s.filterBy = FilterAll /\ s.locked = FALSE
    BY NewStateFacts DEF NewState
  <2>2. st = [s EXCEPT !.text[1] = x, !.hash = QueueHash(queue)]
    BY DEF Init
  <2>3. st = [page |-> s.page, sortBy |-> s.sortBy, filterBy |-> s.filterBy,
              locked |-> s.locked, hash |-> QueueHash(queue),
              text |-> [NoTexts EXCEPT ![1] = x], stats |-> s.stats]
    BY <2>1, <2>2 DEF StateOK
  <2>4. /\ st.text[1] = x /\ \A p \in 1 .. MaxPage : p # 1 => st.text[p] = NoText
        /\ st.text = [p \in 1 .. MaxPage |-> st.text[p]]
    BY <1>2, <2>3 DEF NoTexts
  <2>5. StateOK(st)
    BY <2>1, <2>3, <2>4 DEF StateOK
  <2> QED
    BY <2>1, <2>3, <2>4, <2>5
<1>4. ScreenOK(screen)
  <2> PICK rows : rows = Len(Rows(first))
    OBVIOUS
  <2> PICK v : v = View(queue, SortDefault, FilterAll)
    OBVIOUS
  <2>1. rows = Len(PageSlice(v, 1))
    BY DEF FirstPage, RenderPage, Rows
  <2>2. IsView(v, queue)
    BY <1>1, <1>2, ViewFacts
  <2>3. PageSlice(v, 1) \in Seq(Tracks)
    BY <1>1, <2>2, RowFacts
  <2>4. rows \in Nat
    BY <2>1, <2>3
  <2>5. screen = [NoScreen EXCEPT !.kind = "page", !.text = first, !.rows = rows]
    BY DEF Init
  <2> QED
    BY <2>4, <2>5 DEF NoScreen, ScreenOK
<1>5. \A g \in Goroutines : go[g] = Idle
  BY DEF Init
<1>6. \A g \in Goroutines : Fits(go[g]) /\ Fresh(go[g], queue, st) /\ Wanted(go[g], queue, st)
  BY <1>5, IdleFacts
<1>7. EntriesTrue(queue, added, st)
  <2> SUFFICES ASSUME NEW p \in 1 .. MaxPage, Held(st, p)
               PROVE  /\ Ancestor(queue, queue, added) /\ st.hash = QueueHash(queue)
                      /\ Shows(st, p, queue)
    BY DEF EntriesTrue
  <2>1. p = 1 /\ st.text[p] = x /\ x.text = first
    BY <1>3 DEF Held
  <2>2. Shows(st, p, queue)
    BY <1>3, <2>1 DEF Shows, FirstPage
  <2>3. Ancestor(queue, queue, added)
    BY <1>1, OwnAncestor DEF QueueOK
  <2> QED
    BY <1>3, <2>2, <2>3
<1>8. CacheInv
  BY <1>5, <1>7, IdleFacts DEF CacheInv
<1>9. go = [g \in Goroutines |-> go[g]] /\ loop \in {0, 1}
  BY DEF Init
<1> QED
  BY <1>1, <1>3, <1>4, <1>6, <1>8, <1>9 DEF IInv

LEMMA HandlerStep ==
  ASSUME IInv, NEW g \in Goroutines, Handler(g)
  PROVE  IInv'
BY TurnPageStep, RefreshStep, StatsStep, CloseOrMenuStep, SortStep, DetailReadStep,
   DetailOpenStep, RemoveCheckStep, RemoveTrackStep, MoveStep, JumpCheckStep, JumpStep,
   ReorderStep, ToggleLockStep, InvalidateStep, ShowMovedStep, SkipAfterJumpStep, DropStep, ReadStep,
   HashStep, SettleStep, LookUpStep, StoreStep, EditStep, QueueHandlerStep, AddStep
   DEF Handler

LEMMA NextIInv == IInv /\ [Next]_vars => IInv'
<1> SUFFICES ASSUME IInv, [Next]_vars PROVE IInv'
  OBVIOUS
<1>1. CASE Elsewhere
  BY <1>1, ElsewhereStep
<1>2. ASSUME NEW g \in Goroutines, Handler(g) PROVE IInv'
  BY <1>2, HandlerStep
<1>3. ASSUME NEW g \in Goroutines, Clicks(g) PROVE IInv'
  BY <1>3, ClicksStep, StartQueueStep DEF Clicks
<1>4. ASSUME NEW g \in Goroutines, NEW u \in Users, StartPlay(g, u) PROVE IInv'
  BY <1>4, StartPlayStep
<1>5. CASE UNCHANGED vars
  BY <1>5 DEF vars, IInv, CacheInv, Pending
<1> QED
  BY <1>1, <1>2, <1>3, <1>4, <1>5 DEF Next

\* The invariant holds in every reachable state, for any number of goroutines,
\* tracks, pages, sorts and filters (internal/queue).
THEOREM Invariance == Spec => []IInv
BY InitIInv, NextIInv, PTL DEF Spec

\* Pages stay within those of the longest queue, no track is there twice, and
\* a detail's button holds an index that a queue can have.
THEOREM TypeCorrect == Spec => []TypeOK
<1>1. IInv => TypeOK
  <2> SUFFICES ASSUME IInv PROVE TypeOK
    OBVIOUS
  <2>1. Distinct(queue) /\ StateOK(st) /\ ScreenOK(screen) /\ loop \in {0, 1}
    BY DEF IInv, QueueOK
  <2>2. ToSet(queue) \subseteq Tracks /\ IsInjective(queue)
    BY <2>1, QueueFacts DEF Distinct, ToSet, IsInjective
  <2>3. DOMAIN st.text = 1 .. MaxPage
    BY <2>1 DEF StateOK
  <2> QED
    BY <2>1, <2>2, <2>3 DEF TypeOK, StateOK, ScreenOK
<1> QED
  BY <1>1, Invariance, PTL

\* What renderAndEdit takes from the cache is what it would have rendered from
\* the queue it read, although the fingerprint compares a length and two tracks:
\* between two invalidations a queue loses tracks and gets later ones, and of
\* such queues no two have the same fingerprint (checkHash, SetCachedText), as
\* long as none of the later ones has the id of the fingerprint's last track.
THEOREM PagesAreTrue == Spec => []ServedPageIsTrue
<1>1. IInv => ServedPageIsTrue
  BY DEF IInv, Fits, ServedPageIsTrue, At
<1> QED
  BY <1>1, Invariance, PTL

-----------------------------------------------------------------------------
(* The buttons.                                                              *)

\* A step of another goroutine leaves g where it is.
LEMMA OthersStay ==
  ASSUME IInv, NEW g \in Goroutines,
         \/ Elsewhere
         \/ \E h \in Goroutines \ {g} : Handler(h) \/ Clicks(h) \/ \E u \in Users : StartPlay(h, u)
  PROVE  go'[g].at = go[g].at
<1>1. Fits(go[g])
  BY HereFacts
<1>2. Unwanted(g).at = go[g].at /\ Overtaken(g).at = go[g].at
  <2> PICK r : r = go[g]
    OBVIOUS
  <2>1. IsFrame(r)
    BY <1>1 DEF Fits
  <2> QED
    BY <2>1 DEF IsFrame, Unwanted, Overtaken
<1> DEFINE Left == go'[g] = go[g] \/ go'[g] = Unwanted(g) \/ go'[g] = Overtaken(g)
<1>3. CASE Elsewhere
  BY <1>2, <1>3 DEF Elsewhere
<1>4. ASSUME NEW h \in Goroutines \ {g}, Clicks(h) \/ \E u \in Users : StartPlay(h, u)
      PROVE  go'[g] = go[g]
  BY <1>4 DEF Clicks, ClickOnPage, ClickOnDetail, ClickOnMenu, Manage, Click, StartQueue,
              StartPlay, Step, IInv
<1>5. ASSUME NEW h \in Goroutines \ {g}, Handler(h) PROVE Left
  <2>1. \A r : (Step(h, r) => Left) /\ (Late(h, r) => Left)
    BY DEF Step, Late, IInv
  <2>2. (\A l : Goto(h, l) => Left) /\ (Return(h) => Left)
    BY <2>1 DEF Goto, Return
  <2>3. \A q, l : Change(h, q, l) => Left
    BY <2>1, <2>2 DEF Change
  <2>4. \A n, to : MoveBy(h, n, to) => Left
    BY <2>1, <2>2 DEF MoveBy
  <2>5. TurnPage(h) \/ Settle(h) \/ QueueHandler(h) => Left
    BY DEF TurnPage, Settle, QueueHandler
  <2> HIDE DEF Left
  <2>6. Refresh(h) \/ Stats(h) \/ CloseOrMenu(h) \/ Sort(h) \/ DetailRead(h) => Left
    BY <2>1, <2>2 DEF Refresh, Stats, CloseOrMenu, Sort, DetailRead
  <2>7. DetailOpen(h) \/ RemoveCheck(h) \/ RemoveTrack(h) \/ Move(h) => Left
    BY <2>1, <2>2, <2>3, <2>4 DEF DetailOpen, RemoveCheck, RemoveTrack, Move
  <2>11. JumpCheck(h) \/ Jump(h) => Left
    BY <2>2, <2>3 DEF JumpCheck, Jump
  <2>8. Reorder(h) \/ ToggleLock(h) \/ Invalidate(h) \/ ShowMoved(h) => Left
    BY <2>1, <2>2, <2>3 DEF Reorder, ToggleLock, Invalidate, ShowMoved
  <2>9. SkipAfterJump(h) \/ Drop(h) \/ Read(h) \/ Hash(h) \/ LookUp(h) => Left
    BY <2>1, <2>2 DEF SkipAfterJump, Drop, Read, Hash, LookUp
  <2>10. Store(h) \/ Edit(h) \/ Add(h) => Left
    BY <2>1, <2>2 DEF Store, Edit, Add
  <2> QED
    BY <1>5, <2>5, <2>6, <2>7, <2>8, <2>9, <2>10, <2>11 DEF Handler
<1> QED
  BY <1>2, <1>3, <1>4, <1>5

\* Where a button acts, only one step is g's own.
LEMMA OwnStep ==
  ASSUME IInv, NEW g \in Goroutines, go[g].at \in {"open", "moved", "remove", "skip"},
         Handler(g) \/ Clicks(g) \/ \E u \in Users : StartPlay(g, u)
  PROVE  /\ go[g].at = "open" => DetailOpen(g)
         /\ go[g].at = "moved" => ShowMoved(g)
         /\ go[g].at = "remove" => RemoveTrack(g)
         /\ go[g].at = "skip" => SkipAfterJump(g)
<1>1. ~(Clicks(g) \/ \E u \in Users : StartPlay(g, u))
  BY DEF Clicks, ClickOnPage, ClickOnDetail, ClickOnMenu, Manage, Click, StartQueue, StartPlay, At
<1>2. ~(TurnPage(g) \/ Refresh(g) \/ Stats(g) \/ CloseOrMenu(g) \/ Sort(g) \/ DetailRead(g))
  BY DEF TurnPage, Refresh, Stats, CloseOrMenu, Sort, DetailRead, At
<1>3. ~(RemoveCheck(g) \/ Move(g) \/ JumpCheck(g) \/ Jump(g) \/ Reorder(g) \/ ToggleLock(g)
        \/ Invalidate(g) \/ Drop(g))
  BY DEF RemoveCheck, Move, JumpCheck, Jump, Reorder, ToggleLock, Invalidate, Drop, At
<1>4. ~(Read(g) \/ Hash(g) \/ Settle(g) \/ LookUp(g) \/ Store(g) \/ Edit(g) \/ QueueHandler(g) \/ Add(g))
  BY DEF Read, Hash, Settle, LookUp, Store, Edit, QueueHandler, Add, At
<1>5. DetailOpen(g) \/ ShowMoved(g) \/ RemoveTrack(g) \/ SkipAfterJump(g)
  BY <1>1, <1>2, <1>3, <1>4 DEF Handler
<1> QED
  BY <1>5 DEF DetailOpen, ShowMoved, RemoveTrack, SkipAfterJump, At

\* What ButtonsActOnTheirTrack says of one goroutine.
ActsOnItsTrack(g) ==
    go[g].want # 0 /\ go'[g].at # go[g].at =>
        /\ go[g].at \in {"open", "moved"} /\ screen' # screen => screen'.track = go[g].want
        /\ At(g, "remove") => go[g].want \notin ToSet(queue') /\ Len(queue') = Len(queue) - 1
        /\ At(g, "skip") /\ queue' # queue => Head(queue') = go[g].want

LEMMA OwnStepActs ==
  ASSUME IInv, NEW g \in Goroutines,
         Handler(g) \/ Clicks(g) \/ \E u \in Users : StartPlay(g, u)
  PROVE  ActsOnItsTrack(g)
<1> PICK f : f = go[g]
  OBVIOUS
<1>1. Fits(f) /\ Wanted(f, queue, st) /\ Distinct(queue)
  BY HereFacts
<1>2. ASSUME f.at = "open", f.want # 0, screen' # screen PROVE screen'.track = f.want
  <2> PICK rows : rows = PageSlice(View(f.q, st.sortBy, st.filterBy), st.page)
    OBVIOUS
  <2> PICK i : i = CHOOSE j \in DOMAIN f.q : f.q[j + 1] = rows[f.arg]
    OBVIOUS
  <2>1. DetailOpen(g)
    BY <1>2, OwnStep
  <2>2. f.arg \in DOMAIN rows /\ ShowDetail(f.q, i)
    BY <1>2, <2>1 DEF DetailOpen
  <2>3. f.q[i + 1] = f.want
    BY <1>2, <2>2, OpenFacts
  <2> QED
    BY <2>2, <2>3 DEF ShowDetail, NoScreen
<1>3. ASSUME f.at = "moved", f.want # 0, screen' # screen PROVE screen'.track = f.want
  <2>1. ShowMoved(g)
    BY <1>3, OwnStep
  <2>2. ShowDetail(queue, f.arg)
    BY <1>3, <2>1 DEF ShowMoved
  <2>3. queue[f.arg + 1] = f.want
    BY <1>1, <1>3 DEF Wanted, OnIndex
  <2> QED
    BY <2>2, <2>3 DEF ShowDetail, NoScreen
<1>4. ASSUME f.at = "remove", f.want # 0
      PROVE  f.want \notin ToSet(queue') /\ Len(queue') = Len(queue) - 1
  <2> PICK n : n = f.arg
    OBVIOUS
  <2>1. n \in Nat /\ n < Len(queue) /\ queue[n + 1] = f.want
    BY <1>1, <1>4 DEF Wanted, Fits, OnIndex
  <2>2. queue' = RemoveIndex(queue, n)
    BY <1>4, <2>1, OwnStep DEF RemoveTrack, Change
  <2> QED
    BY <1>1, <2>1, <2>2, RemovalLeaves DEF ToSet, Members
<1>5. ASSUME f.at = "skip", f.want # 0, queue' # queue PROVE Head(queue') = f.want
  <2>1. Len(queue) > 1 /\ queue[2] = f.want
    BY <1>1, <1>5 DEF Wanted, AfterJump, Fits
  <2>2. queue' = RemoveCurrent(queue)
    BY <1>5, OwnStep DEF SkipAfterJump, PlayNext
  <2> QED
    BY <1>1, <2>1, <2>2, CurrentLeaves
<1> QED
  BY <1>2, <1>3, <1>4, <1>5 DEF ActsOnItsTrack, At

\* Every track button acts on the track it was drawn for or not at all, under
\* every sort and filter and whatever other handlers do meanwhile, as long as
\* that track is where it was (HandleQueueCallback).
THEOREM ButtonsActCorrectly == Spec => ButtonsActOnTheirTrack
<1>1. ASSUME IInv, [Next]_vars, NEW g \in Goroutines PROVE ActsOnItsTrack(g)
  <2>1. CASE UNCHANGED vars
    BY <2>1 DEF vars, ActsOnItsTrack
  <2>2. CASE Handler(g) \/ Clicks(g) \/ \E u \in Users : StartPlay(g, u)
    BY <1>1, <2>2, OwnStepActs
  <2>3. CASE \/ Elsewhere
             \/ \E h \in Goroutines \ {g} : Handler(h) \/ Clicks(h) \/ \E u \in Users : StartPlay(h, u)
    BY <1>1, <2>3, OthersStay DEF ActsOnItsTrack
  <2> QED
    BY <1>1, <2>1, <2>2, <2>3 DEF Next
<1>2. IInv /\ [Next]_vars => \A g \in Goroutines : ActsOnItsTrack(g)
  BY <1>1
<1>3. IInv /\ [Next]_vars =>
        [\A g \in Goroutines : go[g].want # 0 /\ go'[g].at # go[g].at =>
            /\ go[g].at \in {"open", "moved"} /\ screen' # screen => screen'.track = go[g].want
            /\ At(g, "remove") => go[g].want \notin ToSet(queue') /\ Len(queue') = Len(queue) - 1
            /\ At(g, "skip") /\ queue' # queue => Head(queue') = go[g].want]_vars
  BY <1>2 DEF ActsOnItsTrack
<1> QED
  BY <1>3, Invariance, PTL DEF Spec, ButtonsActOnTheirTrack
=============================================================================
