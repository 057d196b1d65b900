----------------------------- MODULE ListProofs -----------------------------
(***************************************************************************)
(* The lemmas about lists that the components' proofs share, for lists of  *)
(* any length: what Keep returns, the kept elements, each as often as      *)
(* before, in their order; and from where in a queue each operation of     *)
(* QueueOps takes what stands at a position after it.                      *)
(***************************************************************************)
EXTENDS QueueOps, Filtering, SequenceTheorems, FiniteSetTheorems, TLAPS

LEMMA Indices ==
  ASSUME NEW m \in Nat
  PROVE  IsFiniteSet(1 .. m) /\ Cardinality(1 .. m) = m
<1>1. 1 \in Int /\ m \in Int
  OBVIOUS
<1>2. IsFiniteSet(1 .. m) /\ Cardinality(1 .. m) = IF 1 > m THEN 0 ELSE m - 1 + 1
  BY <1>1, FS_Interval
<1> QED
  BY <1>2

\* Ranks number a finite set of indices from 1, in order.
LEMMA Ranks ==
  ASSUME NEW m \in Nat, NEW P \in SUBSET (1 .. m)
  PROVE  /\ IsFiniteSet(P) /\ Cardinality(P) \in Nat
         /\ \A i \in P : Rank(P, i) \in 1 .. Cardinality(P)
         /\ \A i, j \in P : i < j => Rank(P, i) < Rank(P, j)
<1>1. IsFiniteSet(P) /\ Cardinality(P) \in Nat
  BY Indices, FS_Subset, FS_CardinalityType
<1> DEFINE upto(i) == {j \in P : j <= i}
<1>2. ASSUME NEW i \in P
      PROVE  /\ IsFiniteSet(upto(i)) /\ Cardinality(upto(i)) \in 1 .. Cardinality(P)
  <2>1. upto(i) \in SUBSET P /\ i \in upto(i)
    OBVIOUS
  <2>2. IsFiniteSet(upto(i)) /\ Cardinality(upto(i)) <= Cardinality(P)
    BY <1>1, <2>1, FS_Subset
  <2>3. Cardinality(upto(i)) \in Nat /\ Cardinality(upto(i)) # 0
    BY <2>1, <2>2, FS_CardinalityType, FS_EmptySet
  <2> QED
    BY <1>1, <2>2, <2>3
<1>3. ASSUME NEW i \in P, NEW j \in P, i < j
      PROVE  Cardinality(upto(i)) < Cardinality(upto(j))
  <2>1. upto(i) \in SUBSET upto(j) /\ j \in upto(j) /\ j \notin upto(i)
    <3>1. i \in Int /\ j \in Int /\ \A l \in P : l \in Int
      OBVIOUS
    <3>2. \A l \in P : l <= i => l <= j
      BY <1>3, <3>1
    <3>3. j <= j /\ ~(j <= i)
      BY <1>3, <3>1
    <3> QED
      BY <3>2, <3>3
  <2>2. Cardinality(upto(i)) <= Cardinality(upto(j)) /\ Cardinality(upto(i)) # Cardinality(upto(j))
    BY <1>2, <2>1, FS_Subset
  <2> QED
    BY <1>1, <1>2, <2>2
<1> QED
  BY <1>1, <1>2, <1>3 DEF Rank

\* So Nth names each of them once, in order.
LEMMA Nths ==
  ASSUME NEW m \in Nat, NEW P \in SUBSET (1 .. m)
  PROVE  /\ \A n \in 1 .. Cardinality(P) : Nth(P, n) \in P /\ Rank(P, Nth(P, n)) = n
         /\ \A i \in P : Rank(P, i) \in 1 .. Cardinality(P) /\ Nth(P, Rank(P, i)) = i
         /\ \A n, l \in 1 .. Cardinality(P) : n < l => Nth(P, n) < Nth(P, l)
<1>1. /\ IsFiniteSet(P) /\ Cardinality(P) \in Nat
      /\ \A i \in P : Rank(P, i) \in 1 .. Cardinality(P)
      /\ \A i, j \in P : i < j => Rank(P, i) < Rank(P, j)
  BY Ranks
<1> DEFINE f == [i \in P |-> Rank(P, i)]
           N == 1 .. Cardinality(P)
<1>2. \A i, j \in P : Rank(P, i) = Rank(P, j) => i = j
  <2> SUFFICES ASSUME NEW i \in P, NEW j \in P, Rank(P, i) = Rank(P, j), i # j PROVE FALSE
    OBVIOUS
  <2>1. i < j \/ j < i
    OBVIOUS
  <2>2. Rank(P, i) < Rank(P, j) \/ Rank(P, j) < Rank(P, i)
    BY <1>1, <2>1
  <2> QED
    BY <1>1, <2>2
<1>3. f \in Injection(P, N)
  BY <1>1, <1>2 DEF Injection, IsInjective
<1>4. IsFiniteSet(N) /\ Cardinality(N) = Cardinality(P)
  BY <1>1, Indices
<1>5. f \in Surjection(P, N)
  BY <1>3, <1>4, FS_Injection
<1>6. \A n \in N : \E i \in P : Rank(P, i) = n
  BY <1>5 DEF Surjection
<1>7. \A n \in N : Nth(P, n) \in P /\ Rank(P, Nth(P, n)) = n
  BY <1>6 DEF Nth
<1>8. \A i \in P : Nth(P, Rank(P, i)) = i
  BY <1>1, <1>2, <1>7
<1>9. ASSUME NEW n \in N, NEW l \in N, n < l PROVE Nth(P, n) < Nth(P, l)
  <2> DEFINE a == Nth(P, n)
             b == Nth(P, l)
  <2>1. a \in P /\ b \in P /\ Rank(P, a) = n /\ Rank(P, b) = l
    BY <1>7
  <2> HIDE DEF a, b
  <2>2. ~(b < a) /\ a # b
    BY <1>1, <1>9, <2>1
  <2>3. a < b
    BY <2>1, <2>2
  <2> QED
    BY <2>3 DEF a, b
<1> QED
  BY <1>1, <1>7, <1>8, <1>9

\* What is kept, and in which order.
LEMMA Kept ==
  ASSUME NEW S, NEW s \in Seq(S), NEW kept
  PROVE  LET t == Keep(s, kept)
             from == [n \in DOMAIN t |-> Nth(KeptAt(s, kept), n)]
         IN /\ t \in Seq(S) /\ Len(t) <= Len(s) /\ from \in [DOMAIN t -> KeptAt(s, kept)]
            /\ \A n \in DOMAIN t : t[n] = s[from[n]] /\ t[n] \in kept
            /\ \A n, l \in DOMAIN t : n < l => from[n] < from[l]
            /\ \A i \in KeptAt(s, kept) : \E n \in DOMAIN t : from[n] = i
<1> DEFINE P == KeptAt(s, kept)
           t == Keep(s, kept)
           c == Cardinality(P)
<1>1. Len(s) \in Nat /\ P \in SUBSET (1 .. Len(s)) /\ DOMAIN s = 1 .. Len(s)
  BY DEF KeptAt
<1>2. c \in Nat /\ c <= Len(s)
  <2>1. c \in Nat
    BY <1>1, Ranks
  <2>2. IsFiniteSet(1 .. Len(s)) /\ Cardinality(1 .. Len(s)) = Len(s)
    BY <1>1, Indices
  <2> QED
    BY <1>1, <2>1, <2>2, FS_Subset
<1>3. /\ \A n \in 1 .. c : Nth(P, n) \in P
      /\ \A i \in P : Rank(P, i) \in 1 .. c /\ Nth(P, Rank(P, i)) = i
      /\ \A n, l \in 1 .. c : n < l => Nth(P, n) < Nth(P, l)
  BY <1>1, Nths
<1>4. t = [n \in 1 .. c |-> s[Nth(P, n)]]
  BY DEF Keep
<1>5. \A i \in P : s[i] \in S /\ s[i] \in kept
  BY DEF KeptAt
<1> HIDE DEF P, t, c
<1>6. t \in Seq(S) /\ DOMAIN t = 1 .. c /\ Len(t) = c
  <2>1. t \in [1 .. c -> S]
    BY <1>3, <1>4, <1>5
  <2> QED
    BY <1>2, <2>1
<1> DEFINE from == [n \in DOMAIN t |-> Nth(P, n)]
<1>7. from \in [DOMAIN t -> P]
  BY <1>3, <1>6
<1>8. \A n \in DOMAIN t : t[n] = s[from[n]] /\ t[n] \in kept
  BY <1>3, <1>4, <1>5, <1>6
<1>9. \A n, l \in DOMAIN t : n < l => from[n] < from[l]
  BY <1>3, <1>6
<1>10. \A i \in P : \E n \in DOMAIN t : from[n] = i
  BY <1>3, <1>6
<1> QED
  BY <1>2, <1>6, <1>7, <1>8, <1>9, <1>10 DEF P, t
-----------------------------------------------------------------------------
(* The queue's operations, by where each position comes from.              *)

Through(q, m) == [k \in DOMAIN m |-> q[m[k]]]

AfterRemoval(n, index) == [k \in 1 .. (n - 1) |-> IF k <= index THEN k ELSE k + 1]
AfterTrim(n, pos) == [k \in 1 .. (n - pos + 1) |-> IF k = 1 THEN 1 ELSE pos + k - 1]
AfterReverse(n) == [k \in 1 .. n |-> IF k = 1 THEN 1 ELSE n + 2 - k]
AfterShuffle(n, p) == [k \in 1 .. n |-> IF k = 1 THEN 1 ELSE p[k]]
AfterMove(n, from, to) == [k \in 1 .. n |->
    IF k = to + 1 THEN from + 1
    ELSE IF from < to /\ k \in (from + 1) .. to THEN k + 1
    ELSE IF to < from /\ k \in (to + 2) .. (from + 1) THEN k - 1
    ELSE k]

LEMMA CutOut ==
  ASSUME NEW S, NEW q \in Seq(S), NEW a \in Nat, NEW b \in Nat,
         a > 0, a <= b + 1, b <= Len(q)
  PROVE  /\ SubSeq(q, a, b) \in Seq(S) /\ Len(SubSeq(q, a, b)) = b + 1 - a
         /\ \A k \in 1 .. (b + 1 - a) : SubSeq(q, a, b)[k] = q[a + k - 1]
<1>1. a \in Int /\ b \in Int /\ \A k \in a .. b : q[k] \in S
  BY ElementOfSeq, LenProperties
<1>2. /\ SubSeq(q, a, b) \in Seq(S)
      /\ Len(SubSeq(q, a, b)) = IF a <= b THEN b - a + 1 ELSE 0
      /\ \A k \in 1 .. (b - a + 1) : SubSeq(q, a, b)[k] = q[a + k - 1]
  BY <1>1, SubSeqProperties
<1> QED
  BY <1>2

\* Two parts that come from q as m says, one after the other.
Joins(u, v, q, m) ==
    /\ DOMAIN m = 1 .. (Len(u) + Len(v))
    /\ \A k \in 1 .. Len(u) : u[k] = q[m[k]]
    /\ \A k \in 1 .. Len(v) : v[k] = q[m[Len(u) + k]]

LEMMA JoinIsThrough ==
  ASSUME NEW S, NEW u \in Seq(S), NEW v \in Seq(S), NEW q, NEW m, Joins(u, v, q, m)
  PROVE  u \o v = Through(q, m)
<1> DEFINE r == u \o v
<1>1. Len(u) \in Nat /\ Len(v) \in Nat
  OBVIOUS
<1>2. /\ r \in Seq(S) /\ Len(r) = Len(u) + Len(v)
      /\ \A k \in 1 .. (Len(u) + Len(v)) :
             r[k] = IF k <= Len(u) THEN u[k] ELSE v[k - Len(u)]
  BY ConcatProperties
<1> HIDE DEF r
<1> USE DEF Joins
<1>3. r = [k \in 1 .. (Len(u) + Len(v)) |-> r[k]]
  BY <1>2
<1>4. ASSUME NEW k \in 1 .. (Len(u) + Len(v))
      PROVE  r[k] = q[m[k]]
  <2>1. CASE k <= Len(u)
    BY <1>1, <1>2, <2>1
  <2>2. CASE k > Len(u)
    <3>1. k - Len(u) \in 1 .. Len(v) /\ Len(u) + (k - Len(u)) = k
      BY <1>1, <2>2
    <3>2. ~(k <= Len(u)) /\ r[k] = v[k - Len(u)]
      BY <1>1, <1>2, <2>2
    <3>3. v[k - Len(u)] = q[m[Len(u) + (k - Len(u))]]
      BY <3>1
    <3> QED
      BY <3>1, <3>2, <3>3
  <2> QED
    BY <1>1, <2>1, <2>2
<1>5. Through(q, m) = [k \in 1 .. (Len(u) + Len(v)) |-> q[m[k]]]
  BY DEF Through
<1> QED
  BY <1>3, <1>4, <1>5 DEF r

LEMMA RemoveIsThrough ==
  ASSUME NEW S, NEW q \in Seq(S), NEW i \in Nat, i < Len(q)
  PROVE  RemoveIndex(q, i) = Through(q, AfterRemoval(Len(q), i))
<1> DEFINE n == Len(q)
           m == AfterRemoval(n, i)
           u == SubSeq(q, 1, i)
           v == SubSeq(q, i + 2, n)
<1>1. n \in Nat
  OBVIOUS
<1>2. RemoveIndex(q, i) = u \o v
  BY DEF RemoveIndex
<1>3. u \in Seq(S) /\ Len(u) = i /\ \A k \in 1 .. i : u[k] = q[k]
  <2>1. u \in Seq(S) /\ Len(u) = i + 1 - 1 /\ \A k \in 1 .. (i + 1 - 1) : u[k] = q[1 + k - 1]
    BY <1>1, CutOut
  <2> QED
    BY <2>1
<1>4. v \in Seq(S) /\ Len(v) = n - i - 1 /\ \A k \in 1 .. (n - i - 1) : v[k] = q[i + k + 1]
  <2>1. /\ v \in Seq(S) /\ Len(v) = n + 1 - (i + 2)
        /\ \A k \in 1 .. (n + 1 - (i + 2)) : v[k] = q[(i + 2) + k - 1]
    BY <1>1, CutOut
  <2> QED
    BY <1>1, <2>1
<1>5. DOMAIN m = 1 .. (n - 1)
      /\ \A k \in 1 .. (n - 1) : m[k] = IF k <= i THEN k ELSE k + 1
  BY DEF AfterRemoval
<1> HIDE DEF n, m, u, v
<1>6. i < n
  BY DEF n
<1>7. DOMAIN m = 1 .. (Len(u) + Len(v))
  BY <1>1, <1>3, <1>4, <1>5
<1>8. \A k \in 1 .. Len(u) : u[k] = q[m[k]]
  BY <1>1, <1>3, <1>5, <1>6
<1>9. \A k \in 1 .. Len(v) : v[k] = q[m[Len(u) + k]]
  BY <1>1, <1>3, <1>4, <1>5, <1>6
<1>10. Joins(u, v, q, m)
  BY <1>7, <1>8, <1>9 DEF Joins
<1>11. u \o v = Through(q, m)
  BY <1>3, <1>4, <1>10, JoinIsThrough
<1> QED
  BY <1>2, <1>11 DEF n, m

LEMMA RemoveCurrentIsThrough ==
  ASSUME NEW S, NEW q \in Seq(S), Len(q) > 0
  PROVE  RemoveCurrent(q) = Through(q, AfterRemoval(Len(q), 0))
<1>1. Len(q) \in Nat /\ q # <<>> /\ RemoveCurrent(q) = Tail(q)
  BY DEF RemoveCurrent
<1>2. Tail(q) = [k \in 1 .. (Len(q) - 1) |-> q[k + 1]]
  <2> DEFINE w == Tail(q)
  <2>1. w \in Seq(S) /\ Len(w) = Len(q) - 1 /\ \A k \in 1 .. Len(w) : w[k] = q[k + 1]
    BY <1>1, HeadTailProperties
  <2> HIDE DEF w
  <2>2. w \in [1 .. Len(w) -> S]
    BY <2>1, LenProperties
  <2>3. w = [k \in 1 .. (Len(q) - 1) |-> q[k + 1]]
    BY <2>1, <2>2
  <2> QED
    BY <2>3 DEF w
<1>3. DOMAIN AfterRemoval(Len(q), 0) = 1 .. (Len(q) - 1)
      /\ \A k \in 1 .. (Len(q) - 1) : AfterRemoval(Len(q), 0)[k] = k + 1
  BY <1>1 DEF AfterRemoval
<1> QED
  BY <1>1, <1>2, <1>3 DEF Through

LEMMA TrimIsThrough ==
  ASSUME NEW S, NEW q \in Seq(S), NEW pos \in Nat, pos > 1, pos < Len(q)
  PROVE  TrimBefore(q, pos) = Through(q, AfterTrim(Len(q), pos))
<1> DEFINE n == Len(q)
           m == AfterTrim(n, pos)
           u == <<q[1]>>
           v == SubSeq(q, pos + 1, n)
<1>1. n \in Nat
  OBVIOUS
<1>2. TrimBefore(q, pos) = u \o v
  BY DEF TrimBefore
<1>3. u \in Seq(S) /\ Len(u) = 1 /\ u[1] = q[1]
  BY <1>1, ElementOfSeq
<1>4. v \in Seq(S) /\ Len(v) = n - pos /\ \A k \in 1 .. (n - pos) : v[k] = q[pos + k]
  <2>1. /\ v \in Seq(S) /\ Len(v) = n + 1 - (pos + 1)
        /\ \A k \in 1 .. (n + 1 - (pos + 1)) : v[k] = q[(pos + 1) + k - 1]
    BY <1>1, CutOut
  <2> QED
    BY <1>1, <2>1
<1>5. DOMAIN m = 1 .. (n - pos + 1)
      /\ \A k \in 1 .. (n - pos + 1) : m[k] = IF k = 1 THEN 1 ELSE pos + k - 1
  BY DEF AfterTrim
<1> HIDE DEF n, m, u, v
<1>6. pos < n
  BY DEF n
<1>7. DOMAIN m = 1 .. (Len(u) + Len(v))
  BY <1>1, <1>3, <1>4, <1>5
<1>8. \A k \in 1 .. Len(u) : u[k] = q[m[k]]
  BY <1>1, <1>3, <1>5, <1>6
<1>9. \A k \in 1 .. Len(v) : v[k] = q[m[Len(u) + k]]
  BY <1>1, <1>3, <1>4, <1>5, <1>6
<1>10. Joins(u, v, q, m)
  BY <1>7, <1>8, <1>9 DEF Joins
<1>11. u \o v = Through(q, m)
  BY <1>3, <1>4, <1>10, JoinIsThrough
<1> QED
  BY <1>2, <1>11 DEF n, m

LEMMA ReverseIsThrough ==
  ASSUME NEW S, NEW q \in Seq(S), Len(q) > 2
  PROVE  ReverseUpNext(q) = Through(q, AfterReverse(Len(q)))
<1> DEFINE n == Len(q)
           m == AfterReverse(n)
           u == <<q[1]>>
           w == Tail(q)
           v == Reverse(w)
<1>1. n \in Nat /\ q # <<>>
  OBVIOUS
<1>2. ReverseUpNext(q) = u \o v
  BY DEF ReverseUpNext
<1>3. u \in Seq(S) /\ Len(u) = 1 /\ u[1] = q[1]
  BY <1>1, ElementOfSeq
<1>4. w \in Seq(S) /\ Len(w) = n - 1 /\ \A k \in 1 .. (n - 1) : w[k] = q[k + 1]
  BY <1>1, HeadTailProperties
<1>5. DOMAIN m = 1 .. n /\ \A k \in 1 .. n : m[k] = IF k = 1 THEN 1 ELSE n + 2 - k
  BY DEF AfterReverse
<1> HIDE DEF w
<1>6. v = [k \in 1 .. (n - 1) |-> w[((n - 1) - k) + 1]]
  BY <1>1, <1>4 DEF Reverse
<1> HIDE DEF n, m, u, v
<1>7. n > 2
  BY DEF n
<1>8. \A k \in 1 .. (n - 1) : ((n - 1) - k) + 1 \in 1 .. (n - 1)
                              /\ (((n - 1) - k) + 1) + 1 = n + 2 - (1 + k)
  BY <1>1
<1>9. \A k \in 1 .. (n - 1) : v[k] = q[n + 2 - (1 + k)]
  BY <1>4, <1>6, <1>8
<1>10. v \in Seq(S) /\ Len(v) = n - 1
  <2>1. \A k \in 1 .. (n - 1) : w[((n - 1) - k) + 1] \in S
    BY <1>4, <1>8, ElementOfSeq
  <2>2. v \in [1 .. (n - 1) -> S] /\ n - 1 \in Nat
    BY <1>1, <1>6, <1>7, <2>1
  <2> QED
    BY <2>2
<1>11. DOMAIN m = 1 .. (Len(u) + Len(v))
  BY <1>1, <1>3, <1>5, <1>10
<1>12. \A k \in 1 .. Len(u) : u[k] = q[m[k]]
  BY <1>1, <1>3, <1>5, <1>7
<1>13. \A k \in 1 .. Len(v) : v[k] = q[m[Len(u) + k]]
  BY <1>1, <1>3, <1>5, <1>7, <1>9, <1>10
<1>14. Joins(u, v, q, m)
  BY <1>11, <1>12, <1>13 DEF Joins
<1>15. u \o v = Through(q, m)
  BY <1>3, <1>10, <1>14, JoinIsThrough
<1> QED
  BY <1>2, <1>15 DEF n, m

LEMMA MoveIsThrough ==
  ASSUME NEW S, NEW q \in Seq(S), NEW from \in Nat, NEW to \in Nat, CanMove(q, from, to)
  PROVE  Moved(q, from, to) = Through(q, AfterMove(Len(q), from, to))
<1> DEFINE n == Len(q)
           m == AfterMove(n, from, to)
           w == RemoveAt(q, from + 1)
           x == q[from + 1]
           a == SubSeq(w, 1, to)
           u == a \o <<x>>
           v == SubSeq(w, to + 1, n - 1)
<1>1. n \in Nat /\ from < n /\ to < n /\ x \in S /\ from # to /\ from > 0 /\ to > 0
  BY ElementOfSeq DEF CanMove
<1>2. DOMAIN m = 1 .. n /\ \A k \in 1 .. n : m[k] =
          IF k = to + 1 THEN from + 1
          ELSE IF from < to /\ k \in (from + 1) .. to THEN k + 1
          ELSE IF to < from /\ k \in (to + 2) .. (from + 1) THEN k - 1
          ELSE k
  BY DEF AfterMove
<1>3. w \in Seq(S) /\ Len(w) = n - 1
      /\ \A k \in 1 .. (n - 1) : w[k] = IF k <= from THEN q[k] ELSE q[k + 1]
  <2>1. w = RemoveIndex(q, from)
    <3>1. (from + 1) - 1 = from /\ (from + 1) + 1 = from + 2
      OBVIOUS
    <3>2. w = SubSeq(q, 1, (from + 1) - 1) \o SubSeq(q, (from + 1) + 1, n)
      BY DEF RemoveAt
    <3> QED
      BY <1>1, <3>1, <3>2 DEF RemoveIndex
  <2> DEFINE g == AfterRemoval(n, from)
  <2>2. w = Through(q, g)
    BY <1>1, <2>1, RemoveIsThrough
  <2>3. DOMAIN g = 1 .. (n - 1)
        /\ \A k \in 1 .. (n - 1) : g[k] = IF k <= from THEN k ELSE k + 1
    BY DEF AfterRemoval
  <2>4. \A k \in 1 .. (n - 1) : g[k] \in 1 .. n
    BY <1>1, <2>3
  <2> HIDE DEF g, w
  <2>5. w = [k \in 1 .. (n - 1) |-> q[g[k]]] /\ \A k \in 1 .. n : q[k] \in S
    BY <2>2, <2>3, ElementOfSeq DEF Through
  <2>6. w \in [1 .. (n - 1) -> S] /\ n - 1 \in Nat
    BY <1>1, <2>4, <2>5
  <2>7. w \in Seq(S) /\ Len(w) = n - 1
    BY <2>6
  <2>8. \A k \in 1 .. (n - 1) : w[k] = IF k <= from THEN q[k] ELSE q[k + 1]
    BY <2>3, <2>5
  <2> QED
    BY <2>7, <2>8
<1>4. Moved(q, from, to) = u \o v
  <2>1. (to + 1) - 1 = to
    OBVIOUS
  <2> QED
    BY <1>3, <2>1 DEF Moved, InsertAt
<1> HIDE DEF w, x, n, m
<1>5. a \in Seq(S) /\ Len(a) = to /\ \A k \in 1 .. to : a[k] = w[k]
  <2>1. a \in Seq(S) /\ Len(a) = to + 1 - 1 /\ \A k \in 1 .. (to + 1 - 1) : a[k] = w[1 + k - 1]
    BY <1>1, <1>3, CutOut
  <2> QED
    BY <2>1
<1>6. v \in Seq(S) /\ Len(v) = n - 1 - to /\ \A k \in 1 .. (n - 1 - to) : v[k] = w[to + k]
  <2>1. /\ v \in Seq(S) /\ Len(v) = (n - 1) + 1 - (to + 1)
        /\ \A k \in 1 .. ((n - 1) + 1 - (to + 1)) : v[k] = w[(to + 1) + k - 1]
    BY <1>1, <1>3, CutOut
  <2> QED
    BY <1>1, <2>1
<1> HIDE DEF a, v
<1>7. u \in Seq(S) /\ Len(u) = to + 1
      /\ \A k \in 1 .. (to + 1) : u[k] = IF k <= to THEN w[k] ELSE x
  <2>1. <<x>> \in Seq(S) /\ Len(<<x>>) = 1 /\ <<x>>[1] = x
    BY <1>1
  <2>2. /\ u \in Seq(S) /\ Len(u) = to + 1
        /\ \A k \in 1 .. (to + 1) : u[k] = IF k <= to THEN a[k] ELSE <<x>>[k - to]
    BY <1>5, <2>1, ConcatProperties
  <2> QED
    BY <1>5, <2>1, <2>2
<1> HIDE DEF u
<1>8. DOMAIN m = 1 .. (Len(u) + Len(v))
  BY <1>1, <1>2, <1>6, <1>7
<1>9. \A k \in 1 .. Len(u) : u[k] = q[m[k]]
  <2> SUFFICES ASSUME NEW k \in 1 .. (to + 1)
               PROVE  u[k] = q[m[k]]
    BY <1>7
  <2>1. CASE k = to + 1
    BY <1>1, <1>2, <1>7, <2>1 DEF x
  <2>2. CASE k <= to
    <3>1. k \in 1 .. (n - 1) /\ k \in 1 .. n
      BY <1>1, <2>2
    <3>2. u[k] = IF k <= from THEN q[k] ELSE q[k + 1]
      BY <1>3, <1>7, <2>2, <3>1
    <3>3. m[k] = IF k <= from THEN k ELSE k + 1
      BY <1>1, <1>2, <2>2, <3>1
    <3> QED
      BY <3>2, <3>3
  <2> QED
    BY <2>1, <2>2
<1>10. \A k \in 1 .. Len(v) : v[k] = q[m[Len(u) + k]]
  <2> SUFFICES ASSUME NEW k \in 1 .. (n - 1 - to)
               PROVE  v[k] = q[m[(to + 1) + k]]
    BY <1>6, <1>7
  <2>1. to + k \in 1 .. (n - 1) /\ (to + 1) + k \in 1 .. n
    BY <1>1
  <2>2. v[k] = IF to + k <= from THEN q[to + k] ELSE q[(to + 1) + k]
    <3>1. (to + k) + 1 = (to + 1) + k
      OBVIOUS
    <3> QED
      BY <1>3, <1>6, <2>1, <3>1
  <2>3. m[(to + 1) + k] = IF to + k <= from THEN to + k ELSE (to + 1) + k
    BY <1>1, <1>2, <2>1
  <2> QED
    BY <2>2, <2>3
<1>11. Joins(u, v, q, m)
  BY <1>8, <1>9, <1>10 DEF Joins
<1>12. u \o v = Through(q, m)
  BY <1>6, <1>7, <1>11, JoinIsThrough
<1> QED
  BY <1>4, <1>12 DEF n, m

LEMMA ShuffleIsThrough ==
  ASSUME NEW S, NEW q \in Seq(S), Len(q) > 2,
         NEW p \in Injection(2 .. Len(q), 2 .. Len(q))
  PROVE  Through(q, AfterShuffle(Len(q), p)) \in Shuffles(q)
<1> DEFINE n == Len(q)
           m == AfterShuffle(n, p)
           g == [i \in 1 .. (n - 1) |-> p[i + 1]]
           u == <<q[1]>>
           v == [i \in 1 .. (n - 1) |-> q[g[i]]]
<1>1. n \in Nat /\ n > 2
  OBVIOUS
<1>2. /\ p \in [2 .. n -> 2 .. n]
      /\ \A i, j \in 2 .. n : p[i] = p[j] => i = j
  BY DEF Injection, IsInjective
<1>3. \A i \in 1 .. (n - 1) : i + 1 \in 2 .. n
  BY <1>1
<1>4. g \in Injection(1 .. (n - 1), 2 .. n)
  <2>1. g \in [1 .. (n - 1) -> 2 .. n]
    BY <1>2, <1>3
  <2>2. ASSUME NEW i \in 1 .. (n - 1), NEW j \in 1 .. (n - 1), g[i] = g[j]
        PROVE  i = j
    <3>1. i + 1 = j + 1
      BY <1>2, <1>3, <2>2
    <3> QED
      BY <3>1
  <2> QED
    BY <2>1, <2>2 DEF Injection, IsInjective
<1>5. u \o v \in Shuffles(q)
  <2> HIDE DEF g
  <2>1. Shuffles(q) = {<<q[1]>> \o [i \in 1 .. (n - 1) |-> q[h[i]]] :
                           h \in Injection(1 .. (n - 1), 2 .. n)}
    BY <1>1 DEF Shuffles
  <2> QED
    BY <1>4, <2>1
<1>6. v \in Seq(S) /\ Len(v) = n - 1
  <2>1. \A i \in 1 .. (n - 1) : g[i] \in 1 .. n
    BY <1>1, <1>2, <1>3
  <2> HIDE DEF g, n
  <2>2. v \in [1 .. (n - 1) -> S]
    BY <2>1, ElementOfSeq DEF n
  <2>3. n - 1 \in Nat
    BY <1>1
  <2> HIDE DEF v
  <2> QED
    BY <2>2, <2>3
<1>7. \A i \in 1 .. (n - 1) : v[i] = q[p[1 + i]]
  BY <1>1
<1>8. u \in Seq(S) /\ Len(u) = 1 /\ u[1] = q[1]
  BY <1>1, ElementOfSeq
<1>9. DOMAIN m = 1 .. n /\ \A k \in 1 .. n : m[k] = IF k = 1 THEN 1 ELSE p[k]
  BY DEF AfterShuffle
<1> HIDE DEF n, m, u, v
<1>10. DOMAIN m = 1 .. (Len(u) + Len(v))
  BY <1>1, <1>6, <1>8, <1>9
<1>11. \A k \in 1 .. Len(u) : u[k] = q[m[k]]
  BY <1>1, <1>8, <1>9
<1>12. \A k \in 1 .. Len(v) : v[k] = q[m[Len(u) + k]]
  <2>1. \A k \in 1 .. (n - 1) : 1 + k \in 1 .. n /\ 1 + k # 1
    BY <1>1
  <2> QED
    BY <1>6, <1>7, <1>8, <1>9, <2>1
<1>13. Joins(u, v, q, m)
  BY <1>10, <1>11, <1>12 DEF Joins
<1>14. u \o v = Through(q, m)
  BY <1>6, <1>8, <1>13, JoinIsThrough
<1> QED
  BY <1>5, <1>14 DEF n, m

=============================================================================
