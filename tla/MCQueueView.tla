----------------------------- MODULE MCQueueView -----------------------------
(* Instance of QueueView for TLC: odd tracks are videos, names run against  *)
(* the order of arrival and two are equal, the first two tracks are         *)
(* somebody else's, and the fourth is one of the first three again.         *)
EXTENDS QueueView, TLC
Symmetry == Permutations(Goroutines)
Key == [s \in Sorts |-> [t \in Tracks |-> 10 - t \div 2]]
Shown == [f \in Filters |-> {t \in Tracks : t % 2 = 1}]
Known == [t \in Tracks |-> IF t = 4 THEN "a" ELSE <<"x", "a", "b">>[t]]
Again == [t \in Tracks |-> IF t = 4 THEN "b" ELSE <<"x", "a", "b">>[t]]
Asked == [t \in Tracks |-> IF t < 3 THEN "admin" ELSE "user"]

\* Sorted is the library's stable sort, on every queue of up to four tracks.
ASSUME SortedIsStable ==
    \A q \in UNION {[1 .. n -> Tracks] : n \in 0 .. 4}, s \in Sorts :
        IsInjective(q) => Sorted(q, s) = SortSeq(q, LAMBDA a, b : Before(s, q, a, b))
=============================================================================
