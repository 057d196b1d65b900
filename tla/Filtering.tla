----------------------------- MODULE Filtering ------------------------------
(***************************************************************************)
(* Taking elements out of a list, as Go does with slices.DeleteFunc,       *)
(* list.Remove, $pull, or an append in a loop.                             *)
(*                                                                         *)
(* Keep(s, kept) is SelectSeq(s, LAMBDA e : e \in kept).  The provers know *)
(* nothing of SelectSeq, which is recursive; so it is said by ranks.       *)
(***************************************************************************)
EXTENDS Naturals, Sequences, FiniteSets

\* The n-th of a finite set of indices.
Rank(P, i) == Cardinality({j \in P : j <= i})
Nth(P, n) == CHOOSE i \in P : Rank(P, i) = n

KeptAt(s, kept) == {i \in DOMAIN s : s[i] \in kept}
Keep(s, kept) == [n \in 1 .. Cardinality(KeptAt(s, kept)) |-> s[Nth(KeptAt(s, kept), n)]]
=============================================================================
