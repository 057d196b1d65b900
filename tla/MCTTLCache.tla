----------------------------- MODULE MCTTLCache -----------------------------
(* Instance of TTLCache for TLC. *)
EXTENDS TTLCache, TLC

\* Keep is SelectSeq, on every list of up to three keys.
ASSUME KeepSelects ==
    \A s \in UNION {[1 .. n -> Keys] : n \in 0 .. 3}, kept \in SUBSET Keys :
        Keep(s, kept) = SelectSeq(s, LAMBDA e : e \in kept)

Symmetric == Permutations(Keys) \cup Permutations(Values)
=============================================================================
