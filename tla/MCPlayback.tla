----------------------------- MODULE MCPlayback -----------------------------
(* Instances of Playback for TLC. *)
EXTENDS Playback, TLC
Symmetric == Permutations(Workers) \cup Permutations(Ids)
=============================================================================
