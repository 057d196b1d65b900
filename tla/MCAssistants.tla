---------------------------- MODULE MCAssistants ----------------------------
(* Instance of Assistants for TLC. *)
EXTENDS Assistants, TLC
Symmetry == Permutations(Goroutines)
=============================================================================
