---------------------------- MODULE MCChatCache -----------------------------
(* Instance of ChatCache for TLC: two chats that share four track objects, *)
(* arrays of up to five cells.                                             *)
EXTENDS ChatCache, TLC
Symmetric == Permutations(Chats) \cup Permutations(Track)
=============================================================================
