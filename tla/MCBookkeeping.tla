--------------------------- MODULE MCBookkeeping ----------------------------
(***************************************************************************)
(* Two goroutines for every part; one user administrates the chat, the     *)
(* other one does not; three commands or changes of administrators, four   *)
(* edits of playlists or orders of a broadcast, three recommendations, and *)
(* one thing that fails or expires.                                        *)
(***************************************************************************)
EXTENDS Bookkeeping, TLC

CONSTANTS g1, g2

MCAsked ==
    {Request("settings", "u1", ""), Request("authlist", "u2", ""), Request("start", "u2", ""),
     Request("addauth", "u1", "u2"), Request("removeauth", "u1", "u2"),
     Request("toggle", "u1", "admin"), Request("toggle", "u1", "play"),
     Request("logger", "dev", "on"), Request("logger", "dev", "off"),
     Request("reload", "anyone", ""), Request("addchat", "anyone", ""), Request("listchats", "anyone", "")}

MCSymmetry == Permutations({g1, g2})
=============================================================================
