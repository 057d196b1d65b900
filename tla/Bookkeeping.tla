---------------------------- MODULE Bookkeeping -----------------------------
(***************************************************************************)
(* What the bot keeps besides its queues: the rights of a chat, the        *)
(* logger's switch, a user's playlists, what was recommended, and the      *)
(* broadcasts.  They share no data, so their steps commute: a behaviour    *)
(* here is a behaviour of one of them, and the states are those of each    *)
(* and not their products.                                                 *)
(***************************************************************************)
EXTENDS ChatRights, Playlists, RecommendHistory, Broadcasts

VARIABLE part   \* the part that this behaviour is about

bookVars == <<part, rightsVars, playlistVars, historyVars, broadcastVars>>

Init ==
    /\ part \in {"rights", "logger", "playlists", "history", "broadcasts"}
    /\ RightsInit /\ PlaylistsInit /\ HistoryInit /\ BroadcastsInit
    /\ part # "rights" => source["chat"] = Nothing /\ entry["chat"] = source["chat"] /\ entry["admins"] = Nothing
    /\ part # "playlists" => lists = <<>>

Next ==
    \/ /\ part \in {"rights", "logger"} /\ RightsNext
       /\ \A g \in Goroutines : Req(g)'.does = "none" \/ ((Req(g)'.does = "logger") <=> (part = "logger"))
       /\ part = "logger" => updates' = updates
       /\ UNCHANGED <<part, playlistVars, historyVars, broadcastVars>>
    \/ /\ part = "playlists" /\ PlaylistsNext
       /\ UNCHANGED <<part, rightsVars, historyVars, broadcastVars>>
    \/ /\ part = "history" /\ HistoryNext
       /\ UNCHANGED <<part, rightsVars, playlistVars, broadcastVars>>
    \/ /\ part = "broadcasts" /\ BroadcastsNext
       /\ UNCHANGED <<part, rightsVars, playlistVars, historyVars>>

Spec == Init /\ [][Next]_bookVars
=============================================================================
