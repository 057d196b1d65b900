----------------------------- MODULE GroupCall ------------------------------
(***************************************************************************)
(* The group call of one chat as each assistant sees it: the fields of     *)
(* Assistant (src/vc/assistant.go), the call that ntgcalls holds for it    *)
(* (the binding, src/vc/ntgcalls/ntgcalls.go), and what is on its way to   *)
(* the assistant's callbacks.  Callbacks run in goroutines of their own,   *)
(* so what is on its way arrives in any order.                             *)
(*                                                                         *)
(* Of ntgcalls this assumes what Play relies on: one call per chat, so     *)
(* that creating a second one fails, and errors for a call that is gone.   *)
(* Presentations are not modelled: no caller asks for a screen, joining    *)
(* one is never tried and the list of presentations stays empty.           *)
(***************************************************************************)
EXTENDS Integers

VARIABLES videoChat,     \* Telegram's call of the chat: its id, or NoCall
          groupCall,     \* inputGroupCalls: an id, NoCall for nil, or Unknown
          groupUpdates,  \* UpdateGroupCall on its way: the call, and whether it is over
          binding,       \* the state of ntgcalls' call
          mode,          \* its connection mode
          pending,       \* pendingConnections has an entry
          mutedByAdmin,  \* the chat is in mutedByAdmin
          waiting,       \* waitConnect: the goroutine whose channel it holds
          signals        \* connection changes on their way to an assistant

callVars == <<videoChat, groupCall, groupUpdates, binding, mode, pending,
              mutedByAdmin, waiting, signals>>

NoCall == 0
Unknown == -1
NoOne == "no one"

Streams(a) == binding[a] \in {"connecting", "connected"}

\* It streams, or would once it may speak again.
Engaged(a) == Streams(a) \/ pending[a]

\* Client.Stop: the call is gone, and a Closed may be on its way.
Stopped(a) ==
    /\ binding' = [binding EXCEPT ![a] = "none"]
    /\ mode' = [mode EXCEPT ![a] = "rtc"]
    /\ \/ UNCHANGED signals
       \/ /\ binding[a] # "none"
          /\ signals' = [signals EXCEPT ![a] = @ \cup {"failed"}]

\* The deferred removal from waitConnect: whichever channel is there.
Unregister(a) == waiting' = [waiting EXCEPT ![a] = NoOne]

\* Variant: a call that ended leaves its pending connection behind.
StopCallKeepsPending(a) ==
    /\ Stopped(a)
    /\ UNCHANGED <<videoChat, groupCall, groupUpdates, pending, mutedByAdmin, waiting>>

\* stopCall; PhoneLeaveGroupCall changes nothing that is modelled.
StopCall(a) ==
    /\ pending' = [pending EXCEPT ![a] = FALSE]
    /\ Stopped(a)
    /\ UNCHANGED <<videoChat, groupCall, groupUpdates, mutedByAdmin, waiting>>

Started(id) == [id |-> id, over |-> FALSE]
Discarded(id) == [id |-> id, over |-> TRUE]
Received(a, u) == u \in groupUpdates[a] /\ groupUpdates' = [groupUpdates EXCEPT ![a] = @ \ {u}]

\* Variant: a call that ended stays in inputGroupCalls.
OnGroupCallIgnoresDiscarded(a, u) ==
    /\ Received(a, u)
    /\ IF u.over
       THEN Stopped(a) /\ UNCHANGED groupCall
       ELSE groupCall' = [groupCall EXCEPT ![a] = u.id] /\ UNCHANGED <<binding, mode, signals>>
    /\ UNCHANGED <<videoChat, pending, mutedByAdmin, waiting>>

\* onGroupCall: a call that started is remembered, one that was discarded is
\* forgotten and stopped.  So it is for an update that names its chat, and for
\* one that does not when its call is the one remembered.
OnGroupCall(a, u) ==
    /\ Received(a, u)
    /\ \/ /\ ~u.over
          /\ groupCall' = [groupCall EXCEPT ![a] = u.id]
          /\ UNCHANGED <<binding, mode, signals>>
       \/ /\ u.over
          /\ groupCall' = [groupCall EXCEPT ![a] = Unknown]
          /\ Stopped(a)
    /\ UNCHANGED <<videoChat, pending, mutedByAdmin, waiting>>

\* onGroupCall, of an update without a chat: a call that is not remembered
\* belongs to none, and the update is dropped.
OnUnmatchedCall(a, u) ==
    /\ Received(a, u)
    /\ groupCall[a] # u.id
    /\ UNCHANGED <<videoChat, groupCall, binding, mode, pending, mutedByAdmin, waiting, signals>>

\* onGroupCallParticipants, when the assistant is muted by an admin, or may
\* speak again in a call that is not a broadcast: the update is about a call
\* the assistant knows.  What it does in a broadcast is in Assistants.
KnowsCall(a) == groupCall[a] \notin {Unknown, NoCall}
OnMuted(a) ==
    /\ KnowsCall(a)
    /\ mutedByAdmin' = [mutedByAdmin EXCEPT ![a] = TRUE]
    /\ UNCHANGED <<videoChat, groupCall, groupUpdates, binding, mode, pending, waiting, signals>>
OnUnmuted(a) ==
    /\ KnowsCall(a)
    /\ mutedByAdmin[a]
    /\ Streams(a) /\ mode[a] = "rtc"
    /\ mutedByAdmin' = [mutedByAdmin EXCEPT ![a] = FALSE]
    /\ UNCHANGED <<videoChat, groupCall, groupUpdates, binding, mode, pending, waiting, signals>>

\* ntgcalls reports that a connection came up, or failed, with or without
\* dropping the call.
ConnectionUp(a) ==
    /\ binding[a] = "connecting"
    /\ binding' = [binding EXCEPT ![a] = "connected"]
    /\ signals' = [signals EXCEPT ![a] = @ \cup {"ok"}]
    /\ UNCHANGED <<videoChat, groupCall, groupUpdates, mode, pending, mutedByAdmin, waiting>>
ConnectionDown(a) ==
    /\ Streams(a)
    /\ signals' = [signals EXCEPT ![a] = @ \cup {"failed"}]
    /\ \/ UNCHANGED <<binding, mode>>
       \/ /\ binding' = [binding EXCEPT ![a] = "none"]
          /\ mode' = [mode EXCEPT ![a] = "rtc"]
    /\ UNCHANGED <<videoChat, groupCall, groupUpdates, pending, mutedByAdmin, waiting>>

GroupCallType(assistants, goroutines, ids) ==
    /\ videoChat \in ids
    /\ groupCall \in [assistants -> ids \cup {Unknown}]
    /\ groupUpdates \in [assistants -> SUBSET [id : ids, over : BOOLEAN]]
    /\ binding \in [assistants -> {"none", "created", "connecting", "connected"}]
    /\ mode \in [assistants -> {"rtc", "stream"}]
    /\ pending \in [assistants -> BOOLEAN]
    /\ mutedByAdmin \in [assistants -> BOOLEAN]
    /\ waiting \in [assistants -> goroutines \cup {NoOne}]
    /\ signals \in [assistants -> SUBSET {"ok", "failed"}]
=============================================================================
