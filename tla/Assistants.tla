----------------------------- MODULE Assistants -----------------------------
(***************************************************************************)
(* The assistants of one chat at work: PlayMedia with its rotation         *)
(* (src/vc/play.go), joining the chat (userbot.go), connecting to its call *)
(* (assistant.go), Stop (calls.go), member updates (handlers/              *)
(* participant.go), call updates, and leaving (leave_all.go), over the     *)
(* parts AssistantStore, Membership and GroupCall.                         *)
(*                                                                         *)
(* Requests run in goroutines; an action is what one does up to the next   *)
(* answer of Telegram, of the database or of ntgcalls.  The queue of the   *)
(* chat is only known to have tracks or not (active).                      *)
(***************************************************************************)
EXTENDS AssistantStore, Membership, GroupCall

CONSTANTS Goroutines,
          NumAssistants,  \* accounts; the program starts with all or fewer
          MaxRequests, MaxFaults, MaxCalls  \* bounds

ASSUME SomeAssistants == NumAssistants \in Nat \ {0}
ASSUME Bounds == {MaxRequests, MaxFaults} \subseteq Nat /\ MaxCalls \in Nat \ {0}
ASSUME Names == {"yes", "no", NoOne} \cap Goroutines = {}

Indices == 0 .. NumAssistants - 1
Bot == NumAssistants                \* the bot's own account, in updates
Accounts == Indices \cup {Bot}
CallIds == 0 .. MaxCalls

VARIABLES pool,     \* TelegramCalls.assistants: the indices that started
          leaving,  \* assistants that leave their dialogs
          active,   \* the chat's queue has tracks
          go,       \* the goroutines
          requests, faults,  \* plays and stops started, faults spent
          upsets,   \* what happened that correctness is not claimed under
          silenced  \* "yes": a Stop ran, and nothing was played since it started;
                    \* until then the goroutine that runs it, or "no"

progVars == <<pool, leaving, active>>
boundVars == <<requests, faults>>
ghosts == <<upsets, silenced>>
vars == <<storeVars, memberVars, callVars, progVars, boundVars, ghosts, go>>

NoUpdate == MemberUpdate(Bot, "member", "member")
Idle == [at |-> "idle", req |-> "none", who |-> Nobody, tried |-> {}, again |-> FALSE,
         err |-> "none", answer |-> "none", doc |-> Nobody,
         call |-> NoCall, update |-> NoUpdate]

At(g, label) == go[g].at = label
Move(g, label) == go' = [go EXCEPT ![g].at = label]
Return(g) == go' = [go EXCEPT ![g] = Idle]

MayFail == faults < MaxFaults
Fault == MayFail /\ faults' = faults + 1
NoFault == UNCHANGED faults
Upset(what) == upsets' = upsets \cup {what}

Streaming(h) == go[h].req \in {"play", "reconnect"}

Init ==
    /\ assigned \in Indices \cup {Nobody} /\ assignedCache = Nobody
    /\ member = [a \in Indices |-> IF a = 0 THEN "member" ELSE "left"]
    /\ statusCache = [a \in Accounts |-> "none"]
    /\ inviteCache = "none" /\ memberUpdates = {}
    /\ videoChat \in {NoCall, 1}
    /\ groupCall = [a \in Indices |-> Unknown]
    /\ groupUpdates = [a \in Indices |-> {}]
    /\ binding = [a \in Indices |-> "none"]
    /\ mode = [a \in Indices |-> "rtc"]
    /\ pending = [a \in Indices |-> FALSE]
    /\ mutedByAdmin = [a \in Indices |-> FALSE]
    /\ waiting = [a \in Indices |-> NoOne]
    /\ signals = [a \in Indices |-> {}]
    /\ pool \in {0 .. n - 1 : n \in 1 .. NumAssistants}
    /\ leaving = {} /\ active = FALSE
    /\ go = [g \in Goroutines |-> Idle]
    /\ requests = 0 /\ faults = 0
    /\ upsets = {} /\ silenced = "no"

-----------------------------------------------------------------------------
(* Requests. *)

NewRequest == requests < MaxRequests /\ requests' = requests + 1
Start(g, r) == At(g, "idle") /\ go' = [go EXCEPT ![g] = r]

\* Two attempts to stream at a time are an upset.
Plays(g) ==
    /\ silenced' = "no"
    /\ IF \E h \in Goroutines \ {g} : Streaming(h)
       THEN Upset("overlap") ELSE UNCHANGED upsets

\* A track was queued and PlayMedia is called.
StartPlay(g) ==
    /\ NewRequest
    /\ Start(g, [Idle EXCEPT !.at = "lookup", !.req = "play"])
    /\ Plays(g)
    /\ active' = TRUE
    /\ UNCHANGED <<storeVars, memberVars, callVars, pool, leaving, faults>>

StartStop(g) ==
    /\ NewRequest
    /\ Start(g, [Idle EXCEPT !.at = "lookup", !.req = "stop"])
    /\ silenced' = IF \E h \in Goroutines : Streaming(h) THEN "no" ELSE g
    /\ UNCHANGED <<storeVars, memberVars, callVars, progVars, faults, upsets>>

\* handleParticipant; the chat's public name replaces the invite link.
StartUpdate(g) ==
    \E u \in memberUpdates :
        /\ Start(g, [Idle EXCEPT !.at = "lookup", !.req = "update", !.update = u])
        /\ memberUpdates' = memberUpdates \ {u}
        /\ UNCHANGED <<storeVars, member, statusCache, inviteCache, callVars, progVars,
                       boundVars, ghosts>>

\* onGroupCallParticipants in a broadcast: the assistant may speak, and a
\* connection is pending.
StartReconnect(g) ==
    \E a \in pool :
        /\ KnowsCall(a) /\ Streams(a) /\ mode[a] = "stream" /\ pending[a]
        /\ Start(g, [Idle EXCEPT !.at = "create", !.req = "reconnect", !.who = a])
        /\ Plays(g)
        /\ Fault
        /\ UNCHANGED <<storeVars, memberVars, callVars, progVars, requests>>

\* /clearass: ClearAllAssistants.
StartClear(g) ==
    /\ Start(g, [Idle EXCEPT !.at = "clear", !.req = "clear"])
    /\ Fault
    /\ UNCHANGED <<storeVars, memberVars, callVars, progVars, requests, ghosts>>

-----------------------------------------------------------------------------
(* Which assistant: getClientIndex, GetAssistant and AssignAssistant. *)

Entry == [play |-> "status", stop |-> "stop", update |-> "update"]
Chosen(g, i) ==
    go' = [go EXCEPT ![g].who = i, ![g].tried = {i}, ![g].doc = Nobody,
                     ![g].at = Entry[go[g].req]]

\* A command that writes the document while another goroutine is between its
\* own command and the cache is an upset.
BeforeCache == {"fill", "refill", "assigned", "saved", "evicted", "cleared"}
Clash(g) ==
    IF \E h \in Goroutines \ {g} : go[h].at \in BeforeCache
    THEN Upset("clash") ELSE UNCHANGED upsets

\* Variant: an index beyond the pool is accepted.
LookupHitUnchecked(g) ==
    /\ At(g, "lookup")
    /\ assignedCache # Nobody
    /\ Chosen(g, assignedCache)
    /\ UNCHANGED <<storeVars, memberVars, callVars, progVars, boundVars, ghosts>>

LookupHit(g) ==
    /\ At(g, "lookup")
    /\ assignedCache # Nobody
    /\ IF assignedCache \in pool THEN Chosen(g, assignedCache) ELSE Move(g, "assign")
    /\ UNCHANGED <<storeVars, memberVars, callVars, progVars, boundVars, ghosts>>

LookupRead(g) ==
    /\ At(g, "lookup")
    /\ assignedCache = Nobody
    /\ \/ /\ assigned = Nobody /\ NoFault /\ Move(g, "assign") /\ UNCHANGED upsets
       \/ /\ assigned # Nobody /\ NoFault
          /\ go' = [go EXCEPT ![g].at = "fill", ![g].doc = assigned]
          /\ UNCHANGED upsets
       \/ Fault /\ Move(g, "assign") /\ Upset("database")
    /\ UNCHANGED <<storeVars, memberVars, callVars, progVars, requests, silenced>>

Fill(g) ==
    /\ At(g, "fill")
    /\ CacheAssistant(go[g].doc)
    /\ IF go[g].doc \in pool THEN Chosen(g, go[g].doc) ELSE Move(g, "assign")
    /\ UNCHANGED <<memberVars, callVars, progVars, boundVars, ghosts>>

\* A random assistant is proposed.  When another one is there already,
\* AssignAssistant returns that one, through the cache, and getClientIndex
\* goes on with its own.
Assign(g) ==
    /\ At(g, "assign")
    /\ \E i \in pool :
        \/ /\ AssignAssistant(i) /\ NoFault /\ Clash(g)
           /\ go' = [go EXCEPT ![g].at = "assigned", ![g].who = i]
        \/ /\ ~Assignable /\ NoFault /\ UNCHANGED storeVars
           /\ IF assigned # i THEN Upset("outvoted") ELSE UNCHANGED upsets
           /\ IF assignedCache # Nobody
              THEN Chosen(g, i)
              ELSE go' = [go EXCEPT ![g].at = "refill", ![g].who = i, ![g].doc = assigned]
        \/ Fault /\ UNCHANGED storeVars /\ Upset("database") /\ Chosen(g, i)
    /\ UNCHANGED <<memberVars, callVars, progVars, requests, silenced>>

Assigned(g) ==
    /\ At(g, "assigned")
    /\ CacheAssistant(go[g].who)
    /\ Chosen(g, go[g].who)
    /\ UNCHANGED <<memberVars, callVars, progVars, boundVars, ghosts>>

Refill(g) ==
    /\ At(g, "refill")
    /\ CacheAssistant(go[g].doc)
    /\ Chosen(g, go[g].who)
    /\ UNCHANGED <<memberVars, callVars, progVars, boundVars, ghosts>>

-----------------------------------------------------------------------------
(* The outcome of one attempt: playMedia, and what PlayMedia and           *)
(* rotateAndPlay do with its error (classifyError: "fatal" and "unknown"   *)
(* end the rotation, "retry" is GROUPCALL_ADD_PARTICIPANTS_FAILED,         *)
(* "rotate" and "too much" go to another assistant).                       *)

Rotates == {"rotate", "too much"}

\* Where a goroutine goes on after an error.
AfterError(r, e) ==
    IF r.req = "reconnect"
    THEN [r EXCEPT !.at = "unpend"]
    ELSE IF e = "retry" /\ ~r.again
    THEN [r EXCEPT !.at = "status", !.again = TRUE, !.answer = "none", !.call = NoCall]
    ELSE IF e \in Rotates
    THEN [r EXCEPT !.at = "evict", !.err = e, !.answer = "none", !.call = NoCall]
    ELSE Idle

Fail(g, e) ==
    /\ go' = [go EXCEPT ![g] = AfterError(@, e)]
    /\ active' = (active /\ go[g].req = "reconnect")
    /\ UNCHANGED <<pool, leaving>>

\* evictAssistant: the command, then the cache, which a failure leaves alone.
\* The call of the assistant is not stopped: when it still is engaged, because
\* what failed came before its call was looked for, that is an upset.
Evict(g) ==
    /\ At(g, "evict")
    /\ \/ RemoveAssistant /\ NoFault /\ Move(g, "evicted")
          /\ IF Engaged(go[g].who) THEN Upset("orphaned") ELSE Clash(g)
       \/ UNCHANGED storeVars /\ NoFault /\ Upset("database")
          /\ Move(g, "not evicted")
    /\ UNCHANGED <<memberVars, callVars, progVars, requests, silenced>>

\* The goroutine that lets an account in too many chats leave them.
LeaveAllForClient(g) ==
    leaving' = leaving \cup (IF go[g].err = "too much" THEN {go[g].who} ELSE {})

Attempt(r, i) ==
    [r EXCEPT !.at = "status", !.who = i, !.again = FALSE, !.err = "none", !.tried = @ \cup {i}]

\* Variant: nextUntried forgets which assistants were tried.
NextUntriedForgets(g) ==
    /\ go[g].at \in {"evicted", "not evicted"}
    /\ IF At(g, "evicted") THEN UncacheAssistant ELSE UNCHANGED storeVars
    /\ LeaveAllForClient(g)
    /\ \E i \in pool : go' = [go EXCEPT ![g] = Attempt(@, i)]
    /\ UNCHANGED <<memberVars, callVars, pool, active, boundVars, ghosts>>

NextUntried(g) ==
    /\ go[g].at \in {"evicted", "not evicted"}
    /\ IF At(g, "evicted") THEN UncacheAssistant ELSE UNCHANGED storeVars
    /\ LeaveAllForClient(g)
    /\ \/ pool \subseteq go[g].tried /\ Return(g)
       \/ \E i \in pool \ go[g].tried : go' = [go EXCEPT ![g] = Attempt(@, i)]
    /\ UNCHANGED <<memberVars, callVars, pool, active, boundVars, ghosts>>

\* SetAssistant after a success; its error is ignored.
Save(g) ==
    /\ At(g, "save")
    /\ \/ SetAssistant(go[g].who) /\ NoFault /\ Clash(g) /\ Move(g, "saved")
       \/ UNCHANGED storeVars /\ Fault /\ Upset("database") /\ Return(g)
    /\ UNCHANGED <<memberVars, callVars, progVars, requests, silenced>>

Saved(g) ==
    /\ At(g, "saved")
    /\ CacheAssistant(go[g].who)
    /\ Return(g)
    /\ UNCHANGED <<memberVars, callVars, progVars, boundVars, ghosts>>

-----------------------------------------------------------------------------
(* Joining the chat: joinAssistant and what it calls. *)

\* joinAssistant's switch over the status.  A ban needs an administrator's
\* rights to be lifted, a restriction only their presence: it stays.
ActOn(g, s) ==
    /\ go' = [go EXCEPT ![g].at = CASE s = "member" -> "calls"
                                    [] s = "left" -> "invite"
                                    [] OTHER -> "recover",
                        ![g].err = IF s = "banned" THEN "banned" ELSE @]
    /\ UNCHANGED <<pool, leaving, active>>

\* checkUserStats: the cached status, or Telegram's, which is cached.
CheckStatus(g) ==
    /\ At(g, "status")
    /\ LET a == go[g].who
           known == statusCache[a] # "none"
           s == IF known THEN statusCache[a] ELSE member[a]
       IN
       \/ NoFault /\ UpdateMembership(a, s) /\ ActOn(g, s)
       \/ ~known /\ Fault /\ Fail(g, "unknown") /\ UNCHANGED statusCache
    /\ UNCHANGED <<storeVars, member, inviteCache, memberUpdates, callVars, requests, ghosts>>

\* recoverBannedAssistant.
Recover(g) ==
    /\ At(g, "recover")
    /\ LET a == go[g].who IN
       \/ NoFault /\ Fail(g, "unknown") /\ UNCHANGED memberVars   \* the bot lacks the right
       \/ /\ go[g].err # "banned" /\ NoFault
          /\ Move(g, "calls")
          /\ UNCHANGED <<memberVars, progVars>>
       \/ /\ go[g].err = "banned" /\ NoFault
          /\ IF member[a] = "banned"
             THEN Becomes(a, "left") ELSE UNCHANGED <<member, memberUpdates>>
          /\ go' = [go EXCEPT ![g].at = "invite", ![g].err = "none"]
          /\ UNCHANGED <<statusCache, inviteCache, progVars>>
    /\ UNCHANGED <<storeVars, callVars, requests, ghosts>>

\* resolveInviteLink.
Invite(g) ==
    /\ At(g, "invite")
    /\ \/ inviteCache # "none" /\ NoFault /\ Move(g, "enter") /\ UNCHANGED <<inviteCache, progVars>>
       \/ inviteCache = "none" /\ NoFault /\ Move(g, "enter") /\ UpdateInviteLink("good") /\ UNCHANGED progVars
       \/ inviteCache = "none" /\ Fault /\ Fail(g, "unknown") /\ UNCHANGED inviteCache
    /\ UNCHANGED <<storeVars, member, statusCache, memberUpdates, callVars, requests, ghosts>>

\* joinUb: JoinChannel and handleJoinError.
JoinChannel(g) ==
    /\ At(g, "enter")
    /\ LET a == go[g].who IN
       \/ \* joined
          /\ inviteCache # "expired" /\ member[a] = "left" /\ NoFault
          /\ Becomes(a, "member") /\ UpdateMembership(a, "member") /\ Move(g, "calls")
          /\ UNCHANGED <<inviteCache, progVars>>
       \/ \* INVITE_REQUEST_SENT: approved, or not
          /\ inviteCache # "expired" /\ member[a] = "left" /\ Fault
          /\ \/ Becomes(a, "member") /\ Move(g, "calls") /\ UNCHANGED progVars
             \/ Fail(g, "unknown") /\ UNCHANGED <<member, memberUpdates>>
          /\ UNCHANGED <<statusCache, inviteCache>>
       \/ \* USER_ALREADY_PARTICIPANT
          /\ inviteCache # "expired" /\ InChat(a) /\ NoFault
          /\ UpdateMembership(a, "member") /\ Move(g, "calls")
          /\ UNCHANGED <<member, inviteCache, memberUpdates, progVars>>
       \/ \* INVITE_HASH_EXPIRED, and CHANNEL_PRIVATE for who is banned
          /\ inviteCache = "expired" \/ member[a] = "banned"
          /\ NoFault
          /\ UpdateInviteLink("none") /\ UpdateMembership(a, "left")
          /\ Fail(g, "unknown")
          /\ UNCHANGED <<member, memberUpdates>>
       \/ \* CHANNELS_TOO_MUCH, FLOOD_WAIT, FROZEN, or another error
          /\ Fault
          /\ \E e \in Rotates \cup {"unknown"} : Fail(g, e)
          /\ UNCHANGED memberVars
    /\ UNCHANGED <<storeVars, callVars, requests, ghosts>>

-----------------------------------------------------------------------------
(* The call: Play and connectCall. *)

\* A call that ntgcalls holds only gets a new source.
Calls(g) ==
    /\ At(g, "calls")
    /\ \/ binding[go[g].who] = "none" /\ NoFault /\ Move(g, "create") /\ UNCHANGED progVars
       \/ binding[go[g].who] # "none" /\ NoFault /\ Move(g, "save") /\ UNCHANGED progVars
       \/ binding[go[g].who] # "none" /\ Fault /\ Fail(g, "unknown")
    /\ UNCHANGED <<storeVars, memberVars, callVars, requests, ghosts>>

\* The channel is registered, the call created and given its source; an
\* error, as for a call that is there already, stops the call.
Create(g) ==
    /\ At(g, "create")
    /\ LET a == go[g].who IN
       \/ /\ binding[a] = "none" /\ NoFault
          /\ binding' = [binding EXCEPT ![a] = "created"]
          /\ waiting' = [waiting EXCEPT ![a] = g]
          /\ go' = [go EXCEPT ![g].at = "call", ![g].answer = "none"]
          /\ UNCHANGED <<mode, signals, progVars>>
       \/ /\ \/ binding[a] # "none" /\ NoFault
             \/ binding[a] = "none" /\ Fault
          /\ Stopped(a) /\ Unregister(a) /\ Fail(g, "unknown")
    /\ UNCHANGED <<storeVars, memberVars, videoChat, groupCall, groupUpdates, pending,
                   mutedByAdmin, requests, ghosts>>

\* The error path of connectCall before it asks to join.
StopAndFail(g, e) == Stopped(go[g].who) /\ Unregister(go[g].who) /\ Fail(g, e)
Undisturbed == UNCHANGED <<binding, mode, signals, waiting, progVars>>

\* getInputGroupCall: what is known, or the chat's full info.
Call(g) ==
    /\ At(g, "call")
    /\ LET a == go[g].who IN
       \/ /\ KnowsCall(a) /\ NoFault
          /\ go' = [go EXCEPT ![g].at = "join", ![g].call = groupCall[a]]
          /\ Undisturbed
       \/ groupCall[a] = NoCall /\ NoFault /\ StopAndFail(g, "fatal")
       \/ /\ groupCall[a] = Unknown /\ InChat(a) /\ NoFault
          /\ go' = [go EXCEPT ![g].at = "keep", ![g].call = videoChat]
          /\ Undisturbed
       \/ groupCall[a] = Unknown /\ ~InChat(a) /\ NoFault /\ StopAndFail(g, "unknown")
       \/ groupCall[a] = Unknown /\ Fault /\ StopAndFail(g, "unknown")
    /\ UNCHANGED <<storeVars, memberVars, videoChat, groupCall, groupUpdates, pending,
                   mutedByAdmin, requests, ghosts>>

\* The answer is stored, whatever an update stored in the meantime.
Keep(g) ==
    /\ At(g, "keep")
    /\ LET a == go[g].who
           stale == go[g].call # videoChat
       IN
       /\ groupCall' = [groupCall EXCEPT ![a] = go[g].call]
       /\ IF stale THEN Upset("late answer") ELSE UNCHANGED upsets
       /\ IF go[g].call = NoCall
          THEN StopAndFail(g, "fatal")
          ELSE Move(g, "join") /\ Undisturbed
    /\ UNCHANGED <<storeVars, memberVars, videoChat, groupUpdates, pending, mutedByAdmin,
                   boundVars, silenced>>

\* PhoneJoinGroupCall.  An error returns without stopping the call.
Join(g) ==
    /\ At(g, "join")
    /\ LET a == go[g].who IN
       \/ /\ InChat(a) /\ go[g].call = videoChat /\ NoFault
          /\ go' = [go EXCEPT ![g].at = "connect", ![g].call = NoCall]
          /\ UNCHANGED <<waiting, progVars>>
       \/ /\ ~InChat(a) \/ go[g].call # videoChat
          /\ NoFault
          /\ Unregister(a) /\ Fail(g, "fatal")
       \/ /\ Fault
          /\ \E e \in {"retry", "rotate", "unknown"} : Fail(g, e)
          /\ Unregister(a)
    /\ UNCHANGED <<storeVars, memberVars, videoChat, groupCall, groupUpdates, binding, mode,
                   pending, mutedByAdmin, signals, requests, ghosts>>

\* Connect and GetConnectionMode; in a broadcast the connection is kept for
\* the moment the assistant may speak.
Connect(g) ==
    /\ At(g, "connect")
    /\ LET a == go[g].who IN
       \/ /\ binding[a] = "created"
          /\ \E m \in {"rtc", "stream"} :
                /\ mode' = [mode EXCEPT ![a] = m]
                /\ pending' = [pending EXCEPT ![a] = @ \/ m = "stream"]
          /\ binding' = [binding EXCEPT ![a] = "connecting"]
          /\ Move(g, "wait")
          /\ UNCHANGED <<waiting, progVars>>
       \/ /\ binding[a] # "created"
          /\ Unregister(a) /\ Fail(g, "unknown")
          /\ UNCHANGED <<binding, mode, pending>>
    /\ UNCHANGED <<storeVars, memberVars, videoChat, groupCall, groupUpdates, mutedByAdmin,
                   signals, boundVars, ghosts>>

\* A connection that is given up without being stopped, of an assistant that a
\* rotation reached and that is not assigned, is an upset.
GiveUp(g) ==
    /\ Fail(g, "unknown")
    /\ IF Engaged(go[g].who) /\ assigned # go[g].who
       THEN Upset("orphaned") ELSE UNCHANGED upsets

\* The answer on the channel.  joinPresentation asks for the mode again, and
\* fails when the call is gone.
Answered(g) ==
    /\ At(g, "wait")
    /\ go[g].answer # "none"
    /\ Unregister(go[g].who)
    /\ IF go[g].answer = "ok" /\ binding[go[g].who] # "none" /\ go[g].req = "play"
       THEN go' = [go EXCEPT ![g].at = "save", ![g].answer = "none"]
            /\ UNCHANGED <<progVars, upsets>>
       ELSE GiveUp(g)
    /\ UNCHANGED <<storeVars, memberVars, videoChat, groupCall, groupUpdates, binding, mode,
                   pending, mutedByAdmin, signals, boundVars, silenced>>

\* connectWaitTimeout.
TimesOut(g) ==
    /\ At(g, "wait")
    /\ go[g].answer = "none"
    /\ Unregister(go[g].who)
    /\ GiveUp(g)
    /\ UNCHANGED <<storeVars, memberVars, videoChat, groupCall, groupUpdates, binding, mode,
                   pending, mutedByAdmin, signals, boundVars, silenced>>

\* onGroupCallParticipants after its connectCall returned.
Unpend(g) ==
    /\ At(g, "unpend")
    /\ pending' = [pending EXCEPT ![go[g].who] = FALSE]
    /\ Return(g)
    /\ UNCHANGED <<storeVars, memberVars, videoChat, groupCall, groupUpdates, binding, mode,
                   mutedByAdmin, waiting, signals, progVars, boundVars, ghosts>>

\* onConnectionChange: the channel holds one answer, further ones are lost.
OnConnectionChange(a) ==
    \E s \in signals[a] :
        /\ signals' = [signals EXCEPT ![a] = @ \ {s}]
        /\ LET w == waiting[a] IN
           IF w # NoOne /\ go[w].answer = "none"
           THEN go' = [go EXCEPT ![w].answer = s]
           ELSE UNCHANGED go
        /\ UNCHANGED <<storeVars, memberVars, videoChat, groupCall, groupUpdates, binding, mode,
                       pending, mutedByAdmin, waiting, progVars, boundVars, ghosts>>

-----------------------------------------------------------------------------
(* Stop, member updates, /clearass, leaving. *)

\* Variant: Stop keeps the pending connection.
StopKeepsPending(g) ==
    /\ At(g, "stop")
    /\ active' = FALSE
    /\ StopCallKeepsPending(go[g].who)
    /\ Return(g)
    /\ silenced' = IF silenced = g THEN "yes" ELSE silenced
    /\ UNCHANGED <<storeVars, memberVars, pool, leaving, boundVars, upsets>>

\* TelegramCalls.Stop of the assistant that was looked up.
Stop(g) ==
    /\ At(g, "stop")
    /\ active' = FALSE
    /\ StopCall(go[g].who)
    /\ Return(g)
    /\ silenced' = IF silenced = g THEN "yes" ELSE silenced
    /\ UNCHANGED <<storeVars, memberVars, pool, leaving, boundVars, upsets>>

\* handleParticipant: only updates about the bot and the assistant that is
\* looked up now count; when the supergroup cannot be fetched none does.
Update(g) ==
    /\ At(g, "update")
    /\ LET u == go[g].update IN
       \/ /\ u.of \notin {Bot, go[g].who} \/ MayFail
          /\ IF u.of \in {Bot, go[g].who} THEN Fault ELSE NoFault
          /\ Return(g)
          /\ UNCHANGED <<memberVars, callVars, progVars>>
       \/ /\ u.of \in {Bot, go[g].who} /\ NoFault
          /\ UpdateMembership(u.of, Stored(u))
          /\ \/ UNCHANGED inviteCache
             \/ inviteCache # "good" /\ UpdateInviteLink("good")   \* a public name
          /\ active' = (active /\ ~Ends(u))
          /\ IF u.of = Bot /\ Ends(u)
             THEN go' = [go EXCEPT ![g] = [Idle EXCEPT !.at = "lookup", !.req = "stop"]]
             ELSE Return(g)
          /\ UNCHANGED <<member, memberUpdates, callVars, pool, leaving>>
    /\ UNCHANGED <<storeVars, requests, ghosts>>

Clear(g) ==
    /\ At(g, "clear")
    /\ RemoveAssistant
    /\ upsets' = upsets \cup {"cleared"}
    /\ Move(g, "cleared")
    /\ UNCHANGED <<memberVars, callVars, progVars, boundVars, silenced>>

Cleared(g) ==
    /\ At(g, "cleared")
    /\ UncacheAssistant
    /\ Return(g)
    /\ UNCHANGED <<memberVars, callVars, progVars, boundVars, ghosts>>

\* LeaveAll of /leaveall and of the timer: every assistant.
LeaveAll ==
    /\ leaving # pool
    /\ leaving' = pool
    /\ Fault
    /\ UNCHANGED <<storeVars, memberVars, callVars, pool, active, go, requests, ghosts>>

\* An assistant that loses the chat while it has a call there.
Strays(a) == IF binding[a] # "none" THEN Upset("strayed") ELSE UNCHANGED upsets

\* leaveAssistantDialogs reaches the chat.  It asks whether a chat with the
\* positive id of the dialog is active, which none is.
LeaveDialog(a) ==
    /\ a \in leaving
    /\ leaving' = leaving \ {a}
    /\ IF InChat(a)
       THEN Becomes(a, "left") /\ Strays(a)
       ELSE UNCHANGED <<member, memberUpdates, upsets>>
    /\ UNCHANGED <<storeVars, statusCache, inviteCache, callVars, pool, active, go,
                   boundVars, silenced>>

-----------------------------------------------------------------------------
(* Telegram, the users and time. *)

\* An admin removes, bans, unbans, restricts or adds an assistant.
Moderate(a) ==
    /\ Fault
    /\ \E s \in Statuses \ {member[a]} :
        /\ Becomes(a, s)
        /\ IF s \in {"left", "banned"} THEN Strays(a) ELSE UNCHANGED upsets
    /\ UNCHANGED <<storeVars, statusCache, inviteCache, callVars, progVars, go, requests, silenced>>

\* The bot itself is removed.
RemoveBot ==
    /\ Fault
    /\ \E s \in {"left", "banned"} :
        memberUpdates' = memberUpdates \cup {MemberUpdate(Bot, "member", s)}
    /\ UNCHANGED <<storeVars, member, statusCache, inviteCache, callVars, progVars, go, requests, ghosts>>

Revoke ==
    /\ inviteCache = "good"
    /\ Fault
    /\ UpdateInviteLink("expired")
    /\ UNCHANGED <<storeVars, member, statusCache, memberUpdates, callVars, progVars, go, requests, ghosts>>

\* The video chat ends, or a new one starts; members are told.  It is an upset
\* when an assistant that knows a call is no member, and when the update before
\* is not handled yet: the two may be handled in either order.
VideoChat ==
    /\ Fault
    /\ \/ videoChat # NoCall /\ videoChat' = NoCall
       \/ videoChat = NoCall /\ MaxCalls > 1 /\ videoChat' \in 2 .. MaxCalls
    /\ LET u == IF videoChat = NoCall THEN Started(videoChat') ELSE Discarded(videoChat) IN
       groupUpdates' = [a \in Indices |-> groupUpdates[a] \cup (IF InChat(a) THEN {u} ELSE {})]
    /\ upsets' = upsets
          \cup {u \in {"untold"} : \E a \in Indices : ~InChat(a) /\ groupCall[a] # Unknown}
          \cup {u \in {"crossed"} : \E a \in Indices : groupUpdates[a] # {}}
    /\ UNCHANGED <<storeVars, memberVars, groupCall, binding, mode, pending, mutedByAdmin,
                   waiting, signals, progVars, go, requests, silenced>>

Muted(a) == Fault /\ OnMuted(a)
Unmuted(a) == NoFault /\ OnUnmuted(a)
Down(a) == Fault /\ ConnectionDown(a)
Up(a) == NoFault /\ ConnectionUp(a)
CallUpdate(a) == NoFault /\ \E u \in groupUpdates[a] : OnGroupCall(a, u)

OfCall(A) == A /\ UNCHANGED <<storeVars, memberVars, progVars, go, requests, ghosts>>

\* An update without a chat is dropped.  Unless the assistant knows nothing of
\* the call anyway, this is an upset.
DropUpdate(a) ==
    /\ \E u \in groupUpdates[a] : OnUnmatchedCall(a, u)
    /\ IF groupCall[a] # Unknown THEN Upset("unmatched") ELSE UNCHANGED upsets
    /\ UNCHANGED <<storeVars, memberVars, progVars, go, boundVars, silenced>>

\* Entries of the caches live 20 minutes or two hours.
Expire ==
    /\ Fault
    /\ \/ /\ assignedCache # Nobody /\ UncacheAssistant
          /\ UNCHANGED <<statusCache, inviteCache>>
       \/ /\ \E a \in Indices : statusCache[a] # "none" /\ UpdateMembership(a, "none")
          /\ UNCHANGED <<storeVars, inviteCache>>
       \/ /\ inviteCache # "none" /\ UpdateInviteLink("none")
          /\ UNCHANGED <<storeVars, statusCache>>
    /\ UNCHANGED <<member, memberUpdates, callVars, progVars, go, requests, ghosts>>

-----------------------------------------------------------------------------

Step(g) ==
    \/ LookupHit(g) \/ LookupRead(g) \/ Fill(g) \/ Assign(g) \/ Assigned(g) \/ Refill(g)
    \/ CheckStatus(g) \/ Recover(g) \/ Invite(g) \/ JoinChannel(g)
    \/ Calls(g) \/ Create(g) \/ Call(g) \/ Keep(g) \/ Join(g) \/ Connect(g)
    \/ Answered(g) \/ TimesOut(g) \/ Unpend(g)
    \/ Evict(g) \/ NextUntried(g) \/ Save(g) \/ Saved(g)
    \/ Stop(g) \/ Update(g) \/ Clear(g) \/ Cleared(g)

StartSome(g) ==
    StartPlay(g) \/ StartStop(g) \/ StartUpdate(g) \/ StartReconnect(g) \/ StartClear(g)

Environment ==
    \/ LeaveAll \/ RemoveBot \/ Revoke \/ VideoChat \/ Expire
    \/ \E a \in Indices :
        \/ LeaveDialog(a) \/ Moderate(a) \/ OnConnectionChange(a)
        \/ OfCall(Muted(a)) \/ OfCall(Unmuted(a)) \/ OfCall(Down(a)) \/ OfCall(Up(a))
        \/ OfCall(CallUpdate(a)) \/ DropUpdate(a)

Next == Environment \/ \E g \in Goroutines : Step(g) \/ StartSome(g)

Spec == Init /\ [][Next]_vars

-----------------------------------------------------------------------------
(* Properties. *)

TypeOK ==
    /\ StoreType(Indices)
    /\ MembershipType(Accounts, Indices)
    /\ GroupCallType(Indices, Goroutines, CallIds)
    /\ pool \subseteq Indices /\ leaving \subseteq Indices /\ active \in BOOLEAN
    /\ \A g \in Goroutines :
        /\ go[g].req \in {"none", "play", "stop", "update", "reconnect", "clear"}
        /\ go[g].who \in pool \cup {Nobody}
        /\ go[g].tried \subseteq pool
        /\ go[g].req = "play" /\ go[g].at \notin {"lookup", "fill", "assign", "assigned", "refill"}
              => go[g].who \in go[g].tried

Quiet == \A g \in Goroutines : At(g, "idle")

\* A rotation advances (PlayMedia, rotateAndPlay): an attempt starts only with
\* an assistant not tried before, or as the one repetition of an attempt.  So
\* PlayMedia makes at most two attempts per assistant.
RotationAdvances ==
    [][\A g \in Goroutines :
        go[g].at \notin {"lookup", "fill", "assign", "assigned", "refill"}
        /\ ~At(g, "status") /\ go'[g].at = "status"
            => \/ go[g].tried \subseteq go'[g].tried /\ go[g].tried # go'[g].tried
               \/ ~go[g].again /\ go'[g].again /\ go[g].who = go'[g].who]_vars

\* Upsets that concern what is known of the call, and no other ones.
CallUpsets == {"late answer", "untold", "crossed", "unmatched"}
Sane == upsets \subseteq CallUpsets

\* A Stop ends it: when it ran alone and nothing was played since, no
\* assistant is connected, and no connection is pending that an update of the
\* participants would open again.  Excepted are behaviours with an upset that
\* may leave another assistant than the assigned one connected: requests that
\* stream at a time, an assignment that failed, was raced for or cleared, a
\* connection given up or an assistant evicted without stopping the call, and one that lost
\* the chat.
StopSilences ==
    silenced = "yes" /\ Sane => \A a \in Indices : ~Engaged(a)

\* What an assistant knows of the video chat is true once its updates were
\* handled (getInputGroupCall, onGroupCall): a call that is closed or was
\* replaced is not joined for good.  Excepted are an answer of Telegram that is
\* stored late, updates that the assistant was not sent, two that may have been
\* handled in the wrong order, and one without a chat that was dropped.
KnownCallIsCurrent ==
    Quiet /\ upsets \cap CallUpsets = {} =>
        \A a \in Indices :
            groupUpdates[a] = {} /\ InChat(a) => groupCall[a] \in {Unknown, videoChat}
=============================================================================
