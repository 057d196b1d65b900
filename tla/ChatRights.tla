----------------------------- MODULE ChatRights -----------------------------
(***************************************************************************)
(* Who may do what in a chat: the filters in front of the commands         *)
(* (src/handlers/filters.go), the commands that change the lists behind    *)
(* them (auth.go, settings.go, admins.go, devs.go) and the updates by      *)
(* which Telegram tells of administrators (participant.go).  Each handler  *)
(* runs in a goroutine; a cache lookup, a command to the database and a    *)
(* store in a cache are steps of their own.                                *)
(***************************************************************************)
EXTENDS CacheAside

CONSTANTS Goroutines,
          Asked,       \* the commands that arrive
          MaxEvents,   \* bound: commands, and administrators made or unmade
          MaxMishaps   \* bound: errors, lost updates, entries that expire

VARIABLES handling,  \* what each goroutine does
          events, mishaps,
          updates,   \* changes of administrators that are yet to be handled
          latest,    \* per tracked account, the newest change that was handled
          fair       \* nothing was or became out of date since the goroutine's
                     \* command began, and nothing failed

rightsVars == <<cacheVars, handling, events, mishaps, updates, latest, fair>>

\* "authlist" stands for every command behind adminMode; the others look nothing
\* up once they are allowed.  "start" begins playback.
None == ""   \* no sender, or nothing that it is about
Request(does, by, what) == [does |-> does, by |-> by, what |-> what]
Requests ==
    {Request(d, u, None) : d \in {"start", "authlist", "settings"}, u \in Users}
    \cup {Request(d, u, v) : d \in {"addauth", "removeauth"}, u \in Users, v \in Users}
    \cup {Request("toggle", u, w) : u \in Users, w \in Settings}
    \cup {Request("logger", "dev", w) : w \in {"on", "off"}}
    \cup {Request(d, "anyone", None) : d \in {"reload", "addchat", "listchats"}}

ASSUME AskedAssumption == Asked \subseteq Requests

Idle == [at |-> "idle", req |-> Request("none", None, None), s |-> "chat", next |-> "done",
         val |-> Nothing, old |-> FALSE]
At(g, place) == handling[g].at = place
Req(g) == handling[g].req
Val(g) == handling[g].val

\* Somebody who holds a value that he read of the source, or of the entry, is
\* overtaken when that changes.
Overtaken(fs, s, places) ==
    [g \in Goroutines |-> IF fs[g].s = s /\ fs[g].at \in places THEN [fs[g] EXCEPT !.old = TRUE] ELSE fs[g]]
Holders == {"fill", "put"}

Move(g, place) == handling' = [handling EXCEPT ![g].at = place]
Finish(g) == handling' = [handling EXCEPT ![g] = Idle]
Asking(frame, s, next) == [frame EXCEPT !.at = "get", !.s = s, !.next = next, !.val = Nothing, !.old = FALSE]
Fetch(g, s, next) == handling' = [handling EXCEPT ![g] = Asking(@, s, next)]
Concluded(frame, place) == [Idle EXCEPT !.req = frame.req, !.at = place]

sameCounts == UNCHANGED <<events, mishaps>>
sameUpdates == UNCHANGED <<updates, latest>>
Calm == sameCounts /\ sameUpdates
Mishap == mishaps < MaxMishaps /\ mishaps' = mishaps + 1 /\ UNCHANGED events

(***************************************************************************)
(* What a handler decides from the value that it asked for:                *)
(* checkBotAdmin, adminMode and playMode, addAuthHandler and               *)
(* removeAuthHandler, settingsCallbackHandler and AddChat.  Where it looks *)
(* the cached administrators up next, it stops for that.                   *)
(***************************************************************************)
Restricts(r) == IF r.does = "start" THEN "play" ELSE "admin"

\* The sender is an administrator: settingsHandler reads the settings for the
\* keyboard, settingsCallbackHandler the one it is to write.
FromAdministrator(frame) ==
    CASE frame.req.does = "settings" -> Asking(frame, "chat", "done")
      [] frame.req.does = "toggle" -> Asking(frame, "chat", "write")
      [] OTHER -> Concluded(frame, "target")

Got(frame, value) ==
    LET r == frame.req IN
    CASE frame.next = "bot" ->
             IF Has(value, Bot) THEN Asking(frame, "chat", "mode") ELSE Concluded(frame, "denied")
      [] frame.next = "mode" ->
             IF ~Has(value, Restricts(r)) THEN Concluded(frame, "allowed")
             ELSE IF r.does = "start" THEN Asking(frame, "admins", "member")
             ELSE Concluded(frame, "lookup")
      [] frame.next = "member" ->
             IF Has(value, r.by) THEN Concluded(frame, "allowed") ELSE Concluded(frame, "lookup")
      [] frame.next = "authorized" -> Concluded(frame, IF Has(value, r.by) THEN "allowed" ELSE "denied")
      [] frame.next = "sender" ->
             IF Has(value, r.by) THEN FromAdministrator(frame) ELSE Idle
      [] frame.next = "listed" ->
             IF Has(value, r.what) = (r.does = "removeauth")
             THEN [Concluded(frame, "write") EXCEPT !.s = "auth"] ELSE Idle
      [] frame.next = "known" ->
             IF value = Nothing THEN Concluded(frame, "write") ELSE Idle
      [] frame.next = "write" -> [frame EXCEPT !.at = "write", !.val = value]
      [] frame.next = "done" -> Idle

\* IsAdmin of the sender, and IsAuthUser with its own look at the administrators.
LookUp(g) ==
    /\ At(g, "lookup")
    /\ IF IsAdmin(Req(g).by) THEN handling' = [handling EXCEPT ![g] = Concluded(@, "allowed")]
       ELSE Fetch(g, "auth", "authorized")
    /\ Calm /\ UNCHANGED cacheVars

\* The command goes on, or not: authListHandler reads the list, and three more
\* ask whether the sender is an administrator.
Proceed(g) ==
    /\ handling[g].at \in {"allowed", "denied"}
    /\ IF At(g, "denied") THEN Finish(g)
       ELSE CASE Req(g).does \in {"addauth", "removeauth", "settings"} -> Fetch(g, "admins", "sender")
              [] Req(g).does = "authlist" -> Fetch(g, "auth", "done")
              [] OTHER -> Finish(g)
    /\ Calm /\ UNCHANGED cacheVars

\* IsAuthUser of the target: an administrator counts as authorized.
LookUpTarget(g) ==
    /\ At(g, "target")
    /\ IF ~IsAdmin(Req(g).what) THEN Fetch(g, "auth", "listed")
       ELSE IF Req(g).does = "addauth" THEN Finish(g)
       ELSE handling' = [handling EXCEPT ![g] = [Concluded(@, "write") EXCEPT !.s = "auth"]]
    /\ Calm /\ UNCHANGED cacheVars

(***************************************************************************)
(* getChat, GetAuthUsers, GetLoggerStatus and GetAdmins: the entry, else   *)
(* the source, and then the entry is stored.                               *)
(***************************************************************************)
Get(g) ==
    /\ At(g, "get")
    /\ LET s == handling[g].s IN
       handling' = [handling EXCEPT ![g] =
           IF entry[s] = Nothing THEN [@ EXCEPT !.at = "read"] ELSE Got(@, entry[s])]
    /\ Calm /\ UNCHANGED cacheVars

\* A document that does not exist is not cached.
Read(g) ==
    /\ At(g, "read")
    /\ LET s == handling[g].s IN
       handling' = [handling EXCEPT ![g] =
           IF source[s] = Nothing THEN Got(@, Nothing)
           ELSE [@ EXCEPT !.val = source[s], !.at = "fill", !.old = FALSE]]
    /\ Calm /\ UNCHANGED cacheVars

\* The database fails: as if there were no document.  Telegram fails: so does
\* the command.
ReadFails(g) ==
    /\ At(g, "read")
    /\ handling' = [handling EXCEPT ![g] = IF @.s = "admins" THEN Idle ELSE Got(@, Nothing)]
    /\ Mishap /\ sameUpdates /\ UNCHANGED cacheVars

\* Variant: what was fetched is not cached.
FillForgets(g) ==
    /\ At(g, "fill")
    /\ handling' = [handling EXCEPT ![g] = Got(@, Val(g))]
    /\ Calm /\ UNCHANGED cacheVars

Fill(g) ==
    /\ At(g, "fill")
    /\ LET s == handling[g].s
           after == Overtaken(handling, s, {"restore"})
       IN /\ Cache(s, Val(g), handling[g].old)
          /\ handling' = [after EXCEPT ![g] = Got(@, Val(g))]
    /\ Calm /\ UNCHANGED source

\* UpdateOne with $addToSet, $pull (of a document that exists), $set of the
\* negation of what was read, and $setOnInsert.
Written(g) ==
    LET s == handling[g].s
        x == Req(g).what
    IN CASE Req(g).does = "addauth" -> With(source[s], x)
         [] Req(g).does = "removeauth" -> IF source[s] = Nothing THEN Nothing ELSE Without(source[s], x)
         [] Req(g).does = "toggle" -> IF Has(Val(g), x) THEN Without(source[s], x) ELSE With(source[s], x)
         [] Req(g).does = "logger" -> <<IF x = "on" THEN {"on"} ELSE {}>>
         [] Req(g).does = "addchat" -> IF source[s] = Nothing THEN <<{}>> ELSE source[s]

\* What the handler does once the write is over: the settings are read again
\* for the keyboard, whether or not they were written.
AfterWrite(frame) ==
    IF frame.req.does = "toggle" THEN Asking(frame, "chat", "done") ELSE Idle

Write(g) ==
    /\ At(g, "write")
    /\ LET s == handling[g].s
           changed == Written(g) # source[s]
           after == IF changed THEN Overtaken(handling, s, Holders) ELSE handling
       IN /\ source' = [source EXCEPT ![s] = Written(g)]
          /\ handling' = [after EXCEPT ![g] =
                 CASE s = "logger" -> [@ EXCEPT !.at = "put", !.val = Written(g), !.old = FALSE]
                   [] Req(g).does = "addchat" -> Idle
                   [] OTHER -> [Concluded(@, "drop") EXCEPT !.s = s]]
    /\ Calm /\ UNCHANGED <<entry, races>>

\* The write fails, or is done while the answer is lost: the entry stays.
WriteFails(g) ==
    /\ At(g, "write")
    /\ LET s == handling[g].s IN
       \/ handling' = [handling EXCEPT ![g] = AfterWrite(@)] /\ UNCHANGED cacheVars
       \/ /\ Written(g) # source[s]
          /\ source' = [source EXCEPT ![s] = Written(g)]
          /\ races' = IF entry[s] # Nothing THEN races \cup {s} ELSE races
          /\ handling' = [Overtaken(handling, s, Holders) EXCEPT ![g] = AfterWrite(@)]
          /\ UNCHANGED entry
    /\ Mishap /\ sameUpdates

\* Variant: the entry stays after a write.
DropForgotten(g) ==
    /\ At(g, "drop")
    /\ handling' = [handling EXCEPT ![g] = AfterWrite(@)]
    /\ Calm /\ UNCHANGED cacheVars

\* Cache.Delete after a write of a setting or of the authorized users.
Drop(g) ==
    /\ At(g, "drop")
    /\ Uncache(handling[g].s)
    /\ handling' = [handling EXCEPT ![g] = AfterWrite(@)]
    /\ Calm /\ UNCHANGED source

\* SetLoggerStatus stores what it wrote.
Put(g) ==
    /\ At(g, "put")
    /\ Cache("logger", Val(g), handling[g].old)
    /\ Finish(g)
    /\ Calm /\ UNCHANGED source

(***************************************************************************)
(* reloadAdminCacheHandler: the list is dropped and fetched, whatever is   *)
(* cached by then.  (That a chat may do so every three minutes only is     *)
(* left out: the model allows more.)                                       *)
(***************************************************************************)
ClearAdminCache(g) ==
    /\ At(g, "clear")
    /\ Uncache("admins")
    /\ handling' = [Overtaken(handling, "admins", {"restore"}) EXCEPT
                        ![g].at = "read", ![g].s = "admins", ![g].next = "done"]
    /\ Calm /\ UNCHANGED source

(***************************************************************************)
(* Somebody is made or unmade administrator.  Telegram tells the bot of    *)
(* every account; the handler looks at the bot's and its assistant's only. *)
(***************************************************************************)
Moderate(who) ==
    /\ events < MaxEvents /\ events' = events + 1
    /\ LET is == ~Has(source["admins"], who) IN
       /\ source' = [source EXCEPT !["admins"] = IF is THEN With(@, who) ELSE Without(@, who)]
       /\ updates' = IF who \in Tracked
                     THEN updates \cup {[who |-> who, is |-> is, n |-> events + 1]} ELSE updates
    /\ handling' = Overtaken(handling, "admins", {"fill"})
    /\ UNCHANGED <<entry, races, mishaps, latest>>

\* A goroutine per update: they overtake each other.
HandleUpdate(g, u) ==
    /\ At(g, "idle")
    /\ u \in updates
    /\ updates' = updates \ {u}
    /\ handling' = [handling EXCEPT ![g] =
           [Idle EXCEPT !.at = "rebuild", !.s = "admins", !.req = Request("update", u.who, u)]]
    /\ sameCounts /\ UNCHANGED <<cacheVars, latest>>

\* The chat's assistant cannot be looked up: the update is dropped.
UpdateLost(u) ==
    /\ u \in updates
    /\ updates' = updates \ {u}
    /\ latest' = [latest EXCEPT ![u.who] = IF u.n > @ THEN u.n ELSE @]
    /\ races' = IF entry["admins"] # Nothing THEN races \cup {"admins"} ELSE races
    /\ Mishap /\ UNCHANGED <<source, entry, handling>>

\* Variant: an account that is no administrator any more stays in the list.
RebuiltKeeps(list, u) == IF u.is THEN With(list, u.who) ELSE list

Rebuilt(list, u) == IF u.is THEN With(list, u.who) ELSE Without(list, u.who)

\* UpdateAdminCache: the list is read, rebuilt, and stored.
Rebuild(g) ==
    /\ At(g, "rebuild")
    /\ LET u == Req(g).what IN
       /\ latest' = [latest EXCEPT ![u.who] = IF u.n > @ THEN u.n ELSE @]
       /\ IF entry["admins"] = Nothing THEN Finish(g)
          ELSE handling' = [handling EXCEPT ![g].val = Rebuilt(entry["admins"], u), ![g].at = "restore",
                                            ![g].old = FALSE]
    /\ sameCounts /\ UNCHANGED <<cacheVars, updates>>

\* What it stores is right about one account: it never makes up for a race.
Restore(g) ==
    /\ At(g, "restore")
    /\ LET u == Req(g).what
           late == handling[g].old \/ u.n < latest[u.who]
       IN /\ entry' = [entry EXCEPT !["admins"] = Val(g)]
          /\ races' = IF late THEN races \cup {"admins"} ELSE races
    /\ handling' = [Overtaken(handling, "admins", {"restore"}) EXCEPT ![g] = Idle]
    /\ Calm /\ UNCHANGED source

(***************************************************************************)
(* How the commands begin: any that is filtered, the buttons of /settings, *)
(* /logger, /start, the list of chats for a broadcast, and /reload.        *)
(***************************************************************************)
Command == Asking(Idle, "admins", "bot")
ToggleSetting == Asking(Idle, "admins", "sender")
Logger == Asking(Idle, "logger", "write")
AddChat == Asking(Idle, "chat", "known")
GetAllChats == [Idle EXCEPT !.at = "read", !.s = "chat"]
Reload == [Idle EXCEPT !.at = "clear"]

Begun(r) ==
    CASE r.does \in {"start", "authlist", "settings", "addauth", "removeauth"} -> Command
      [] r.does = "toggle" -> ToggleSetting
      [] r.does = "logger" -> Logger
      [] r.does = "addchat" -> AddChat
      [] r.does = "listchats" -> GetAllChats
      [] r.does = "reload" -> Reload

Begin(g) ==
    /\ At(g, "idle")
    /\ events < MaxEvents /\ events' = events + 1
    /\ \E r \in Asked : handling' = [handling EXCEPT ![g] = [Begun(r) EXCEPT !.req = r]]
    /\ sameUpdates /\ UNCHANGED <<cacheVars, mishaps>>

Expire(s) ==
    /\ entry[s] # Nothing
    /\ Uncache(s)
    /\ handling' = IF s = "admins" THEN Overtaken(handling, s, {"restore"}) ELSE handling
    /\ Mishap /\ sameUpdates /\ UNCHANGED source

\* The history of `fair`, up to the verdict.
Judged == Stores \ {"logger"}
UpToDate == \A s \in Judged : ~OutOfDate(s)
Observe ==
    fair' = [g \in Goroutines |->
        IF At(g, "idle") THEN UpToDate' /\ handling'[g].req.does \in {"none", "start", "authlist", "settings"}
        ELSE /\ fair[g] /\ UpToDate' /\ handling[g].at \notin {"allowed", "denied"}
             /\ (\A s \in Judged : source'[s] = source[s]) /\ mishaps' = mishaps
             /\ (entry["admins"] # Nothing => entry'["admins"] # Nothing)]

RightsInit ==
    /\ source \in {[s \in Stores |->
           CASE s = "chat" -> c [] s = "auth" -> IF c = Nothing THEN Nothing ELSE <<Users>>
             [] s = "logger" -> Nothing [] s = "admins" -> <<Tracked \cup {CHOOSE u \in Users : TRUE}>>] :
           c \in {Nothing, <<Settings>>}}
    /\ entry \in {[s \in Stores |-> Nothing], source}
    /\ races = {}
    /\ handling = [g \in Goroutines |-> Idle]
    /\ events = 0 /\ mishaps = 0
    /\ updates = {} /\ latest = [m \in Tracked |-> 0]
    /\ fair = [g \in Goroutines |-> TRUE]

RightsNext ==
    /\ \/ \E g \in Goroutines :
           \/ Begin(g) \/ Get(g) \/ Read(g) \/ ReadFails(g) \/ Fill(g)
           \/ LookUp(g) \/ Proceed(g) \/ LookUpTarget(g)
           \/ Write(g) \/ WriteFails(g) \/ Drop(g) \/ Put(g)
           \/ ClearAdminCache(g) \/ Rebuild(g) \/ Restore(g)
           \/ \E u \in updates : HandleUpdate(g, u)
       \/ \E who \in Users \cup Tracked : Moderate(who)
       \/ \E u \in updates : UpdateLost(u)
       \/ \E s \in Stores : Expire(s)
    /\ Observe

(***************************************************************************)
\* Whoever changed a setting or the authorized users is yet to drop the entry,
\* or the logger's to store it.
Writing(s) == \E g \in Goroutines : handling[g].s = s /\ handling[g].at \in {"drop", "put"}
Told(m) ==
    \/ \E u \in updates : u.who = m
    \/ \E g \in Goroutines : Req(g).does = "update" /\ Req(g).by = m

\* A cache shows an older value than its source only until the writer has
\* dropped the entry, or the update is handled, and otherwise only after
\* somebody was overtaken while he held what he had read, or an answer was lost.
EntriesTellTheTruth ==
    /\ \A s \in Stores \ {"admins"} : OutOfDate(s) => s \in races \/ Writing(s)
    /\ \A m \in Tracked : Misreports(m) => "admins" \in races \/ Told(m)

\* A verdict on a command is the one that the chat's settings, the authorized
\* users and Telegram's list call for, if all that the bot had cached was up to
\* date from the command's beginning and nothing failed or expired.
Due(r) ==
    /\ Has(source["admins"], Bot)
    /\ \/ ~Has(source["chat"], Restricts(r))
       \/ Has(source["admins"], r.by) \/ Has(source["auth"], r.by)
VerdictsAreDue ==
    \A g \in Goroutines :
        fair[g] /\ handling[g].at \in {"allowed", "denied"} => (At(g, "allowed") <=> Due(Req(g)))
=============================================================================
