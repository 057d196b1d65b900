----------------------------- MODULE CacheAside -----------------------------
(***************************************************************************)
(* What one chat keeps behind caches: its settings (src/core/db/chats.go), *)
(* its authorized users (auth.go), the bot's logger switch (logger.go) and *)
(* Telegram's list of its administrators (src/core/cache/admin_cache.go).  *)
(* The source and the entry of a cache change in steps of their own.       *)
(*                                                                         *)
(* A value is <<>> for no document and no entry, or <<set>>: the settings  *)
(* that are restricted, the users, {"on"} for a logger that is enabled.    *)
(***************************************************************************)
EXTENDS Naturals, Sequences, FiniteSets

CONSTANTS Users,     \* accounts of people
          Bot,       \* the bot's own account
          Assistant  \* the account that the chat's assistant uses

ASSUME SomeUsers == Users # {}

VARIABLES source,  \* the documents, and who administrates the chat
          entry,   \* the entries of chatCache, authCache, loggerCache, AdminCache
          races    \* caches whose entry was stored by somebody who had been
                   \* overtaken, or outlived a change that nobody told them

cacheVars == <<source, entry, races>>

Settings == {"admin", "play"}
Stores == {"chat", "auth", "logger", "admins"}
Nothing == <<>>
Tracked == {Bot, Assistant}
Has(value, x) == value # Nothing /\ x \in value[1]
Elements(value) == IF value = Nothing THEN {} ELSE value[1]
Without(value, x) == <<Elements(value) \ {x}>>
With(value, x) == <<Elements(value) \cup {x}>>

\* IsAdmin: the cached list alone; a list that is not cached is empty.
IsAdmin(user) == Has(entry["admins"], user)

\* Cache.Set by somebody who was overtaken, or not; Delete, Clear and expiry.
Cache(s, value, overtaken) ==
    /\ entry' = [entry EXCEPT ![s] = value]
    /\ races' = IF overtaken THEN races \cup {s} ELSE races \ {s}
Uncache(s) == Cache(s, Nothing, FALSE)

\* An entry is out of date.  Updates tell the bot of two administrators only:
\* the list may miss a change of the others for an hour.
OutOfDate(s) == entry[s] \notin {Nothing, source[s]}
Misreports(m) == entry["admins"] # Nothing /\ (Has(entry["admins"], m) # Has(source["admins"], m))
=============================================================================
