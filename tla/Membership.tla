----------------------------- MODULE Membership -----------------------------
(***************************************************************************)
(* Membership of the assistants in one chat: what Telegram holds, and what *)
(* the program believes (statusCache and inviteCache of TelegramCalls,     *)
(* src/vc/types.go), with the updates of chat members on their way to      *)
(* handleParticipant.  Administrators and creators count as members.       *)
(***************************************************************************)
EXTENDS Naturals

VARIABLES member,         \* Telegram's status of every assistant
          statusCache,    \* the cached status, or "none"
          inviteCache,    \* the cached link: "none", "good" or "expired"
          memberUpdates   \* changes of a member that nobody handled yet

memberVars == <<member, statusCache, inviteCache, memberUpdates>>

Statuses == {"member", "restricted", "left", "banned"}
InChat(a) == member[a] \in {"member", "restricted"}

MemberUpdate(a, old, new) == [of |-> a, old |-> old, new |-> new]

\* Telegram changes the status of an account and tells the bot.
Becomes(a, s) ==
    /\ member' = [member EXCEPT ![a] = s]
    /\ memberUpdates' = memberUpdates \cup {MemberUpdate(a, member[a], s)}

\* UpdateMembership and UpdateInviteLink.
UpdateMembership(a, s) == statusCache' = [statusCache EXCEPT ![a] = s]
UpdateInviteLink(link) == inviteCache' = link

\* What dispatchStatusChange makes of an update.  Whoever joins is stored as a
\* member, restricted or not; somebody who is banned and added back at once is
\* neither a join nor an unban, and nothing is stored.
Joins(u) == u.old = "left" /\ u.new \in {"member", "restricted"}
Leaves(u) == u.old \in {"member", "restricted"} /\ u.new = "left"
Stored(u) ==
    CASE Joins(u) -> "member"
      [] u.old = "banned" /\ u.new = "member" -> statusCache[u.of]
      [] OTHER -> u.new

\* onLeave and onBan clear the chat's queue, or stop when the bot is gone.
Ends(u) == Leaves(u) \/ u.new = "banned"

MembershipType(accounts, assistants) ==
    /\ member \in [assistants -> Statuses]
    /\ statusCache \in [accounts -> Statuses \cup {"none"}]
    /\ inviteCache \in {"none", "good", "expired"}
    /\ memberUpdates \subseteq [of : accounts, old : Statuses, new : Statuses]
=============================================================================
