--------------------------- MODULE AssistantStore ---------------------------
(***************************************************************************)
(* The assistant of one chat (src/core/db/assistant.go): a document of the *)
(* "assistant" collection with assistantCache in front of it.  Every       *)
(* method is a command to the database and, after it, a change of the      *)
(* cache; no lock spans the two, so each is an action of its own, which    *)
(* the goroutines of Assistants run one after the other.                   *)
(***************************************************************************)
EXTENDS Integers

VARIABLES assigned,      \* num of the chat's document, or Nobody without one
          assignedCache  \* assistantCache's entry, or Nobody

storeVars == <<assigned, assignedCache>>

Nobody == -1

\* UpdateOne with $set and upsert: SetAssistant's command.
SetAssistant(i) == assigned' = i /\ UNCHANGED assignedCache

\* AssignAssistant's command matches a document without an assistant and
\* inserts one when there is none.  A document that names somebody is not
\* matched, and its insertion fails on the duplicate key.
Assignable == assigned = Nobody
AssignAssistant(i) == Assignable /\ SetAssistant(i)

\* DeleteOne, and DeleteMany of ClearAllAssistants.
RemoveAssistant == SetAssistant(Nobody)

\* assistantCache.Set after a command or a read; Delete and Clear.
CacheAssistant(i) == assignedCache' = i /\ UNCHANGED assigned
UncacheAssistant == CacheAssistant(Nobody)

StoreType(indices) ==
    /\ assigned \in indices \cup {Nobody}
    /\ assignedCache \in indices \cup {Nobody}
=============================================================================
