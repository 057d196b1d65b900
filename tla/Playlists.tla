----------------------------- MODULE Playlists ------------------------------
(***************************************************************************)
(* The playlists of one user: documents without a cache                    *)
(* (src/core/db/playlist.go), the commands that edit them                  *)
(* (src/handlers/playlist.go), and the buttons that save a track of the    *)
(* queue (fav in src/internal/queue/callbacks.go, addToList in             *)
(* src/handlers/callbacks.go).  Every command to the database is a step.   *)
(***************************************************************************)
EXTENDS Naturals, Sequences, SequencesExt, FiniteSets, Filtering

CONSTANTS Editors,     \* the goroutines of the user's commands
          Songs,
          PlaylistLimit,  \* 10 in the code
          MaxLists,    \* bound: playlists that are ever created
          MaxEdits,    \* bound: commands
          MaxDBErrors  \* bound: commands to the database that fail

ASSUME PlaylistAssumption ==
    /\ IsFiniteSet(Editors) /\ Editors # {} /\ IsFiniteSet(Songs)
    /\ PlaylistLimit \in Nat \ {0}

VARIABLES lists,    \* the songs of every playlist, or Gone
          editing,  \* what each goroutine does
          edits, dbErrors

playlistVars == <<lists, editing, edits, dbErrors>>

Gone == <<"gone">>
Existing == {id \in DOMAIN lists : lists[id] # Gone}
Copies(id, song) == IF id \in Existing THEN Cardinality(KeptAt(lists[id], {song})) ELSE 0

Resting == [at |-> "idle", does |-> "none", list |-> 0, song |-> "", index |-> 0]
EditorIs(e, place) == editing[e].at = place
EditorRests(e) == editing' = [editing EXCEPT ![e] = Resting]
EditorGoes(e, place) == editing' = [editing EXCEPT ![e].at = place]
sameEdits == UNCHANGED <<edits, dbErrors>>

(***************************************************************************)
(* /createplaylist, /deleteplaylist, /addtoplaylist, /removefromplaylist   *)
(* of a song by its number, and a button that saves a song.                *)
(***************************************************************************)
Create == [Resting EXCEPT !.at = "count", !.does = "create"]
DeleteList(id) == [Resting EXCEPT !.at = "find", !.does = "delete", !.list = id]
AddTo(id, song) == [Resting EXCEPT !.at = "find", !.does = "add", !.list = id, !.song = song]
RemoveFrom(id, i) == [Resting EXCEPT !.at = "find", !.does = "remove", !.list = id, !.index = i]
Save(song) == [Resting EXCEPT !.at = "count", !.does = "save", !.song = song]

Commands ==
    {Create} \cup {Save(s) : s \in Songs} \cup {DeleteList(id) : id \in DOMAIN lists}
    \cup {AddTo(id, s) : id \in DOMAIN lists, s \in Songs}
    \cup {RemoveFrom(id, i) : id \in DOMAIN lists, i \in 1 .. 2}

BeginEdit(e) ==
    /\ EditorIs(e, "idle") /\ edits < MaxEdits
    /\ \E c \in Commands : editing' = [editing EXCEPT ![e] = c]
    /\ edits' = edits + 1
    /\ UNCHANGED <<lists, dbErrors>>

\* Variant: one playlist more passes the limit.
CountOneMore(e) ==
    /\ EditorIs(e, "count")
    /\ IF editing[e].does = "create"
       THEN IF Cardinality(Existing) > PlaylistLimit THEN EditorRests(e) ELSE EditorGoes(e, "insert")
       ELSE IF Existing = {} THEN EditorGoes(e, "insert")
       ELSE \E id \in Existing : editing' = [editing EXCEPT ![e].at = "exists", ![e].list = id]
    /\ sameEdits /\ UNCHANGED lists

\* GetUserPlaylists.  A button takes the first playlist that the database
\* returns, in whatever order.
Count(e) ==
    /\ EditorIs(e, "count")
    /\ IF editing[e].does = "create"
       THEN IF Cardinality(Existing) >= PlaylistLimit THEN EditorRests(e) ELSE EditorGoes(e, "insert")
       ELSE IF Existing = {} THEN EditorGoes(e, "insert")
       ELSE \E id \in Existing : editing' = [editing EXCEPT ![e].at = "exists", ![e].list = id]
    /\ sameEdits /\ UNCHANGED lists

\* CreatePlaylist.
Insert(e) ==
    /\ EditorIs(e, "insert") /\ Len(lists) < MaxLists
    /\ lists' = Append(lists, <<>>)
    /\ IF editing[e].does = "create" THEN EditorRests(e)
       ELSE editing' = [editing EXCEPT ![e].at = "exists", ![e].list = Len(lists) + 1]
    /\ sameEdits

\* GetPlaylist; a song's number becomes its track ID.
Find(e) ==
    /\ EditorIs(e, "find")
    /\ LET f == editing[e] IN
       IF f.list \notin Existing THEN EditorRests(e)
       ELSE CASE f.does = "delete" -> EditorGoes(e, "delete")
              [] f.does = "add" -> EditorGoes(e, "exists")
              [] f.does = "remove" ->
                     IF f.index \notin DOMAIN lists[f.list] THEN EditorRests(e)
                     ELSE editing' = [editing EXCEPT ![e].at = "exists", ![e].song = lists[f.list][f.index]]
    /\ sameEdits /\ UNCHANGED lists

\* DeletePlaylist, of the user's own.
Delete(e) ==
    /\ EditorIs(e, "delete")
    /\ lists' = [lists EXCEPT ![editing[e].list] = Gone]
    /\ EditorRests(e)
    /\ sameEdits

\* songExists; a playlist that is gone, or cannot be read, has no songs.
Exists(e) ==
    /\ EditorIs(e, "exists")
    /\ LET f == editing[e]
           removes == f.does = "remove"
       IN \/ /\ IF (Copies(f.list, f.song) > 0) = removes
                THEN EditorGoes(e, IF removes THEN "pull" ELSE "push") ELSE EditorRests(e)
             /\ sameEdits
          \/ /\ dbErrors < MaxDBErrors /\ dbErrors' = dbErrors + 1
             /\ IF removes THEN EditorRests(e) ELSE EditorGoes(e, "push")
             /\ UNCHANGED edits
    /\ UNCHANGED lists

\* UpdateOne with $push: it matches nothing when the playlist is gone, which is
\* no error.
Push(e) ==
    /\ EditorIs(e, "push")
    /\ LET id == editing[e].list IN
       lists' = IF id \in Existing THEN [lists EXCEPT ![id] = Append(@, editing[e].song)] ELSE lists
    /\ EditorRests(e)
    /\ sameEdits

\* UpdateOne with $pull: every copy goes.
Pull(e) ==
    /\ EditorIs(e, "pull")
    /\ LET id == editing[e].list IN
       lists' = IF id \in Existing
                THEN [lists EXCEPT ![id] = Keep(@, Songs \ {editing[e].song})] ELSE lists
    /\ EditorRests(e)
    /\ sameEdits

\* A command to the database fails, or is done while the answer is lost.
EditFails(e) ==
    /\ editing[e].at \in {"count", "insert", "find", "delete", "push", "pull"}
    /\ dbErrors < MaxDBErrors
    /\ EditorRests(e)
    /\ dbErrors' = dbErrors + 1
    /\ \/ UNCHANGED lists
       \/ EditorIs(e, "insert") /\ Len(lists) < MaxLists /\ lists' = Append(lists, <<>>)
    /\ UNCHANGED edits

PlaylistsInit ==
    /\ lists \in {<<>>, <<Gone>>} \cup {<<SetToSeq(Songs)>>}
    /\ editing = [e \in Editors |-> Resting]
    /\ edits = 0 /\ dbErrors = 0

PlaylistsNext ==
    \E e \in Editors :
        \/ BeginEdit(e) \/ Count(e) \/ Insert(e) \/ Find(e) \/ Delete(e)
        \/ Exists(e) \/ Push(e) \/ Pull(e) \/ EditFails(e)

\* The limit is passed, and a song is in a playlist twice, only as far as
\* commands overlapped or the database failed.
Inserting == {e \in Editors : EditorIs(e, "insert")}
Pushing(id, s) == {e \in Editors : EditorIs(e, "push") /\ editing[e].list = id /\ editing[e].song = s}
ListsAreLimited ==
    /\ Cardinality(Existing) + Cardinality(Inserting) < PlaylistLimit + Cardinality(Editors)
    /\ \A id \in Existing, s \in Songs :
           Copies(id, s) + Cardinality(Pushing(id, s)) <= Cardinality(Editors) + dbErrors
=============================================================================
