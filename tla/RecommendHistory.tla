-------------------------- MODULE RecommendHistory --------------------------
(***************************************************************************)
(* What was recommended to a chat (src/core/db/recommendations.go, called  *)
(* by TriggerRecommendations in src/handlers/recommend.go): a document     *)
(* with a list of tracks and recommendCache in front of it.  The cache     *)
(* holds a Go slice, and AddRecommendedTracks appends to that very slice:  *)
(* two goroutines may write into one array.  A recommendation is of one    *)
(* track here; the code's are of a few.                                    *)
(***************************************************************************)
EXTENDS Naturals, Sequences, SequencesExt

CONSTANTS Recommenders,   \* the goroutines of TriggerRecommendations
          TrackKeys,
          MaxHistory,     \* maxRecommendHistory, 100 in the code
          MaxRecommended, \* bound: recommendations
          MaxHistoryFaults \* bound: errors of the database, and expiries

\* "none" stands for no track; a history has room for one.
ASSUME HistoryBounds == MaxHistory \in Nat \ {0} /\ "none" \notin TrackKeys

VARIABLES history,      \* the document: a sequence of keys, or NoHistory
          historyEntry, \* the cached slice, or NoSlice
          arrays,       \* the arrays that slices lie in
          recommending, \* what each goroutine does
          recommended, historyFaults,
          historyRaced  \* what is stored comes from calls that overlapped, or
                        \* the document was written and the answer lost

historyVars == <<history, historyEntry, arrays, recommending, recommended, historyFaults, historyRaced>>

\* The keys at positions first .. last of an array.
Slice(a, first, last) == [in |-> a, first |-> first, last |-> last]
NoSlice == Slice(0, 1, 0)
NoHistory == <<"none">>
Keys(slice) == IF slice = NoSlice THEN <<>> ELSE SubSeq(arrays[slice.in], slice.first, slice.last)

\* A new array has the capacity that the runtime chooses: with or without a
\* cell to spare.
Spare == {<<>>, <<"spare">>}
NewArray(keys, spare) == arrays' = Append(arrays, keys \o spare)
NewSlice(keys) == Slice(Len(arrays) + 1, 1, Len(keys))

Away == [at |-> "idle", key |-> "none", slice |-> NoSlice, old |-> FALSE]
RecommenderIs(r, place) == recommending[r].at = place
RecommenderEnds(r) == recommending' = [recommending EXCEPT ![r] = Away]

\* Whoever holds a slice is overtaken when the document changes, and from the
\* start when it has changed and the entry has not.
Setting == \E r \in Recommenders : RecommenderIs(r, "set")
Outrun(r) == [o \in Recommenders |->
    IF o # r /\ recommending[o].at \in {"fill", "merge", "write", "set"}
    THEN [recommending[o] EXCEPT !.old = TRUE] ELSE recommending[o]]
sameRecommended == UNCHANGED <<recommended, historyFaults>>
HistoryFault == historyFaults < MaxHistoryFaults /\ historyFaults' = historyFaults + 1 /\ UNCHANGED recommended

BeginRecommend(r) ==
    /\ RecommenderIs(r, "idle") /\ recommended < MaxRecommended
    /\ recommending' = [recommending EXCEPT ![r].at = "look"]
    /\ recommended' = recommended + 1
    /\ UNCHANGED <<history, historyEntry, arrays, historyFaults, historyRaced>>

\* The history is known: to TriggerRecommendations, which picks a track that
\* is similar to the last one and not in it, if there is one, and then to
\* AddRecommendedTracks, which asks again.
Known(r, slice, old) ==
    IF recommending[r].key # "none"
    THEN recommending' = [recommending EXCEPT ![r].at = "merge", ![r].slice = slice, ![r].old = old]
    ELSE \/ RecommenderEnds(r)
         \/ \E k \in TrackKeys \ ToSet(Keys(slice)) :
                recommending' = [recommending EXCEPT ![r] = [Away EXCEPT !.at = "look", !.key = k]]

\* GetRecommendHistory: the entry, else the document, which is then cached.
Look(r) ==
    /\ RecommenderIs(r, "look")
    /\ IF historyEntry # NoSlice THEN Known(r, historyEntry, historyRaced \/ Setting)
       ELSE recommending' = [recommending EXCEPT ![r].at = "read"]
    /\ sameRecommended /\ UNCHANGED <<history, historyEntry, arrays, historyRaced>>

\* A read that fails counts as no history.
ReadHistory(r) ==
    /\ RecommenderIs(r, "read")
    /\ \/ history = NoHistory /\ Known(r, NoSlice, FALSE) /\ UNCHANGED arrays /\ sameRecommended
       \/ /\ history # NoHistory
          /\ \E spare \in Spare : NewArray(history, spare)
          /\ recommending' = [recommending EXCEPT ![r].at = "fill", ![r].slice = NewSlice(history), ![r].old = FALSE]
          /\ sameRecommended
       \/ HistoryFault /\ Known(r, NoSlice, TRUE) /\ UNCHANGED arrays
    /\ UNCHANGED <<history, historyEntry, historyRaced>>

\* The entry is stored, and the caller goes on with the slice it holds.
FillHistory(r) ==
    /\ RecommenderIs(r, "fill")
    /\ historyEntry' = recommending[r].slice
    /\ historyRaced' = recommending[r].old
    /\ Known(r, recommending[r].slice, recommending[r].old)
    /\ sameRecommended /\ UNCHANGED <<history, arrays>>

\* append: into the array's next cell when it has one, else into a new array.
HasRoom(slice) == slice # NoSlice /\ slice.last < Len(arrays[slice.in])
Longer(slice) == [slice EXCEPT !.last = @ + 1]
Outwritten(slice) == [o \in Recommenders |->
    LET other == recommending[o].slice IN
    IF other.in = slice.in /\ other.last > slice.last
    THEN [recommending[o] EXCEPT !.old = TRUE] ELSE recommending[o]]

\* Variant: a track more than necessary goes.
TrimmedTooFar(slice) ==
    IF slice.last - slice.first + 1 >= MaxHistory
    THEN [slice EXCEPT !.first = slice.last - MaxHistory + 2] ELSE slice

Trimmed(slice) ==
    IF slice.last - slice.first + 1 > MaxHistory
    THEN [slice EXCEPT !.first = slice.last - MaxHistory + 1] ELSE slice

\* AddRecommendedTracks up to the write.  Whoever was overtaken may write into
\* a cell that somebody else's slice shows.
Merge(r) ==
    /\ RecommenderIs(r, "merge")
    /\ LET slice == recommending[r].slice
           key == recommending[r].key
           merged(fs, longer) == recommending' = [fs EXCEPT ![r].at = "write", ![r].slice = Trimmed(longer)]
       IN IF key \in ToSet(Keys(slice)) THEN merged(recommending, slice) /\ UNCHANGED <<arrays, historyRaced>>
          ELSE IF HasRoom(slice)
          THEN /\ arrays' = [arrays EXCEPT ![slice.in][slice.last + 1] = key]
               /\ historyRaced' = (historyRaced \/ recommending[r].old)
               /\ merged(Outwritten(slice), Longer(slice))
          ELSE /\ \E spare \in Spare : NewArray(Append(Keys(slice), key), spare)
               /\ merged(recommending, NewSlice(Append(Keys(slice), key)))
               /\ UNCHANGED historyRaced
    /\ sameRecommended /\ UNCHANGED <<history, historyEntry>>

\* What the slice shows by now is written.
WriteHistory(r) ==
    /\ RecommenderIs(r, "write")
    /\ history' = Keys(recommending[r].slice)
    /\ historyRaced' = (historyRaced \/ recommending[r].old)
    /\ recommending' = [Outrun(r) EXCEPT ![r].at = "set"]
    /\ sameRecommended /\ UNCHANGED <<historyEntry, arrays>>

\* The write fails, or is done while the answer is lost.
WriteHistoryFails(r) ==
    /\ RecommenderIs(r, "write")
    /\ \/ UNCHANGED <<history, historyRaced>> /\ RecommenderEnds(r)
       \/ /\ history' = Keys(recommending[r].slice)
          /\ historyRaced' = TRUE
          /\ recommending' = [Outrun(r) EXCEPT ![r] = Away]
    /\ HistoryFault /\ UNCHANGED <<historyEntry, arrays>>

SetHistory(r) ==
    /\ RecommenderIs(r, "set")
    /\ historyEntry' = recommending[r].slice
    /\ historyRaced' = recommending[r].old
    /\ RecommenderEnds(r)
    /\ sameRecommended /\ UNCHANGED <<history, arrays>>

ExpireHistory ==
    /\ historyEntry # NoSlice
    /\ historyEntry' = NoSlice
    /\ HistoryFault /\ UNCHANGED <<history, arrays, recommending, historyRaced>>

HistoryInit ==
    /\ history = NoHistory /\ historyEntry = NoSlice /\ arrays = <<>>
    /\ recommending = [r \in Recommenders |-> Away]
    /\ recommended = 0 /\ historyFaults = 0
    /\ historyRaced = FALSE

HistoryNext ==
    \/ \E r \in Recommenders :
           \/ BeginRecommend(r) \/ Look(r) \/ ReadHistory(r) \/ FillHistory(r)
           \/ Merge(r) \/ WriteHistory(r) \/ WriteHistoryFails(r) \/ SetHistory(r)
    \/ ExpireHistory

\* A write adds the track that was recommended to all that were, of which the
\* oldest may go, and the cache then shows what was written; unless calls
\* overlapped, a read failed (the history is then lost) or an answer was lost.
Extended(old, key) ==
    LET all == IF old = NoHistory THEN <<key>> ELSE IF key \in ToSet(old) THEN old ELSE Append(old, key)
    IN IF Len(all) > MaxHistory THEN Tail(all) ELSE all
EntryShowsHistory ==
    historyEntry # NoSlice /\ ~historyRaced /\ ~Setting => Keys(historyEntry) = history
HistoryIsKept ==
    [][/\ \A r \in Recommenders :
              ~historyRaced' /\ RecommenderIs(r, "write") /\ RecommenderIs(r, "set")'
                  => history' = Extended(history, recommending[r].key)
       /\ EntryShowsHistory']_historyVars
=============================================================================
