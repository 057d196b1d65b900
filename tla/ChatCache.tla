----------------------------- MODULE ChatCache ------------------------------
(***************************************************************************)
(* ChatCacher of src/core/cache/chat_cache.go: a map from chat to a Go     *)
(* slice of *CachedTrack.  A slice is a window, of length len from offset  *)
(* off, into a backing array; the methods move the window, overwrite and   *)
(* nil cells in place, or take a new array.  ChatQueue is what this        *)
(* machinery must amount to.                                               *)
(*                                                                         *)
(* Every method runs under the cache's lock: one atomic action each.  No   *)
(* other slice shares the backing array (GetQueue copies), so the array    *)
(* belongs to the entry.                                                   *)
(***************************************************************************)
EXTENDS QueueOps

CONSTANTS Chats, Track,
          Nil,      \* the nil pointer, in a cell of a backing array
          Absent,   \* the chat has no entry in the map
          MaxCap,   \* bound on the capacity of a backing array
          MaxBatch, \* bound on the number of tracks added at once
          MaxLoop

ASSUME NilIsNoTrack == Nil \notin Track
ASSUME AbsentIsNoSlice ==
    Absent \notin [cells : Seq(Track \cup {Nil}), off : Nat, len : Nat]
ASSUME BoundsAreNaturals == MaxCap \in Nat /\ MaxBatch \in Nat /\ MaxLoop \in Nat

VARIABLES chatCache,   \* the map
          loop         \* the Loop field of each track object

vars == <<chatCache, loop>>

Slice == [cells : Seq(Track \cup {Nil}), off : Nat, len : Nat]

EmptySlice == [cells |-> <<>>, off |-> 0, len |-> 0]

\* What the slice holds, in order.
View(s) == [i \in 1..s.len |-> s.cells[s.off + i]]

\* getOrCreate: the entry of the chat, or a new empty one.
Entry(c) == IF chatCache[c] = Absent THEN EmptySlice ELSE chatCache[c]

HasTracks(c) == chatCache[c] # Absent /\ chatCache[c].len > 0

\* Is a cell inside the window?
InWindow(s, i) == s.off < i /\ i <= s.off + s.len

\* The slice with its window's cells overwritten by f, f's first element
\* landing at the code's index `at`.
Overwrite(s, at, f) ==
    [s EXCEPT !.cells = [i \in DOMAIN @ |->
        IF i - s.off - at \in DOMAIN f THEN f[i - s.off - at] ELSE @[i]]]

\* Go's copy(q[dst:], q[from:to]) within one slice: as memmove, the source
\* is read before anything is written.
CopyWithin(s, dst, from, to) ==
    Overwrite(s, dst, [k \in 1..(to - from) |-> s.cells[s.off + from + k]])

SetCell(s, at, t) == Overwrite(s, at, <<t>>)

\* Variant: the capacity test is off by one.
AppendedPastTheEnd(s, songs) ==
    LET n == s.len + Len(songs)
        new == View(s) \o songs
    IN IF s.off + n <= Len(s.cells) + 1
       THEN {[Overwrite(s, s.len, songs) EXCEPT !.len = n]}
       ELSE {[cells |-> [i \in 1..cap |-> IF i <= n THEN new[i] ELSE Nil],
              off |-> 0, len |-> n] : cap \in n..MaxCap}

\* append: in place while the capacity lasts, else into a larger array, whose
\* size the runtime chooses.
Appended(s, songs) ==
    LET n == s.len + Len(songs)
        new == View(s) \o songs
    IN IF s.off + n <= Len(s.cells)
       THEN {[Overwrite(s, s.len, songs) EXCEPT !.len = n]}
       ELSE {[cells |-> [i \in 1..cap |-> IF i <= n THEN new[i] ELSE Nil],
              off |-> 0, len |-> n] : cap \in n..MaxCap}

Init ==
    /\ chatCache = [c \in Chats |-> Absent]
    /\ loop = [t \in Track |-> 0]

\* The object was not handed to the cache before: no array refers to it.
Fresh(t) == \A c \in Chats : \A i \in DOMAIN Entry(c).cells :
                Entry(c).cells[i] # t

Store(c, s) ==
    /\ chatCache' = [chatCache EXCEPT ![c] = s]
    /\ UNCHANGED loop

AddSongs(c, songs) ==
    /\ \A i \in DOMAIN songs : Fresh(songs[i])
    /\ IsInjective(songs)
    /\ \E s \in Appended(Entry(c), songs) :
           chatCache' = [chatCache EXCEPT ![c] = s]
    /\ loop' = [t \in Track |-> IF t \in ToSet(songs) THEN 0 ELSE loop[t]]

\* Variant: the head's cell keeps its pointer.
RemoveCurrentSongOnlyMoves(c) ==
    /\ HasTracks(c)
    /\ Store(c, [chatCache[c] EXCEPT !.off = @ + 1, !.len = @ - 1])

RemoveCurrentSong(c) ==
    /\ HasTracks(c)
    /\ LET s == SetCell(chatCache[c], 0, Nil)
       IN Store(c, [s EXCEPT !.off = @ + 1, !.len = @ - 1])

\* Variant: the cell that falls out of the window is not cleared.
RemoveTrackKeepsLast(c, index) ==
    /\ chatCache[c] # Absent
    /\ index < chatCache[c].len
    /\ LET q == chatCache[c]
       IN Store(c, [CopyWithin(q, index, index + 1, q.len) EXCEPT !.len = @ - 1])

RemoveTrack(c, index) ==
    /\ chatCache[c] # Absent
    /\ index < chatCache[c].len
    /\ LET q == chatCache[c]
           shifted == CopyWithin(q, index, index + 1, q.len)
           cleared == SetCell(shifted, q.len - 1, Nil)
       IN Store(c, [cleared EXCEPT !.len = @ - 1])

ClearChat(c) ==
    /\ chatCache[c] # Absent
    /\ Store(c, Absent)

SetLoopCount(c, n) ==
    /\ HasTracks(c)
    /\ loop' = [loop EXCEPT ![View(chatCache[c])[1]] = n]
    /\ UNCHANGED chatCache

\* rand.Shuffle on the tail: any permutation of the cells after the first.
ShuffleQueue(c) ==
    /\ chatCache[c] # Absent
    /\ chatCache[c].len > 2
    /\ \E p \in Injection(2..chatCache[c].len, 2..chatCache[c].len) :
           Store(c, Overwrite(chatCache[c], 1,
               [k \in 1..(chatCache[c].len - 1) |->
                    View(chatCache[c])[p[k + 1]]]))

\* The two indices meet in the middle, swapping: cell k and cell n+1-k.
ReverseQueue(c) ==
    /\ chatCache[c] # Absent
    /\ chatCache[c].len > 2
    /\ LET q == chatCache[c]
       IN Store(c, Overwrite(q, 1,
              [k \in 1..(q.len - 1) |-> q.cells[q.off + q.len + 1 - k]]))

\* Variant: the guard admits the head.
MoveTrackWithHead(c, from, to) ==
    /\ chatCache[c] # Absent
    /\ from # to
    /\ from < chatCache[c].len /\ to < chatCache[c].len
    /\ LET q == chatCache[c]
           track == q.cells[q.off + from + 1]
           shifted == IF from < to
                      THEN CopyWithin(q, from, from + 1, to + 1)
                      ELSE CopyWithin(q, to + 1, to, from)
       IN Store(c, SetCell(shifted, to, track))

MoveTrack(c, from, to) ==
    /\ chatCache[c] # Absent
    /\ from # to /\ from > 0 /\ to > 0
    /\ from < chatCache[c].len /\ to < chatCache[c].len
    /\ LET q == chatCache[c]
           track == q.cells[q.off + from + 1]
           shifted == IF from < to
                      THEN CopyWithin(q, from, from + 1, to + 1)
                      ELSE CopyWithin(q, to + 1, to, from)
       IN Store(c, SetCell(shifted, to, track))

\* Variant: off by one, the track before upNextPos stays as well.
TrimQueueBeforeShort(c, upNextPos) ==
    /\ chatCache[c] # Absent
    /\ upNextPos > 1 /\ upNextPos < chatCache[c].len
    /\ LET q == chatCache[c]
           n == q.len - upNextPos + 2
       IN Store(c, [cells |-> [i \in 1..n |->
                        View(q)[IF i = 1 THEN 1 ELSE upNextPos + i - 2]],
                    off |-> 0, len |-> n])

\* Variant: the playing track is not carried over to the new array.
TrimQueueBeforeDropsHead(c, upNextPos) ==
    /\ chatCache[c] # Absent
    /\ upNextPos > 1 /\ upNextPos < chatCache[c].len
    /\ LET q == chatCache[c]
           n == q.len - upNextPos
       IN Store(c, [cells |-> [i \in 1..n |-> View(q)[upNextPos + i]],
                    off |-> 0, len |-> n])

\* The old array is dropped: the new one holds exactly what stays.
TrimQueueBefore(c, upNextPos) ==
    /\ chatCache[c] # Absent
    /\ upNextPos > 1 /\ upNextPos < chatCache[c].len
    /\ LET q == chatCache[c]
           n == q.len - upNextPos + 1
       IN Store(c, [cells |-> [i \in 1..n |->
                        View(q)[IF i = 1 THEN 1 ELSE upNextPos + i - 1]],
                    off |-> 0, len |-> n])

Index == 0..MaxCap
Batches == SeqOf(Track, MaxBatch) \ {<<>>}

Next == \E c \in Chats :
    \/ \E songs \in Batches : AddSongs(c, songs)
    \/ RemoveCurrentSong(c)
    \/ \E i \in Index : RemoveTrack(c, i)
    \/ ClearChat(c)
    \/ \E n \in 0..MaxLoop : SetLoopCount(c, n)
    \/ ShuffleQueue(c)
    \/ ReverseQueue(c)
    \/ \E i, j \in Index : MoveTrack(c, i, j)
    \/ \E n \in Index : TrimQueueBefore(c, n)

Spec == Init /\ [][Next]_vars

-----------------------------------------------------------------------------
TypeOK ==
    /\ chatCache \in [Chats -> Slice \cup {Absent}]
    /\ loop \in [Track -> 0..MaxLoop]
    /\ \A c \in Chats : chatCache[c] # Absent =>
           /\ chatCache[c].off + chatCache[c].len <= Len(chatCache[c].cells)
           /\ Len(chatCache[c].cells) <= MaxCap

\* Cells inside the window hold a track, so that the methods that follow a
\* queued pointer (GetLoopCount, SetTrackFilePath) never follow nil; cells
\* outside it hold nil, so that a removed track is left to the garbage
\* collector, as the comments of RemoveCurrentSong and TrimQueueBefore want.
WindowHoldsTheTracks ==
    \A c \in Chats : chatCache[c] # Absent =>
        \A i \in DOMAIN chatCache[c].cells :
            (chatCache[c].cells[i] # Nil) <=> InWindow(chatCache[c], i)

\* A track object is in at most one cell of at most one chat: copying within
\* an array duplicates nothing.
NoTrackTwice ==
    \A c, d \in Chats : chatCache[c] # Absent /\ chatCache[d] # Absent =>
        \A i \in DOMAIN chatCache[c].cells, j \in DOMAIN chatCache[d].cells :
            /\ chatCache[c].cells[i] # Nil
            /\ chatCache[c].cells[i] = chatCache[d].cells[j]
            => c = d /\ i = j

\* Only the playing track repeats: /loop sets the count on the head, and no
\* rearrangement of the queue carries a head with a count into what is up
\* next, where it would repeat unasked.
OnlyTheHeadRepeats ==
    \A c \in Chats : chatCache[c] # Absent =>
        \A i \in 2..chatCache[c].len : loop[View(chatCache[c])[i]] = 0

\* The slices implement the queue of ChatQueue, method by method.
Queue == INSTANCE ChatQueue WITH
    queue <- [c \in Chats |-> View(Entry(c))], MaxLen <- MaxCap
QueueSpec == Queue!QSpec

\* QueueSpec lets a step take any index.  RemoveTrack, TrimQueueBefore and
\* MoveTrack act on exactly the positions they are given, at the ends of the
\* queue as in the middle.
IndexedMethods == [][\A c \in Chats, i \in Index :
    /\ RemoveTrack(c, i) => Queue!RemoveTrack(c, i)
    /\ TrimQueueBefore(c, i) => Queue!TrimQueueBefore(c, i)
    /\ \A j \in Index : MoveTrack(c, i, j) => Queue!MoveTrack(c, i, j)]_vars
=============================================================================
