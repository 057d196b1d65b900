----------------------------- MODULE ChatQueue ------------------------------
(***************************************************************************)
(* What the chat queue promises: per chat a sequence of track objects, the *)
(* first of which is the one that plays, and the repeat count of each      *)
(* track.  One atomic action per method of ChatCacher that changes state,  *)
(* because every method holds the cache's lock from entry to exit.         *)
(***************************************************************************)
EXTENDS QueueOps

CONSTANTS Chats,    \* chat ids
          Track,    \* track objects (the *CachedTrack pointers)
          MaxLen,   \* bound on the length of a queue
          MaxBatch, \* bound on the number of tracks added at once
          MaxLoop   \* bound on the repeat count, 10 in handlers/loop.go

VARIABLES queue,    \* queue[c]: the tracks of chat c, the playing one first
          loop      \* loop[t]: the repeats track t still has

qvars == <<queue, loop>>

QInit ==
    /\ queue = [c \in Chats |-> <<>>]
    /\ loop = [t \in Track |-> 0]

\* Handlers allocate a new object for every track they add.
Fresh(t) == \A c \in Chats : t \notin ToSet(queue[c])

AddSongs(c, songs) ==
    /\ \A i \in DOMAIN songs : Fresh(songs[i])
    /\ IsInjective(songs)
    /\ Len(queue[c]) + Len(songs) <= MaxLen
    /\ queue' = [queue EXCEPT ![c] = Enqueue(@, songs)]
    /\ loop' = [t \in Track |-> IF t \in ToSet(songs) THEN 0 ELSE loop[t]]

\* Every method that only changes which tracks are queued, or in which order.
Becomes(c, q) ==
    /\ queue' = [queue EXCEPT ![c] = q]
    /\ UNCHANGED loop

RemoveCurrentSong(c) == Becomes(c, RemoveCurrent(queue[c]))
RemoveTrack(c, i) == Becomes(c, RemoveIndex(queue[c], i))
ClearChat(c) == Becomes(c, <<>>)
ShuffleQueue(c) == \E q \in Shuffles(queue[c]) : Becomes(c, q)
ReverseQueue(c) == Becomes(c, ReverseUpNext(queue[c]))
TrimQueueBefore(c, n) == Becomes(c, TrimBefore(queue[c], n))
MoveTrack(c, i, j) ==
    /\ CanMove(queue[c], i, j)
    /\ Becomes(c, Moved(queue[c], i, j))

SetLoopCount(c, n) ==
    /\ queue[c] # <<>>
    /\ loop' = [loop EXCEPT ![Head(queue[c])] = n]
    /\ UNCHANGED queue

Index == 0..MaxLen

QNext == \E c \in Chats :
    \/ \E songs \in SeqOf(Track, MaxBatch) : AddSongs(c, songs)
    \/ RemoveCurrentSong(c)
    \/ \E i \in Index : RemoveTrack(c, i)
    \/ ClearChat(c)
    \/ ShuffleQueue(c)
    \/ ReverseQueue(c)
    \/ \E i, j \in Index : MoveTrack(c, i, j)
    \/ \E n \in Index : TrimQueueBefore(c, n)
    \/ \E n \in 0..MaxLoop : SetLoopCount(c, n)

QSpec == QInit /\ [][QNext]_qvars
=============================================================================
