------------------------------ MODULE QueueOps ------------------------------
(***************************************************************************)
(* The operations of the chat queue (src/core/cache/chat_cache.go) as pure *)
(* operators on the sequence of tracks of one chat.                        *)
(*                                                                         *)
(* Position 1 of a sequence is the code's index 0, the track that plays.   *)
(* Operators that take an index take the code's 0-based one, so that their *)
(* guards read as in the source.                                           *)
(***************************************************************************)
EXTENDS Naturals, Sequences, SequencesExt

\* AddSong and AddSongs: append at the back.
Enqueue(q, songs) == q \o songs

\* RemoveCurrentSong: the head goes; nothing happens to an empty queue.
RemoveCurrent(q) == IF q = <<>> THEN q ELSE Tail(q)

\* RemoveTrack(index): an index out of range removes nothing.
RemoveIndex(q, index) ==
    IF index < Len(q)
    THEN SubSeq(q, 1, index) \o SubSeq(q, index + 2, Len(q))
    ELSE q

\* TrimQueueBefore(upNextPos): the head stays, the tracks between it and
\* upNextPos go, only for 1 < upNextPos < Len(q).
TrimBefore(q, upNextPos) ==
    IF upNextPos > 1 /\ upNextPos < Len(q)
    THEN <<q[1]>> \o SubSeq(q, upNextPos + 1, Len(q))
    ELSE q

\* ReverseQueue: the head stays, what is up next is reversed.
ReverseUpNext(q) ==
    IF Len(q) > 2 THEN <<q[1]>> \o Reverse(Tail(q)) ELSE q

\* MoveTrack(from, to): neither position may be the head.
CanMove(q, from, to) ==
    /\ from # to
    /\ from > 0 /\ to > 0
    /\ from < Len(q) /\ to < Len(q)

Moved(q, from, to) == InsertAt(RemoveAt(q, from + 1), to + 1, q[from + 1])

\* ShuffleQueue: every order of what is up next, the head in place.
Shuffles(q) ==
    IF Len(q) > 2
    THEN {<<q[1]>> \o [i \in 1..(Len(q) - 1) |-> q[p[i]]] :
              p \in Injection(1..(Len(q) - 1), 2..Len(q))}
    ELSE {q}
=============================================================================
