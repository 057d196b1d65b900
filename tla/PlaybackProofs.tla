--------------------------- MODULE PlaybackProofs ---------------------------
(***************************************************************************)
(* Proofs about Playback: the safety invariants of the concurrent run hold *)
(* for any number of workers, tracks, ids and commands and any faults, and *)
(* those of the sequential run for any number of tracks, ids and commands  *)
(* and any faults but those of messages.                                   *)
(***************************************************************************)
EXTENDS PlaybackSeq, SequenceTheorems, WellFoundedInduction, TLAPS

Sorted(q) == \A i, j \in DOMAIN q : i < j => q[i] < q[j]
Behind(q) == {q[i] : i \in DOMAIN q \ {1}}

\* r is q with some tracks taken out: the order is kept and no track moves
\* from the head to behind it.
Thinned(r, q) ==
    /\ r \in Seq(Track)
    /\ Sorted(r)
    /\ ToSet(r) \subseteq ToSet(q)
    /\ Behind(r) \subseteq Behind(q)

\* What is used of a queue as a sequence of numbers.
LEMMA QueueFacts ==
  ASSUME NEW q \in Seq(Track)
  PROVE  /\ Len(q) \in Nat /\ DOMAIN q = 1..Len(q)
         /\ \A i \in 1..Len(q) : q[i] \in Track /\ q[i] \in Nat
         /\ q # <<>> => Len(q) > 0
BY LenProperties, ElementOfSeq, EmptySeq, Bounds DEF Track

\* A sequence whose elements are those of q at increasing positions is a
\* thinned q.
LEMMA ThinnedBy ==
  ASSUME NEW q \in Seq(Track), Sorted(q), NEW r \in Seq(Track),
         NEW f \in [1..Len(r) -> 1..Len(q)],
         \A i \in 1..Len(r) : r[i] = q[f[i]],
         \A i, j \in 1..Len(r) : i < j => f[i] < f[j]
  PROVE  Thinned(r, q)
<1>1. /\ DOMAIN r = 1..Len(r) /\ DOMAIN q = 1..Len(q)
      /\ Len(r) \in Nat /\ Len(q) \in Nat
  BY QueueFacts
<1>2. Sorted(r)
  BY <1>1 DEF Sorted
<1>3. ToSet(r) \subseteq ToSet(q)
  BY <1>1 DEF ToSet
<1>4. Behind(r) \subseteq Behind(q)
  <2> SUFFICES ASSUME NEW i \in DOMAIN r \ {1}
               PROVE  r[i] \in Behind(q)
    BY DEF Behind
  <2>1. i \in 1..Len(r) /\ 1 \in 1..Len(r) /\ 1 < i
    BY <1>1
  <2>2. f[1] < f[i] /\ f[i] \in 1..Len(q) /\ f[1] \in 1..Len(q)
    BY <2>1
  <2> QED
    BY <2>1, <2>2, <1>1 DEF Behind
<1> QED
  BY <1>2, <1>3, <1>4 DEF Thinned

\* RemoveCurrentSong thins the queue.
LEMMA RemoveCurrentThins ==
  ASSUME NEW q \in Seq(Track), Sorted(q)
  PROVE  Thinned(RemoveCurrent(q), q)
<1>1. CASE q = <<>>
  BY <1>1 DEF RemoveCurrent, Thinned
<1>2. CASE q # <<>>
  <2> DEFINE r == Tail(q)
             f == [i \in 1..Len(r) |-> i + 1]
  <2>1. /\ r \in Seq(Track) /\ Len(r) = Len(q) - 1 /\ Len(q) \in Nat
        /\ \A i \in 1..Len(r) : r[i] = q[i + 1]
    BY <1>2, HeadTailProperties, LenProperties
  <2> HIDE DEF r
  <2>2. f \in [1..Len(r) -> 1..Len(q)]
    BY <2>1
  <2>3. /\ \A i \in 1..Len(r) : r[i] = q[f[i]]
        /\ \A i, j \in 1..Len(r) : i < j => f[i] < f[j]
    BY <2>1
  <2> HIDE DEF f
  <2>4. Thinned(r, q)
    BY <2>1, <2>2, <2>3, ThinnedBy
  <2> QED
    BY <1>2, <2>4 DEF RemoveCurrent, r
<1> QED
  BY <1>1, <1>2

\* RemoveTrack(index) thins the queue, at every index.
LEMMA RemoveIndexThins ==
  ASSUME NEW q \in Seq(Track), Sorted(q), NEW n \in Nat
  PROVE  Thinned(RemoveIndex(q, n), q)
<1>1. CASE ~ n < Len(q)
  BY <1>1 DEF RemoveIndex, Thinned
<1>2. CASE n < Len(q)
  <2> DEFINE front == SubSeq(q, 1, n)
             back == SubSeq(q, n + 2, Len(q))
             r == front \o back
             f == [i \in 1..Len(r) |-> IF i <= n THEN i ELSE i + 1]
  <2>1. /\ front \in Seq(Track) /\ Len(front) = n
        /\ \A i \in 1..n : front[i] = q[i]
    BY <1>2, QueueFacts, SubSeqProperties
  <2>2. /\ back \in Seq(Track) /\ Len(back) = Len(q) - n - 1
        /\ \A i \in 1..(Len(q) - n - 1) : back[i] = q[n + 1 + i]
    BY <1>2, QueueFacts, SubSeqProperties
  <2> HIDE DEF front, back
  <2>3. /\ r \in Seq(Track) /\ Len(r) = Len(q) - 1 /\ Len(q) \in Nat
        /\ \A i \in 1..Len(r) :
               r[i] = IF i <= n THEN front[i] ELSE back[i - n]
    BY <1>2, <2>1, <2>2, QueueFacts, ConcatProperties
  <2> HIDE DEF r
  <2>4. f \in [1..Len(r) -> 1..Len(q)]
    BY <1>2, <2>3
  <2>5. /\ \A i \in 1..Len(r) : r[i] = q[f[i]]
        /\ \A i, j \in 1..Len(r) : i < j => f[i] < f[j]
    BY <1>2, <2>1, <2>2, <2>3
  <2> HIDE DEF f
  <2>6. Thinned(r, q)
    BY <2>3, <2>4, <2>5, ThinnedBy
  <2> QED
    BY <1>2, <2>6 DEF RemoveIndex, r, front, back
<1> QED
  BY <1>1, <1>2

\* TrimQueueBefore thins the queue.
LEMMA TrimBeforeThins ==
  ASSUME NEW q \in Seq(Track), Sorted(q), NEW n \in Nat
  PROVE  Thinned(TrimBefore(q, n), q)
<1>1. CASE ~ (n > 1 /\ n < Len(q))
  BY <1>1 DEF TrimBefore, Thinned
<1>2. CASE n > 1 /\ n < Len(q)
  <2> DEFINE head == <<q[1]>>
             back == SubSeq(q, n + 1, Len(q))
             r == head \o back
             f == [i \in 1..Len(r) |-> IF i = 1 THEN 1 ELSE n + i - 1]
  <2>1. head \in Seq(Track) /\ Len(head) = 1 /\ head[1] = q[1]
    BY <1>2, QueueFacts
  <2>2. /\ back \in Seq(Track) /\ Len(back) = Len(q) - n
        /\ \A i \in 1..(Len(q) - n) : back[i] = q[n + i]
    BY <1>2, QueueFacts, SubSeqProperties
  <2> HIDE DEF head, back
  <2>3. /\ r \in Seq(Track) /\ Len(r) = Len(q) - n + 1 /\ Len(q) \in Nat
        /\ \A i \in 1..Len(r) :
               r[i] = IF i <= 1 THEN head[i] ELSE back[i - 1]
    <3>1. Len(q) \in Nat /\ Len(head) + Len(back) = Len(q) - n + 1
      BY <1>2, <2>1, <2>2, QueueFacts
    <3>2. /\ r \in Seq(Track) /\ Len(r) = Len(head) + Len(back)
          /\ \A i \in 1..Len(head) + Len(back) :
                 r[i] = IF i <= Len(head) THEN head[i] ELSE back[i - Len(head)]
      BY <2>1, <2>2, ConcatProperties
    <3> HIDE DEF r
    <3> QED
      BY <2>1, <3>1, <3>2
  <2> HIDE DEF r
  <2>4. f \in [1..Len(r) -> 1..Len(q)]
    BY <1>2, <2>3
  <2>5. /\ \A i \in 1..Len(r) : r[i] = q[f[i]]
        /\ \A i, j \in 1..Len(r) : i < j => f[i] < f[j]
    <3>1. \A i \in 2..Len(r) : r[i] = q[n + i - 1]
      <4> SUFFICES ASSUME NEW i \in 2..Len(r)
                   PROVE  r[i] = q[n + i - 1]
        OBVIOUS
      <4>1. i \in 1..Len(r) /\ ~(i <= 1) /\ i - 1 \in 1..(Len(q) - n)
        BY <1>2, <2>3
      <4>2. r[i] = back[i - 1] /\ back[i - 1] = q[n + (i - 1)]
        BY <2>2, <2>3, <4>1
      <4> QED
        BY <1>2, <4>1, <4>2
    <3>2. Len(r) > 0 => r[1] = q[1]
      BY <1>2, <2>1, <2>3
    <3> QED
      BY <1>2, <2>3, <3>1, <3>2
  <2> HIDE DEF f
  <2>6. Thinned(r, q)
    BY <2>3, <2>4, <2>5, ThinnedBy
  <2> QED
    BY <1>2, <2>6 DEF TrimBefore, r, head, back
<1> QED
  BY <1>1, <1>2

\* ClearChat thins the queue.
LEMMA EmptyThins ==
  ASSUME NEW q \in Seq(Track)
  PROVE  Thinned(<<>>, q)
BY DEF Thinned, Sorted, Behind, ToSet

\* Adding the tracks n+1, ..., n+k behind tracks that are at most n keeps the
\* order; what is behind the head was there before or is new.
LEMMA EnqueueSorts ==
  ASSUME NEW q \in Seq(Track), Sorted(q),
         NEW n \in Nat, \A i \in DOMAIN q : q[i] <= n,
         NEW new \in Seq(Track), \A i \in 1..Len(new) : new[i] = n + i
  PROVE  LET r == Enqueue(q, new) IN
         /\ r \in Seq(Track)
         /\ Sorted(r)
         /\ \A i \in DOMAIN r : r[i] <= n + Len(new)
         /\ Behind(r) \subseteq Behind(q) \cup n+1..n+Len(new)
         /\ q = <<>> => n + 1 \notin Behind(r)
         /\ \A t \in ToSet(r) \ ToSet(q) : t > n
<1> DEFINE r == Enqueue(q, new)
<1>1. /\ r \in Seq(Track) /\ Len(r) = Len(q) + Len(new)
      /\ \A i \in 1..Len(q) + Len(new) :
             r[i] = IF i <= Len(q) THEN q[i] ELSE new[i - Len(q)]
  BY ConcatProperties DEF Enqueue
<1>2. /\ Len(q) \in Nat /\ Len(new) \in Nat
      /\ DOMAIN q = 1..Len(q) /\ DOMAIN r = 1..Len(q) + Len(new)
      /\ \A i \in 1..Len(q) : q[i] \in Nat
  BY <1>1, QueueFacts
<1> HIDE DEF r
<1>3. \A i \in 1..Len(q) + Len(new) :
          r[i] = IF i <= Len(q) THEN q[i] ELSE n + i - Len(q)
  BY <1>1, <1>2
<1>4. Sorted(r)
  BY <1>2, <1>3 DEF Sorted
<1>5. \A i \in DOMAIN r : r[i] <= n + Len(new)
  BY <1>2, <1>3
<1>6. Behind(r) \subseteq Behind(q) \cup n+1..n+Len(new)
  BY <1>2, <1>3 DEF Behind
<1>7. ASSUME q = <<>> PROVE n + 1 \notin Behind(r)
  BY <1>2, <1>3, <1>7, EmptySeq DEF Behind
<1>8. \A i \in DOMAIN r : r[i] > n \/ r[i] \in {q[j] : j \in DOMAIN q}
  BY <1>2, <1>3
<1>9. \A t \in ToSet(r) \ ToSet(q) : t > n
  BY <1>8 DEF ToSet
<1> QED
  BY <1>1, <1>4, <1>5, <1>6, <1>7, <1>9 DEF r

-----------------------------------------------------------------------------
\* The inductive invariant.

\* Tracks are queued in the order of their numbers, up to the last one issued.
QueueInv == Sorted(queue) /\ \A i \in DOMAIN queue : queue[i] <= issued

LoopInv ==
    /\ \A t \in Behind(queue) : loop[t] = 0
    /\ \A t \in Track : t > issued => loop[t] = 0

FileInv ==
    /\ \A t \in Track : filePath[t] \in {NoPath, trackId[t]}
    /\ \A t \in Track : t <= issued => trackId[t] \in Ids
    /\ \A t \in Track : t > issued => trackId[t] = None
    /\ stream # None => /\ stream.track <= issued
                        /\ stream.path \in {NoPath, trackId[stream.track]}
    /\ \A t \in prefetching : t <= issued

WithSong == {"fetchFirst", "firstLoop", "send", "pop", "fetch", "failed", "load",
             "loadFirst", "attempt", "attemptFirst"}

\* What a handler remembers stays true of a queue q, track ids ids and n
\* issued tracks: its track was issued, the first track of a playlist is not
\* up next, a path in hand is the track's, a count in hand is in range.
FrameOK(f, q, ids, n) ==
    /\ f.at \in WithSong => f.song \in Track /\ f.song <= n
    /\ f.at = "firstLoop" => f.song \notin Behind(q) /\ f.song + BatchSize - 1 <= n
    /\ f.at = "decLoop" => f.arg \in 1..MaxLoop
    /\ f.at = "loopTo" => f.arg \in 0..MaxLoop
    /\ f.at \in {"lookup", "addSong"} => f.path \in Ids
    /\ f.at \in {"attempt", "attemptFirst"} => f.path \in {NoPath, ids[f.song]}

FrameInv == \A w \in Workers : FrameOK(frame[w], queue, trackId, issued)

IInv == TypeOK /\ QueueInv /\ LoopInv /\ FileInv /\ FrameInv

\* The initial state satisfies the inductive invariant.
LEMMA InitIInv == Init => IInv
<1> SUFFICES ASSUME Init PROVE IInv
  OBVIOUS
<1>1. TypeOK
  BY Bounds, Outsiders DEF Init, TypeOK, Idle, Frame, Labels
<1>2. QueueInv /\ LoopInv
  BY Bounds DEF Init, QueueInv, LoopInv, Sorted, Behind, Track
<1>3. FileInv
  BY Bounds DEF Init, FileInv, Track
<1>4. FrameInv
  BY DEF Init, FrameInv, FrameOK, Idle, WithSong
<1> QED
  BY <1>1, <1>2, <1>3, <1>4 DEF IInv

\* The frames of all workers but w are as before, w's is sound.
LEMMA FrameStep ==
  ASSUME TypeOK, FrameInv, NEW w \in Workers,
         \A v \in Workers : v # w => frame'[v] = frame[v],
         FrameOK(frame'[w], queue', trackId', issued'),
         issued' \in Nat, issued <= issued',
         \A t \in Behind(queue') : t \in Behind(queue) \/ t > issued,
         \A t \in Track : t <= issued => trackId'[t] = trackId[t]
  PROVE  FrameInv'
<1> SUFFICES ASSUME NEW v \in Workers, v # w
             PROVE  FrameOK(frame[v], queue', trackId', issued')
  BY DEF FrameInv
<1>1. FrameOK(frame[v], queue, trackId, issued)
  BY DEF FrameInv
<1>2. issued \in Nat /\ frame[v] \in Frame
  BY DEF TypeOK
<1>3. frame[v].at = "firstLoop" => frame[v].at \in WithSong
  BY DEF WithSong
<1>4. frame[v].at \in {"attempt", "attemptFirst"} => frame[v].at \in WithSong
  BY DEF WithSong
<1>5. \A t \in Track : t \in Nat
  BY Bounds DEF Track
<1> QED
  BY <1>1, <1>2, <1>3, <1>4, <1>5, Bounds DEF FrameOK

\* A step that only takes tracks out of the queue, if anything, and moves one
\* handler on.
LEMMA ThinStep ==
  ASSUME IInv, Thinned(queue', queue), UNCHANGED objects,
         stream' \in {stream, None},
         prefetching' \subseteq Track, \A t \in prefetching' : t <= issued,
         hinted' \in Track \cup {None}, commands' \in 0..MaxCommands,
         NEW w \in Workers, frame' \in [Workers -> Frame],
         \A v \in Workers : v # w => frame'[v] = frame[v],
         FrameOK(frame'[w], queue', trackId, issued)
  PROVE  IInv'
<1>1. TypeOK'
  BY DEF IInv, TypeOK, Thinned, objects
<1>2. QueueInv'
  <2>1. Sorted(queue') /\ ToSet(queue') \subseteq ToSet(queue)
    BY DEF Thinned
  <2>2. issued' = issued /\ \A t \in ToSet(queue) : t <= issued
    BY DEF IInv, QueueInv, objects, ToSet
  <2>3. \A i \in DOMAIN queue' : queue'[i] \in ToSet(queue')
    BY DEF ToSet
  <2>4. ASSUME NEW i \in DOMAIN queue' PROVE queue'[i] <= issued'
    <3>1. queue'[i] \in ToSet(queue)
      BY <2>1, <2>3
    <3> QED
      BY <2>2, <3>1
  <2> QED
    BY <2>1, <2>4 DEF QueueInv
<1>3. LoopInv'
  BY DEF IInv, LoopInv, Thinned, objects, Behind
<1>4. FileInv'
  BY DEF IInv, FileInv, objects
<1>5. FrameInv'
  <2>1. TypeOK /\ FrameInv /\ issued \in Nat
    <3>1. TypeOK /\ FrameInv
      BY DEF IInv
    <3> QED
      BY <3>1, Bounds DEF TypeOK
  <2>2. trackId' = trackId /\ issued' = issued
    BY DEF objects
  <2>3. \A t \in Behind(queue') : t \in Behind(queue)
    BY DEF Thinned
  <2>4. issued <= issued' /\ issued' \in Nat
    BY <2>1, <2>2
  <2> QED
    BY <2>1, <2>2, <2>3, <2>4, FrameStep
<1> QED
  BY <1>1, <1>2, <1>3, <1>4, <1>5 DEF IInv

\* A step that leaves the queue and the tracks alone.
LEMMA FrameOnly ==
  ASSUME IInv, UNCHANGED <<queue, objects>>,
         stream' \in {stream, None},
         prefetching' \subseteq Track, \A t \in prefetching' : t <= issued,
         hinted' \in Track \cup {None}, commands' \in 0..MaxCommands,
         NEW w \in Workers, frame' \in [Workers -> Frame],
         \A v \in Workers : v # w => frame'[v] = frame[v],
         FrameOK(frame'[w], queue, trackId, issued)
  PROVE  IInv'
<1>1. Thinned(queue, queue)
  BY DEF Thinned, IInv, QueueInv, TypeOK
<1>2. Thinned(queue', queue) /\ UNCHANGED objects
  BY <1>1
<1>3. FrameOK(frame'[w], queue', trackId, issued)
  OBVIOUS
<1> QED
  BY <1>2, <1>3, ThinStep

\* What the command handlers do first keeps the invariant.
LEMMA UserStep ==
  ASSUME IInv, NEW w \in Workers, User(w)
  PROVE  IInv'
<1> DEFINE Kept == /\ UNCHANGED <<queue, objects>>
                   /\ UNCHANGED <<stream, prefetching, hinted>>
                   /\ commands' \in 0..MaxCommands
<1>1. /\ prefetching \subseteq Track /\ hinted \in Track \cup {None}
      /\ commands \in 0..MaxCommands /\ frame \in [Workers -> Frame]
      /\ \A t \in prefetching : t <= issued
      /\ Len(queue) \in Nat
      /\ Idle \in Frame
      /\ {"lookup", "loopTo", "removeTrack", "trim"} \subseteq Labels
  <2>1. Idle \in Frame
    BY DEF Idle, Frame, Labels
  <2>2. {"lookup", "loopTo", "removeTrack", "trim"} \subseteq Labels
    BY DEF Labels
  <2> QED
    BY <2>1, <2>2, LenProperties DEF IInv, TypeOK, FileInv
<1>2. \A kind : Command(w, kind) => Kept /\ frame[w].at = "idle"
  BY <1>1, Bounds DEF Command, At
<1>3. ASSUME Kept, NEW f \in Frame,
             f.at \notin WithSong \cup {"decLoop", "addSong"},
             f.at = "loopTo" => f.arg \in 0..MaxLoop,
             f.at = "lookup" => f.path \in Ids,
             frame' = [frame EXCEPT ![w] = f]
      PROVE  IInv'
  <2>1. FrameOK(f, queue, trackId, issued)
    BY <1>3 DEF FrameOK, WithSong
  <2>2. frame' \in [Workers -> Frame] /\ frame'[w] = f
    BY <1>1, <1>3
  <2> QED
    BY <1>1, <1>3, <2>1, <2>2, FrameOnly
<1>4. ASSUME Kept, NEW label \in Labels, label \notin WithSong,
             label \notin {"decLoop", "loopTo", "lookup", "addSong"},
             Goto(w, label)
      PROVE  IInv'
  <2> DEFINE f == [frame[w] EXCEPT !.at = label]
  <2>1. f \in Frame /\ f.at = label
    BY <1>1 DEF Frame
  <2>2. frame' = [frame EXCEPT ![w] = f]
    BY <1>1, <1>4 DEF Goto, Frame
  <2> HIDE DEF f
  <2> QED
    BY <1>3, <1>4, <2>1, <2>2
<1> HIDE DEF Kept
<1>5. CASE Play(w)
  <2> PICK id \in Ids :
           frame' = [frame EXCEPT ![w] = [Idle EXCEPT !.at = "lookup", !.path = id]]
    BY <1>5 DEF Play
  <2> DEFINE f == [Idle EXCEPT !.at = "lookup", !.path = id]
  <2>1. f \in Frame /\ f.at = "lookup" /\ f.path \in Ids
    BY <1>1 DEF Frame
  <2>2. frame' = [frame EXCEPT ![w] = f]
    OBVIOUS
  <2>3. Kept
    BY <1>2, <1>5 DEF Play
  <2> HIDE DEF f
  <2> QED
    <3>1. /\ f.at \notin WithSong \cup {"decLoop", "addSong"}
          /\ f.at = "loopTo" => f.arg \in 0..MaxLoop
          /\ f.at = "lookup" => f.path \in Ids
      BY <2>1 DEF WithSong
    <3> QED
      BY <1>3, <2>1, <2>2, <2>3, <3>1
<1>6. CASE SetLoop(w)
  <2> PICK n \in 0..MaxLoop :
           frame' = [frame EXCEPT ![w] = [Idle EXCEPT !.at = "loopTo", !.arg = n]]
    BY <1>6 DEF SetLoop
  <2> DEFINE f == [Idle EXCEPT !.at = "loopTo", !.arg = n]
  <2>1. f \in Frame /\ f.at = "loopTo" /\ f.arg \in 0..MaxLoop
    <3>1. n \in Nat
      BY Bounds
    <3> QED
      BY <1>1, <3>1 DEF Frame
  <2>2. frame' = [frame EXCEPT ![w] = f]
    OBVIOUS
  <2>3. Kept
    BY <1>2, <1>6 DEF SetLoop
  <2> HIDE DEF f
  <2> QED
    <3>1. /\ f.at \notin WithSong \cup {"decLoop", "addSong"}
          /\ f.at = "loopTo" => f.arg \in 0..MaxLoop
          /\ f.at = "lookup" => f.path \in Ids
      BY <2>1 DEF WithSong
    <3> QED
      BY <1>3, <2>1, <2>2, <2>3, <3>1
<1>7. ASSUME NEW kind, NEW label \in {"removeTrack", "trim"}, NEW last \in Int,
             OnIndex(w, kind, label, last)
      PROVE  IInv'
  <2> PICK n \in 1..last :
           frame' = [frame EXCEPT ![w] = [Idle EXCEPT !.at = label, !.arg = n]]
    BY <1>7 DEF OnIndex
  <2> DEFINE f == [Idle EXCEPT !.at = label, !.arg = n]
  <2>1. f \in Frame /\ f.at = label
    <3>1. n \in Nat /\ label \in Labels
      BY <1>1
    <3> QED
      BY <1>1, <3>1 DEF Frame
  <2> HIDE DEF f
  <2> QED
    BY <1>2, <1>3, <1>7, <2>1 DEF OnIndex, f, WithSong
<1>8. CASE RemoveUpNext(w) \/ Jump(w)
  <2>1. Len(queue) \in Int /\ Len(queue) - 1 \in Int
    BY LenProperties DEF IInv, TypeOK
  <2> QED
    BY <1>7, <1>8, <2>1 DEF RemoveUpNext, Jump
<1>9. CASE \/ Playlist(w) \/ Skip(w) \/ Stop(w)
           \/ VideoChatStarted(w) \/ VideoChatEnded(w)
  BY <1>2, <1>4, <1>9
  DEF Playlist, Skip, Stop, VideoChatStarted, VideoChatEnded, Labels, WithSong
<1> QED
  BY <1>5, <1>6, <1>8, <1>9 DEF User

-----------------------------------------------------------------------------
\* How the steps of a handler change its frame.

\* Only worker w's frame changes, and it stays a frame.
OnlyFrame(w) ==
    /\ frame' \in [Workers -> Frame]
    /\ \A v \in Workers : v # w => frame'[v] = frame[v]

\* Goto changes the place and nothing else.
LEMMA GotoMoves ==
  ASSUME IInv, NEW w \in Workers, NEW label \in Labels, Goto(w, label)
  PROVE  /\ OnlyFrame(w) /\ frame'[w].at = label
         /\ frame'[w].song = frame[w].song /\ frame'[w].path = frame[w].path
         /\ frame'[w].arg = frame[w].arg
<1>1. frame \in [Workers -> Frame]
  BY DEF IInv, TypeOK
<1> QED
  BY <1>1 DEF Goto, OnlyFrame, Frame

\* Call changes the place and the track.
LEMMA CallMoves ==
  ASSUME IInv, NEW w \in Workers, NEW label \in Labels,
         NEW song \in Track \cup {None}, Call(w, label, song)
  PROVE  /\ OnlyFrame(w) /\ frame'[w].at = label
         /\ frame'[w].song = song
<1>1. frame \in [Workers -> Frame]
  BY DEF IInv, TypeOK
<1> QED
  BY <1>1 DEF Call, OnlyFrame, Frame

\* Return makes the worker idle.
LEMMA ReturnMoves ==
  ASSUME IInv, NEW w \in Workers, Return(w)
  PROVE  OnlyFrame(w) /\ frame'[w].at = "idle"
<1>1. Idle \in Frame /\ Idle.at = "idle"
  BY DEF Idle, Frame, Labels
<1> QED
  BY <1>1 DEF IInv, TypeOK, Return, OnlyFrame

Plain == Labels \ (WithSong \cup {"decLoop", "loopTo", "lookup", "addSong"})
Songful == {"fetchFirst", "send", "pop", "fetch", "failed", "load", "loadFirst"}

\* A handler that remembers nothing of importance is sound, and so is one that
\* remembers only an issued track.
LEMMA FramesOK ==
  ASSUME NEW f, NEW q, NEW ids, NEW n
  PROVE  /\ f.at \in Plain => FrameOK(f, q, ids, n)
         /\ f.at \in Songful /\ f.song \in Track /\ f.song <= n
                => FrameOK(f, q, ids, n)
BY DEF Plain, Songful, FrameOK, WithSong, Labels

\* What the invariant says of the state a handler's step starts in.
LEMMA StateFacts ==
  ASSUME IInv, NEW w \in Workers
  PROVE  /\ queue \in Seq(Track) /\ Len(queue) \in Nat
         /\ \A i \in 1..Len(queue) :
                /\ queue[i] \in Track /\ queue[i] <= issued
                /\ loop[queue[i]] \in 0..MaxLoop
         /\ prefetching \subseteq Track /\ \A t \in prefetching : t <= issued
         /\ hinted \in Track \cup {None} /\ commands \in 0..MaxCommands
         /\ frame[w] \in Frame /\ issued \in Nat
         /\ FrameOK(frame[w], queue, trackId, issued)
<1>1. /\ queue \in Seq(Track) /\ loop \in [Track -> 0..MaxLoop]
      /\ frame \in [Workers -> Frame]
      /\ prefetching \subseteq Track /\ issued \in 0..NTracks
      /\ hinted \in Track \cup {None} /\ commands \in 0..MaxCommands
      /\ \A i \in DOMAIN queue : queue[i] <= issued
  BY DEF IInv, TypeOK, QueueInv
<1>2. /\ Len(queue) \in Nat /\ DOMAIN queue = 1..Len(queue)
      /\ \A i \in 1..Len(queue) : queue[i] \in Track
  BY <1>1, QueueFacts
<1>3. /\ \A t \in prefetching : t <= issued
      /\ FrameOK(frame[w], queue, trackId, issued)
  BY DEF IInv, FileInv, FrameInv
<1>4. issued \in Nat
  BY <1>1, Bounds
<1> QED
  BY <1>1, <1>2, <1>3, <1>4

\* A step that changes nothing but the frame, to a sound one.
LEMMA LocalStep ==
  ASSUME IInv, UNCHANGED <<queue, objects, outside>>, NEW w \in Workers,
         OnlyFrame(w), FrameOK(frame'[w], queue, trackId, issued)
  PROVE  IInv'
<1>1. UNCHANGED <<queue, objects>> /\ UNCHANGED outside
  OBVIOUS
<1>2. /\ stream' = stream /\ prefetching' = prefetching
      /\ hinted' = hinted /\ commands' = commands
  BY <1>1 DEF outside
<1>3. /\ prefetching' \subseteq Track /\ \A t \in prefetching' : t <= issued
      /\ hinted' \in Track \cup {None} /\ commands' \in 0..MaxCommands
  BY <1>2, StateFacts
<1>4. /\ frame' \in [Workers -> Frame]
      /\ \A v \in Workers : v # w => frame'[v] = frame[v]
  BY DEF OnlyFrame
<1> QED
  BY <1>1, <1>2, <1>3, <1>4, FrameOnly

\* A step that takes tracks out of the queue and leaves all else alone.
LEMMA RemovalStep ==
  ASSUME IInv, Thinned(queue', queue), UNCHANGED <<objects, outside>>,
         NEW w \in Workers, OnlyFrame(w),
         FrameOK(frame'[w], queue', trackId, issued)
  PROVE  IInv'
<1>1. UNCHANGED objects /\ UNCHANGED outside
  OBVIOUS
<1>2. /\ stream' = stream /\ prefetching' = prefetching
      /\ hinted' = hinted /\ commands' = commands
  BY <1>1 DEF outside
<1>3. /\ prefetching' \subseteq Track /\ \A t \in prefetching' : t <= issued
      /\ hinted' \in Track \cup {None} /\ commands' \in 0..MaxCommands
  BY <1>2, StateFacts
<1>4. /\ frame' \in [Workers -> Frame]
      /\ \A v \in Workers : v # w => frame'[v] = frame[v]
  BY DEF OnlyFrame
<1> QED
  BY <1>1, <1>2, <1>3, <1>4, ThinStep

\* PlayNext's steps that read the queue, and the others that change nothing
\* but their frame.
LEMMA ReadingStep ==
  ASSUME IInv, NEW w \in Workers,
         \/ LookUp(w) \/ GetLoop(w) \/ Current(w) \/ Upcoming(w)
         \/ NoSong(w) \/ Send(w) \/ Load(w)
  PROVE  IInv'
<1> DEFINE OK == FrameOK(frame'[w], queue, trackId, issued)
<1>1. UNCHANGED <<queue, objects, outside>>
  BY DEF LookUp, GetLoop, Current, Upcoming, NoSong, Send, Load
<1>2. ASSUME OnlyFrame(w), OK PROVE IInv'
  BY <1>1, <1>2, LocalStep
<1>3. ASSUME Return(w) PROVE OnlyFrame(w) /\ OK
  BY <1>3, ReturnMoves, FramesOK DEF Plain, WithSong, Labels
<1>4. ASSUME NEW label \in Plain, Goto(w, label) PROVE OnlyFrame(w) /\ OK
  BY <1>4, GotoMoves, FramesOK DEF Plain
<1>5. ASSUME NEW label \in Songful, NEW i \in 1..Len(queue), Call(w, label, queue[i])
      PROVE  OnlyFrame(w) /\ OK
  <2>1. label \in Labels /\ queue[i] \in Track /\ queue[i] <= issued
    BY StateFacts DEF Songful, Labels
  <2> QED
    BY <1>5, <2>1, CallMoves, FramesOK
<1>6. CASE LookUp(w)
  <2>1. CASE Goto(w, "addSong")
    <3>1. frame[w].path \in Ids
      BY <1>6, StateFacts DEF LookUp, At, FrameOK
    <3>2. OnlyFrame(w) /\ frame'[w].at = "addSong" /\ frame'[w].path \in Ids
      BY <2>1, <3>1, GotoMoves DEF Labels
    <3>3. OK
      BY <3>2 DEF FrameOK, WithSong
    <3> QED
      BY <1>2, <3>2, <3>3
  <2> QED
    BY <1>2, <1>3, <1>6, <2>1 DEF LookUp
<1>7. CASE GetLoop(w)
  <2> DEFINE n == IF queue = <<>> THEN 0 ELSE loop[Head(queue)]
             f == [Idle EXCEPT !.at = IF n > 0 THEN "decLoop" ELSE "upcoming",
                               !.arg = n]
  <2>1. n \in 0..MaxLoop
    BY StateFacts, EmptySeq, Bounds
  <2> HIDE DEF n
  <2>2. Idle \in Frame /\ {"decLoop", "upcoming"} \subseteq Labels
    BY DEF Idle, Frame, Labels
  <2>3. n \in Nat
    BY <2>1, Bounds
  <2>4. f \in Frame /\ f.at \in {"decLoop", "upcoming"} /\ f.arg = n
        /\ (f.at = "decLoop" => n > 0)
    BY <2>2, <2>3 DEF Frame
  <2>5. frame' = [frame EXCEPT ![w] = f]
    BY <1>7 DEF GetLoop, n
  <2> HIDE DEF f
  <2>6. OnlyFrame(w) /\ frame'[w] = f
    BY <2>4, <2>5 DEF IInv, TypeOK, OnlyFrame
  <2>7. f.at = "decLoop" => f.arg \in 1..MaxLoop
    BY <2>1, <2>4
  <2>8. OK
    BY <2>4, <2>6, <2>7 DEF FrameOK, WithSong
  <2> QED
    BY <1>2, <2>6, <2>8
<1>8. CASE Current(w)
  <2>1. queue # <<>> => 1 \in 1..Len(queue) /\ Head(queue) = queue[1]
    BY StateFacts, QueueFacts
  <2> QED
    BY <1>2, <1>4, <1>5, <1>8, <2>1 DEF Current, Plain, Songful, WithSong, Labels
<1>9. CASE Upcoming(w)
  <2>1. ~(Len(queue) < 2) => 2 \in 1..Len(queue)
    BY StateFacts
  <2> QED
    BY <1>2, <1>4, <1>5, <1>9, <2>1 DEF Upcoming, Plain, Songful, WithSong, Labels
<1>10. CASE NoSong(w)
  <2> DEFINE last == IF queue = <<>> THEN None ELSE Head(queue)
  <2>1. last \in Track \cup {None} /\ "clear" \in Labels /\ "clear" \in Plain
    BY StateFacts, QueueFacts DEF Plain, Labels, WithSong
  <2>2. Call(w, "clear", last)
    BY <1>10 DEF NoSong
  <2> HIDE DEF last
  <2> QED
    BY <1>2, <2>1, <2>2, CallMoves, FramesOK
<1>11. CASE Send(w)
  <2>1. CASE Goto(w, "fetch")
    <3>1. frame[w].song \in Track /\ frame[w].song <= issued
      BY <1>11, StateFacts DEF Send, At, FrameOK, WithSong
    <3>2. /\ OnlyFrame(w) /\ frame'[w].at \in Songful
          /\ frame'[w].song \in Track /\ frame'[w].song <= issued
      BY <2>1, <3>1, GotoMoves DEF Labels, Songful
    <3> QED
      BY <1>2, <3>2, FramesOK
  <2> QED
    BY <1>2, <1>3, <1>11, <2>1 DEF Send
<1>12. CASE Load(w)
  <2> DEFINE label == IF At(w, "load") THEN "attempt" ELSE "attemptFirst"
             path == filePath[frame[w].song]
             f == [frame[w] EXCEPT !.at = label, !.path = path]
  <2>1. frame[w].song \in Track /\ frame[w].song <= issued /\ frame[w] \in Frame
    BY <1>12, StateFacts DEF Load, At, FrameOK, WithSong
  <2>2. path \in {NoPath, trackId[frame[w].song]} /\ path \in Ids \cup {NoPath}
    BY <2>1 DEF IInv, FileInv, TypeOK
  <2>3. frame' = [frame EXCEPT ![w] = f]
    BY <1>12, <2>1 DEF Load, Frame, IInv, TypeOK
  <2>4. label \in {"attempt", "attemptFirst"} /\ label \in Labels
    BY DEF Labels
  <2> HIDE DEF label, path
  <2>5. /\ f \in Frame /\ f.at = label /\ f.path = path
        /\ f.song = frame[w].song
    BY <2>1, <2>2, <2>4 DEF Frame
  <2> HIDE DEF f
  <2>6. OnlyFrame(w) /\ frame'[w] = f
    BY <2>3, <2>5 DEF IInv, TypeOK, OnlyFrame
  <2>7. OK
    BY <2>1, <2>2, <2>4, <2>5, <2>6 DEF FrameOK, WithSong
  <2> QED
    BY <1>2, <2>6, <2>7
<1> QED
  BY <1>6, <1>7, <1>8, <1>9, <1>10, <1>11, <1>12

Removes(w) ==
    \/ DropFirst(w) \/ Pop(w) \/ PopLast(w) \/ Clear(w) \/ PlayFails(w)
    \/ RemoveTrack(w) \/ Trim(w)

\* The steps that take tracks out of the queue thin it.
LEMMA RemovalsThin ==
  ASSUME IInv, NEW w \in Workers, Removes(w)
  PROVE  Thinned(queue', queue)
<1>1. queue \in Seq(Track) /\ Sorted(queue)
  BY DEF IInv, TypeOK, QueueInv
<1>2. frame[w].arg \in Nat
  BY StateFacts DEF Frame
<1>3. CASE DropFirst(w) \/ Pop(w) \/ PopLast(w)
  BY <1>1, <1>3, RemoveCurrentThins DEF DropFirst, Pop, PopLast
<1>4. CASE Clear(w) \/ PlayFails(w)
  BY <1>1, <1>4, EmptyThins DEF Clear, PlayFails
<1>5. CASE RemoveTrack(w)
  BY <1>1, <1>2, <1>5, RemoveIndexThins DEF RemoveTrack
<1>6. CASE Trim(w)
  BY <1>1, <1>2, <1>6, TrimBeforeThins DEF Trim
<1> QED
  BY <1>3, <1>4, <1>5, <1>6 DEF Removes

\* They keep the invariant.
LEMMA RemovingStep ==
  ASSUME IInv, NEW w \in Workers, Removes(w)
  PROVE  IInv'
<1> DEFINE OK == FrameOK(frame'[w], queue', trackId, issued)
<1>1. UNCHANGED <<objects, outside>>
  BY DEF Removes, DropFirst, Pop, PopLast, Clear, PlayFails, RemoveTrack, Trim
<1>3. Thinned(queue', queue)
  BY RemovalsThin
<1>4. ASSUME OnlyFrame(w), OK PROVE IInv'
  BY <1>1, <1>3, <1>4, RemovalStep
<1>5. ASSUME Return(w) PROVE IInv'
  BY <1>4, <1>5, ReturnMoves, FramesOK DEF Plain, WithSong, Labels
<1>6. ASSUME NEW label \in Plain, Goto(w, label) PROVE IInv'
  BY <1>4, <1>6, GotoMoves, FramesOK DEF Plain
<1>7. CASE Pop(w)
  <2>1. frame[w].song \in Track /\ frame[w].song <= issued
    BY <1>7, StateFacts DEF Pop, At, FrameOK, WithSong
  <2>2. /\ OnlyFrame(w) /\ frame'[w].at \in Songful
        /\ frame'[w].song \in Track /\ frame'[w].song <= issued
    BY <1>7, <2>1, GotoMoves DEF Pop, Labels, Songful
  <2> QED
    BY <1>4, <2>2, FramesOK
<1>8. CASE PlayFails(w)
  <2>1. CASE frame' = [frame EXCEPT ![w].tries = @ + 1]
    <3>1. frame[w] \in Frame /\ FrameOK(frame[w], queue, trackId, issued)
      BY StateFacts
    <3>2. /\ OnlyFrame(w) /\ frame'[w].at = frame[w].at
          /\ frame'[w].song = frame[w].song /\ frame'[w].path = frame[w].path
          /\ frame[w].at \in {"attempt", "attemptFirst"}
      <4> DEFINE f == [frame[w] EXCEPT !.tries = @ + 1]
      <4>1. /\ f \in Frame /\ f.at = frame[w].at
            /\ f.song = frame[w].song /\ f.path = frame[w].path
        BY <3>1 DEF Frame
      <4>2. frame' = [frame EXCEPT ![w] = f]
        BY <2>1, <3>1 DEF Frame, IInv, TypeOK
      <4> HIDE DEF f
      <4>3. OnlyFrame(w) /\ frame'[w] = f
        BY <4>1, <4>2 DEF IInv, TypeOK, OnlyFrame
      <4>4. frame[w].at \in {"attempt", "attemptFirst"}
        BY <1>8 DEF PlayFails, Attempting, At
      <4> QED
        BY <4>1, <4>3, <4>4
    <3>3. OK
      BY <3>1, <3>2 DEF FrameOK, WithSong
    <3> QED
      BY <1>4, <3>2, <3>3
  <2> QED
    BY <1>5, <1>6, <1>8, <2>1 DEF PlayFails, Plain, WithSong, Labels
<1>9. CASE DropFirst(w) \/ RemoveTrack(w)
  BY <1>5, <1>9 DEF DropFirst, RemoveTrack
<1>10. CASE PopLast(w) \/ Clear(w) \/ Trim(w)
  BY <1>5, <1>6, <1>10 DEF PopLast, Clear, Trim, Plain, WithSong, Labels
<1> QED
  BY <1>7, <1>8, <1>9, <1>10 DEF Removes

\* The steps that start or end a stream or a prefetch.
LEMMA StreamingStep ==
  ASSUME IInv, NEW w \in Workers,
         StreamEnd(w) \/ Leave(w) \/ Prefetch(w) \/ Discard(w) \/ PlayOk(w)
  PROVE  IInv'
<1>1. UNCHANGED <<queue, objects>> /\ commands' = commands
  BY DEF StreamEnd, Leave, Prefetch, Discard, PlayOk
<1>2. ASSUME Return(w) \/ \E label \in Plain : Goto(w, label)
      PROVE  OnlyFrame(w) /\ FrameOK(frame'[w], queue, trackId, issued)
  BY <1>2, ReturnMoves, GotoMoves, FramesOK DEF Plain, WithSong, Labels
<1>3. Return(w) \/ \E label \in Plain : Goto(w, label)
  BY DEF StreamEnd, Leave, Prefetch, Discard, PlayOk, Plain, WithSong, Labels
<1>4. /\ frame' \in [Workers -> Frame]
      /\ \A v \in Workers : v # w => frame'[v] = frame[v]
      /\ FrameOK(frame'[w], queue, trackId, issued)
  BY <1>2, <1>3 DEF OnlyFrame
<1>5. hinted' \in Track \cup {None}
  BY StateFacts DEF StreamEnd, Leave, Prefetch, Discard, PlayOk, Frame
<1>6. prefetching' \subseteq Track /\ \A t \in prefetching' : t <= issued
  <2>1. {queue[i] : i \in DOMAIN queue \cap 2..3} \subseteq {t \in Track : t <= issued}
    BY StateFacts, QueueFacts
  <2> QED
    BY <2>1, StateFacts
    DEF StreamEnd, Leave, Prefetch, Discard, PlayOk, Launched
<1>7. CASE StreamEnd(w) \/ Leave(w) \/ Prefetch(w) \/ Discard(w)
  <2>1. stream' \in {stream, None}
    BY <1>7 DEF StreamEnd, Leave, Prefetch, Discard
  <2>2. commands' \in 0..MaxCommands
    BY <1>1, StateFacts
  <2> QED
    BY <1>1, <1>4, <1>5, <1>6, <2>1, <2>2, FrameOnly
<1>8. CASE PlayOk(w)
  <2> DEFINE t == frame[w].song
             path == frame[w].path
  <2>1. /\ t \in Track /\ t <= issued /\ path \in {NoPath, trackId[t]}
        /\ path \in Ids \cup {NoPath}
    <3>1. frame[w].at \in {"attempt", "attemptFirst"}
      BY <1>8 DEF PlayOk, Attempting, At
    <3> QED
      BY <3>1, StateFacts DEF FrameOK, WithSong, Frame
  <2>2. stream' = [track |-> t, path |-> path]
    BY <1>8 DEF PlayOk
  <2> HIDE DEF t, path
  <2>3. TypeOK'
    BY <1>1, <1>4, <1>5, <1>6, <2>1, <2>2 DEF IInv, TypeOK, objects
  <2>4. QueueInv' /\ LoopInv'
    BY <1>1 DEF IInv, QueueInv, LoopInv, objects
  <2>5. FileInv'
    BY <1>1, <1>6, <2>1, <2>2 DEF IInv, FileInv, objects
  <2>6. FrameInv'
    <3>1. queue' = queue /\ trackId' = trackId /\ issued' = issued
      BY <1>1 DEF objects
    <3> QED
      BY <1>4, <3>1 DEF IInv, FrameInv
  <2> QED
    BY <2>3, <2>4, <2>5, <2>6 DEF IInv
<1> QED
  BY <1>7, <1>8

\* A step that changes only loop counts, files and prefetches.
LEMMA ObjectStep ==
  ASSUME IInv, UNCHANGED <<queue, trackId, issued, stream, hinted, commands>>,
         loop' \in [Track -> 0..MaxLoop], LoopInv',
         filePath' \in [Track -> Ids \cup {NoPath}],
         \A t \in Track : filePath'[t] \in {NoPath, trackId[t]},
         prefetching' \subseteq Track, \A t \in prefetching' : t <= issued,
         frame' \in [Workers -> Frame], FrameInv'
  PROVE  IInv'
<1>1. TypeOK'
  BY DEF IInv, TypeOK
<1>2. QueueInv' /\ FileInv'
  BY DEF IInv, QueueInv, FileInv
<1> QED
  BY <1>1, <1>2 DEF IInv

\* With the queue, the track ids and the number of tracks as they are, the
\* frames stay sound if worker w's new one is.
LEMMA FramesKept ==
  ASSUME IInv, UNCHANGED <<queue, trackId, issued>>, NEW w \in Workers,
         OnlyFrame(w), FrameOK(frame'[w], queue, trackId, issued)
  PROVE  frame' \in [Workers -> Frame] /\ FrameInv'
BY DEF IInv, FrameInv, OnlyFrame

\* The head of an ordered queue is not behind itself.
LEMMA HeadNotBehind ==
  ASSUME NEW q \in Seq(Track), Sorted(q), q # <<>>
  PROVE  Head(q) = q[1] /\ 1 \in 1..Len(q) /\ Head(q) \notin Behind(q)
<1>1. Head(q) = q[1] /\ 1 \in 1..Len(q) /\ DOMAIN q = 1..Len(q)
      /\ \A i \in 1..Len(q) : q[i] \in Nat
  BY QueueFacts
<1>2. \A i \in DOMAIN q \ {1} : q[1] < q[i]
  BY <1>1, QueueFacts DEF Sorted
<1> QED
  BY <1>1, <1>2 DEF Behind

\* The steps that write a loop count.
LEMMA LoopingStep ==
  ASSUME IInv, NEW w \in Workers, FirstLoop(w) \/ DecLoop(w) \/ LoopTo(w)
  PROVE  IInv'
<1>1. /\ UNCHANGED <<queue, filePath, trackId, issued, stream, hinted, commands>>
      /\ FrameOK(frame[w], queue, trackId, issued)
      /\ loop \in [Track -> 0..MaxLoop] /\ queue \in Seq(Track) /\ Sorted(queue)
      /\ \A t \in Track : t > issued => loop[t] = 0
      /\ \A t \in Behind(queue) : loop[t] = 0
      /\ issued \in Nat /\ \A t \in Track : t \in Nat
  BY StateFacts, Bounds
  DEF IInv, TypeOK, QueueInv, LoopInv, FirstLoop, DecLoop, LoopTo, outside, Track
<1>2. Return(w) \/ \E label \in Plain : Goto(w, label)
  BY DEF FirstLoop, DecLoop, LoopTo, Plain, WithSong, Labels
<1>3. OnlyFrame(w) /\ FrameOK(frame'[w], queue, trackId, issued)
  BY <1>2, ReturnMoves, GotoMoves, FramesOK DEF Plain, WithSong, Labels
<1>4. frame' \in [Workers -> Frame] /\ FrameInv'
  BY <1>1, <1>3, FramesKept
<1>5. /\ filePath' \in [Track -> Ids \cup {NoPath}]
      /\ \A t \in Track : filePath'[t] \in {NoPath, trackId[t]}
  BY <1>1 DEF IInv, TypeOK, FileInv
<1>6. prefetching' \subseteq Track /\ \A t \in prefetching' : t <= issued
  <2>1. CASE FirstLoop(w)
    <3>1. /\ frame[w].song \in Track /\ frame[w].song \in Nat
          /\ frame[w].song + BatchSize - 1 <= issued
      BY <1>1, <2>1 DEF FirstLoop, At, FrameOK, WithSong
    <3>2. \A i \in 1..(BatchSize - 1) :
              frame[w].song + i \in Track /\ frame[w].song + i <= issued
      <4>1. issued <= NTracks
        BY Bounds DEF IInv, TypeOK
      <4>2. issued \in Nat /\ NTracks \in Nat /\ BatchSize \in Nat
        BY <1>1, Bounds
      <4>3. ASSUME NEW i \in 1..(BatchSize - 1)
            PROVE  /\ frame[w].song + i \in 1..NTracks
                   /\ frame[w].song + i <= issued
        <5>1. i \in Nat /\ 1 <= i /\ i <= BatchSize - 1
          BY <4>2, <4>3
        <5>2. frame[w].song + i <= issued
          BY <3>1, <4>2, <5>1
        <5> QED
          BY <3>1, <4>1, <4>2, <5>1, <5>2
      <4> QED
        BY <4>3 DEF Track
    <3> QED
      BY <2>1, <3>2, StateFacts DEF FirstLoop, Launched
  <2>2. CASE DecLoop(w) \/ LoopTo(w)
    BY <2>2, StateFacts DEF DecLoop, LoopTo, outside
  <2> QED
    BY <2>1, <2>2
<1>7. ASSUME NEW t \in Track, t <= issued, t \notin Behind(queue),
             NEW n \in 0..MaxLoop, loop' = [loop EXCEPT ![t] = n]
      PROVE  loop' \in [Track -> 0..MaxLoop] /\ LoopInv'
  <2>1. Behind(queue') \subseteq Track /\ Behind(queue') = Behind(queue)
    BY <1>1, QueueFacts DEF Behind
  <2>2. \A u \in Behind(queue) : u # t
    BY <1>7
  <2>3. \A u \in Track : u > issued => u # t
    BY <1>1, <1>7
  <2> QED
    BY <1>1, <1>7, <2>1, <2>2, <2>3 DEF LoopInv
<1>8. ASSUME loop' = loop PROVE loop' \in [Track -> 0..MaxLoop] /\ LoopInv'
  BY <1>1, <1>8 DEF LoopInv
<1>9. ASSUME NEW n \in 0..MaxLoop, SetLoopCount(n)
      PROVE  loop' \in [Track -> 0..MaxLoop] /\ LoopInv'
  <2>1. CASE queue = <<>>
    BY <1>8, <1>9, <2>1 DEF SetLoopCount
  <2>2. CASE queue # <<>>
    <3>1. /\ Head(queue) \in Track /\ Head(queue) <= issued
          /\ Head(queue) \notin Behind(queue)
      BY <1>1, <2>2, HeadNotBehind, StateFacts
    <3>2. loop' = [loop EXCEPT ![Head(queue)] = n]
      BY <1>9, <2>2 DEF SetLoopCount
    <3> QED
      BY <1>7, <3>1, <3>2
  <2> QED
    BY <2>1, <2>2
<1>10. loop' \in [Track -> 0..MaxLoop] /\ LoopInv'
  <2>1. CASE FirstLoop(w)
    <3>1. /\ frame[w].song \in Track /\ frame[w].song <= issued
          /\ frame[w].song \notin Behind(queue)
      BY <1>1, <2>1 DEF FirstLoop, At, FrameOK, WithSong
    <3>2. loop' = [loop EXCEPT ![frame[w].song] = 1] /\ 1 \in 0..MaxLoop
      BY <2>1, Bounds DEF FirstLoop
    <3> QED
      BY <1>7, <3>1, <3>2
  <2>2. CASE DecLoop(w)
    <3>1. frame[w].arg \in 1..MaxLoop
      BY <1>1, <2>2 DEF DecLoop, At, FrameOK
    <3>2. frame[w].arg - 1 \in 0..MaxLoop /\ SetLoopCount(frame[w].arg - 1)
      BY <2>2, <3>1, Bounds DEF DecLoop
    <3> QED
      BY <1>9, <3>2
  <2>3. CASE LoopTo(w)
    <3>1. frame[w].arg \in 0..MaxLoop /\ SetLoopCount(frame[w].arg)
      BY <1>1, <2>3 DEF LoopTo, At, FrameOK
    <3> QED
      BY <1>9, <3>1
  <2> QED
    BY <2>1, <2>2, <2>3
<1> QED
  BY <1>1, <1>4, <1>5, <1>6, <1>10, ObjectStep

\* The steps of a handler that write a file path.
LEMMA FilingStep ==
  ASSUME IInv, NEW w \in Workers, FetchFirst(w) \/ Fetch(w) \/ FetchFailed(w)
  PROVE  IInv'
<1> DEFINE t == frame[w].song
<1>1. UNCHANGED <<queue, loop, trackId, issued>> /\ UNCHANGED outside
  BY DEF FetchFirst, Fetch, FetchFailed
<1>2. /\ t \in Track /\ t <= issued
  BY StateFacts DEF FetchFirst, Fetch, FetchFailed, At, FrameOK, WithSong
<1>3. /\ filePath \in [Track -> Ids \cup {NoPath}]
      /\ trackId[t] \in Ids
      /\ \A u \in Track : filePath[u] \in {NoPath, trackId[u]}
      /\ loop \in [Track -> 0..MaxLoop]
  BY <1>2 DEF IInv, TypeOK, FileInv
<1>4. \/ filePath' = filePath
      \/ filePath' = [filePath EXCEPT ![t] = trackId[t]]
      \/ filePath' = [filePath EXCEPT ![t] = NoPath]
  BY DEF FetchFirst, Fetch, FetchFailed
<1>5. \E label \in Plain \cup Songful : Goto(w, label)
  BY DEF FetchFirst, Fetch, FetchFailed, Plain, Songful, WithSong, Labels
<1> HIDE DEF t
<1>6. /\ filePath' \in [Track -> Ids \cup {NoPath}]
      /\ \A u \in Track : filePath'[u] \in {NoPath, trackId[u]}
  BY <1>2, <1>3, <1>4
<1>7. OnlyFrame(w) /\ FrameOK(frame'[w], queue, trackId, issued)
  BY <1>2, <1>5, GotoMoves, FramesOK DEF Plain, Songful, Labels, t
<1>8. frame' \in [Workers -> Frame] /\ FrameInv'
  BY <1>1, <1>7, FramesKept
<1>9. loop' \in [Track -> 0..MaxLoop] /\ LoopInv'
  BY <1>1, <1>3 DEF IInv, LoopInv
<1>10. /\ prefetching' \subseteq Track /\ \A u \in prefetching' : u <= issued
       /\ UNCHANGED <<stream, hinted, commands>>
  BY <1>1, StateFacts DEF outside
<1> QED
  BY <1>1, <1>6, <1>8, <1>9, <1>10, ObjectStep

\* The least element of a set of naturals is one of its elements.
LEMMA MinIsMember ==
  ASSUME NEW S \in SUBSET Nat, S # {}
  PROVE  Min(S) \in S
<1>1. \E x \in S : \A y \in S : x <= y
  <2> DEFINE R == OpToRel(<, Nat)
  <2>1. PICK x \in S : \A y \in S : ~ (<<y, x>> \in R)
    BY NatLessThanWellFounded, WFMin
  <2>2. \A y \in S : <<y, x>> \in R <=> y < x
    BY DEF OpToRel
  <2> HIDE DEF R
  <2>3. \A y \in S : ~(y < x)
    BY <2>1, <2>2
  <2>4. \A y \in S : x <= y
    BY <2>3
  <2> QED
    BY <2>1, <2>4
<1> QED
  BY <1>1 DEF Min

\* A prefetch that ends, well or badly.
LEMMA PrefetchStep ==
  ASSUME IInv, NEW t \in Track, PrefetchDone(t)
  PROVE  IInv'
<1> DEFINE matches == {i \in DOMAIN queue : trackId[queue[i]] = trackId[t]}
<1>1. /\ UNCHANGED <<queue, loop, trackId, issued, stream, hinted, commands, frame>>
      /\ prefetching' = prefetching \ {t} /\ t \in prefetching
      /\ filePath' # filePath => Publish(trackId[t])
  BY DEF PrefetchDone
<1>2. /\ queue \in Seq(Track) /\ filePath \in [Track -> Ids \cup {NoPath}]
      /\ \A u \in Track : filePath[u] \in {NoPath, trackId[u]}
      /\ trackId[t] \in Ids
      /\ loop \in [Track -> 0..MaxLoop] /\ frame \in [Workers -> Frame]
      /\ prefetching \subseteq Track /\ \A u \in prefetching : u <= issued
  BY <1>1 DEF IInv, TypeOK, FileInv
<1>3. CASE filePath' # filePath
  <2>1. matches # {} /\ filePath' = [filePath EXCEPT ![queue[Min(matches)]] = trackId[t]]
    BY <1>1, <1>3 DEF Publish
  <2>2. matches \in SUBSET Nat
    BY <1>2, QueueFacts
  <2>3. Min(matches) \in matches
    BY <2>1, <2>2, MinIsMember
  <2>4. /\ queue[Min(matches)] \in Track
        /\ trackId[queue[Min(matches)]] = trackId[t]
    BY <1>2, <2>3, QueueFacts
  <2> HIDE DEF matches
  <2>5. /\ filePath' \in [Track -> Ids \cup {NoPath}]
        /\ \A u \in Track : filePath'[u] \in {NoPath, trackId[u]}
    BY <1>2, <2>1, <2>4
  <2>6. LoopInv' /\ FrameInv'
    BY <1>1 DEF IInv, LoopInv, FrameInv
  <2> QED
    BY <1>1, <1>2, <2>5, <2>6, ObjectStep
<1>4. CASE filePath' = filePath
  <2>1. LoopInv' /\ FrameInv'
    BY <1>1 DEF IInv, LoopInv, FrameInv
  <2> QED
    BY <1>1, <1>2, <1>4, <2>1, ObjectStep
<1> QED
  BY <1>3, <1>4

\* A step that adds the tracks issued+1, ..., issued+k at the back.
LEMMA IssueStep ==
  ASSUME IInv, NEW new \in Seq(Track), \A i \in 1..Len(new) : new[i] = issued + i,
         queue' = Enqueue(queue, new), issued' = issued + Len(new),
         issued' \in 0..NTracks,
         trackId' \in [Track -> Ids \cup {None}],
         \A t \in Track : t - issued \in 1..Len(new) => trackId'[t] \in Ids,
         \A t \in Track : t - issued \notin 1..Len(new) => trackId'[t] = trackId[t],
         UNCHANGED <<loop, filePath, stream, hinted, commands>>,
         prefetching' \subseteq Track, \A t \in prefetching' : t <= issued',
         NEW w \in Workers, OnlyFrame(w),
         FrameOK(frame'[w], queue', trackId', issued')
  PROVE  IInv'
<1>1. /\ queue \in Seq(Track) /\ Sorted(queue) /\ issued \in Nat
      /\ \A i \in DOMAIN queue : queue[i] <= issued
      /\ Len(new) \in Nat /\ \A t \in Track : t \in Nat
      /\ filePath \in [Track -> Ids \cup {NoPath}]
  BY Bounds, LenProperties DEF IInv, TypeOK, QueueInv, Track
<1>2. /\ queue' \in Seq(Track)
      /\ Sorted(queue')
      /\ \A i \in DOMAIN queue' : queue'[i] <= issued + Len(new)
      /\ Behind(queue') \subseteq Behind(queue) \cup issued+1..issued+Len(new)
  BY <1>1, EnqueueSorts
<1>3. issued' \in Nat /\ issued <= issued'
  BY <1>1
<1>4. \A t \in Track : t <= issued => trackId'[t] = trackId[t]
  <2> SUFFICES ASSUME NEW t \in Track, t <= issued PROVE t - issued \notin 1..Len(new)
    OBVIOUS
  <2> QED
    BY <1>1
<1>5. \A t \in Track : t > issued' => trackId'[t] = trackId[t] /\ t > issued
  <2> SUFFICES ASSUME NEW t \in Track, t > issued'
               PROVE  t - issued \notin 1..Len(new) /\ t > issued
    OBVIOUS
  <2> QED
    BY <1>1
<1>6. \A t \in Track : t > issued /\ t <= issued' => trackId'[t] \in Ids
  <2> SUFFICES ASSUME NEW t \in Track, t > issued, t <= issued'
               PROVE  t - issued \in 1..Len(new)
    OBVIOUS
  <2> QED
    BY <1>1
<1>7. TypeOK'
  BY <1>2 DEF IInv, TypeOK, OnlyFrame
<1>8. QueueInv'
  BY <1>2 DEF QueueInv
<1>9. LoopInv'
  <2>1. Behind(queue') \subseteq Track
    BY <1>2, QueueFacts DEF Behind
  <2>2. \A t \in Behind(queue') : t \in Behind(queue) \/ t > issued
    BY <1>1, <1>2
  <2> QED
    BY <1>5, <2>1, <2>2 DEF IInv, LoopInv
<1>10. FileInv'
  <2>1. \A t \in Track : filePath'[t] \in {NoPath, trackId'[t]}
    <3> SUFFICES ASSUME NEW t \in Track PROVE filePath'[t] \in {NoPath, trackId'[t]}
      OBVIOUS
    <3>1. /\ filePath'[t] \in {NoPath, trackId[t]}
          /\ t > issued => trackId[t] = None /\ filePath'[t] \in Ids \cup {NoPath}
      BY <1>1 DEF IInv, FileInv
    <3>2. CASE t <= issued
      BY <1>4, <3>1, <3>2
    <3>3. CASE ~(t <= issued)
      BY <1>1, <3>1, <3>3, Outsiders
    <3> QED
      BY <3>2, <3>3
  <2>2. \A t \in Track : t <= issued' => trackId'[t] \in Ids
    BY <1>1, <1>3, <1>4, <1>6 DEF IInv, FileInv
  <2>3. \A t \in Track : t > issued' => trackId'[t] = None
    BY <1>5 DEF IInv, FileInv
  <2>4. stream' # None => /\ stream'.track <= issued'
                          /\ stream'.path \in {NoPath, trackId'[stream'.track]}
    <3>1. stream # None => /\ stream.track \in Track /\ stream.track <= issued
                           /\ stream.path \in {NoPath, trackId[stream.track]}
      BY DEF IInv, FileInv, TypeOK
    <3> QED
      BY <1>1, <1>3, <1>4, <3>1
  <2> QED
    BY <2>1, <2>2, <2>3, <2>4 DEF FileInv
<1>11. FrameInv'
  <2>1. \A t \in Behind(queue') : t \in Behind(queue) \/ t > issued
    BY <1>1, <1>2
  <2> QED
    BY <1>3, <1>4, <2>1, FrameStep DEF IInv, OnlyFrame
<1> QED
  BY <1>7, <1>8, <1>9, <1>10, <1>11 DEF IInv

\* AddSong adds one track.
LEMMA AddSongStep ==
  ASSUME IInv, NEW w \in Workers, AddSong(w)
  PROVE  IInv'
<1> DEFINE t == issued + 1
           new == <<t>>
<1>1. /\ t \in Track /\ queue' = Enqueue(queue, new) /\ issued' = t
      /\ trackId' = [trackId EXCEPT ![t] = frame[w].path]
      /\ UNCHANGED <<loop, filePath, stream, hinted, commands>>
  BY DEF AddSong
<1>2. /\ issued \in Nat /\ frame[w].path \in Ids /\ t \in 0..NTracks
      /\ \A u \in Track : u \in Nat
      /\ trackId \in [Track -> Ids \cup {None}]
      /\ prefetching \subseteq Track /\ \A u \in prefetching : u <= issued
  <2>1. frame[w].path \in Ids
    BY StateFacts DEF AddSong, At, FrameOK
  <2>2. issued \in 0..NTracks /\ trackId \in [Track -> Ids \cup {None}]
        /\ prefetching \subseteq Track
    BY DEF IInv, TypeOK
  <2>3. \A u \in prefetching : u <= issued
    BY DEF IInv, FileInv
  <2>4. issued \in Nat /\ t \in 0..NTracks /\ \A u \in Track : u \in Nat
    BY <1>1, <2>2, Bounds DEF Track
  <2> QED
    BY <2>1, <2>2, <2>3, <2>4
<1>3. /\ new \in Seq(Track) /\ Len(new) = 1
      /\ \A i \in 1..Len(new) : new[i] = issued + i
  BY <1>1
<1>4. /\ trackId' \in [Track -> Ids \cup {None}]
      /\ \A u \in Track : u - issued \in 1..1 => trackId'[u] \in Ids
      /\ \A u \in Track : u - issued \notin 1..1 => trackId'[u] = trackId[u]
  BY <1>1, <1>2
<1>5. \/ queue = <<>> /\ Call(w, "fetchFirst", t) /\ prefetching' = prefetching
      \/ Return(w) /\ prefetching' = Launched({t})
  BY DEF AddSong
<1> HIDE DEF new, t
<1>6. OnlyFrame(w) /\ FrameOK(frame'[w], queue', trackId', issued')
  <2>1. "fetchFirst" \in Labels /\ "fetchFirst" \in Songful
        /\ "idle" \in Plain /\ t <= issued'
    BY <1>1, <1>2 DEF Labels, Songful, Plain, WithSong, t
  <2>2. CASE Call(w, "fetchFirst", t)
    <3>1. /\ OnlyFrame(w) /\ frame'[w].at \in Songful
          /\ frame'[w].song \in Track /\ frame'[w].song <= issued'
      BY <1>1, <2>1, <2>2, CallMoves
    <3> QED
      BY <3>1, FramesOK
  <2>3. CASE Return(w)
    BY <2>1, <2>3, ReturnMoves, FramesOK
  <2> QED
    BY <1>5, <2>2, <2>3
<1>7. prefetching' \subseteq Track /\ \A u \in prefetching' : u <= issued'
  BY <1>1, <1>2, <1>5 DEF Launched, t
<1>8. issued' = issued + Len(new) /\ issued' \in 0..NTracks
  BY <1>1, <1>2, <1>3 DEF t
<1>9. /\ \A u \in Track : u - issued \in 1..Len(new) => trackId'[u] \in Ids
      /\ \A u \in Track : u - issued \notin 1..Len(new) => trackId'[u] = trackId[u]
  BY <1>3, <1>4
<1> QED
  BY <1>1, <1>3, <1>4, <1>6, <1>7, <1>8, <1>9, IssueStep

\* AddSongs adds a playlist.
LEMMA AddSongsStep ==
  ASSUME IInv, NEW w \in Workers, AddSongs(w)
  PROVE  IInv'
<1> DEFINE new == [i \in 1..BatchSize |-> issued + i]
<1>1. /\ issued + BatchSize \in Track
      /\ queue' = Enqueue(queue, new) /\ issued' = issued + BatchSize
      /\ UNCHANGED <<loop, filePath, stream, hinted, commands>>
      /\ \E ids \in [1..BatchSize -> Ids] :
             trackId' = [t \in Track |->
                 IF t - issued \in 1..BatchSize THEN ids[t - issued] ELSE trackId[t]]
  BY DEF AddSongs
<1>2. PICK ids \in [1..BatchSize -> Ids] :
          trackId' = [t \in Track |->
              IF t - issued \in 1..BatchSize THEN ids[t - issued] ELSE trackId[t]]
  BY <1>1
<1>3. /\ issued \in Nat /\ BatchSize \in Nat \ {0}
      /\ \A u \in Track : u \in Nat
      /\ trackId \in [Track -> Ids \cup {None}]
      /\ prefetching \subseteq Track /\ \A u \in prefetching : u <= issued
      /\ queue \in Seq(Track) /\ Sorted(queue)
      /\ \A i \in DOMAIN queue : queue[i] <= issued
  <2>1. /\ issued \in 0..NTracks /\ trackId \in [Track -> Ids \cup {None}]
        /\ prefetching \subseteq Track /\ queue \in Seq(Track)
    BY DEF IInv, TypeOK
  <2>2. Sorted(queue) /\ \A i \in DOMAIN queue : queue[i] <= issued
    BY DEF IInv, QueueInv
  <2>3. \A u \in prefetching : u <= issued
    BY DEF IInv, FileInv
  <2>4. issued \in Nat /\ BatchSize \in Nat \ {0} /\ \A u \in Track : u \in Nat
    BY <2>1, Bounds DEF Track
  <2> QED
    BY <2>1, <2>2, <2>3, <2>4
<1>4. /\ \A i \in 1..BatchSize : issued + i \in Track
      /\ issued' \in 0..NTracks
  BY <1>1, <1>3, Bounds DEF Track
<1>5. /\ new \in Seq(Track) /\ Len(new) = BatchSize
      /\ \A i \in 1..Len(new) : new[i] = issued + i
  <2>1. new \in [1..BatchSize -> Track] /\ BatchSize \in Nat
    BY <1>3, <1>4
  <2>2. new \in Seq(Track)
    BY <2>1, SeqDef
  <2>3. Len(new) = BatchSize
    BY <2>1, <2>2, LenProperties
  <2> QED
    BY <2>2, <2>3
<1>6. /\ trackId' \in [Track -> Ids \cup {None}]
      /\ \A u \in Track : u - issued \in 1..BatchSize => trackId'[u] \in Ids
      /\ \A u \in Track : u - issued \notin 1..BatchSize => trackId'[u] = trackId[u]
  BY <1>2, <1>3
<1>7. /\ new[1] = issued + 1
      /\ \/ queue = <<>> /\ Call(w, "firstLoop", issued + 1) /\ prefetching' = prefetching
         \/ Return(w) /\ prefetching' = Launched({issued + i : i \in 1..BatchSize \cap 1..3})
  <2>1. 1 \in 1..BatchSize /\ new[1] = issued + 1
    BY <1>3
  <2>2. {new[i] : i \in 1..BatchSize \cap 1..3}
            = {issued + i : i \in 1..BatchSize \cap 1..3}
    OBVIOUS
  <2>3. \/ queue = <<>> /\ Call(w, "firstLoop", new[1]) /\ prefetching' = prefetching
        \/ Return(w) /\ prefetching' = Launched({new[i] : i \in 1..BatchSize \cap 1..3})
    BY DEF AddSongs
  <2> HIDE DEF new
  <2> QED
    BY <2>1, <2>2, <2>3
<1> HIDE DEF new
<1>8. OnlyFrame(w) /\ FrameOK(frame'[w], queue', trackId', issued')
  <2>1. CASE queue = <<>> /\ Call(w, "firstLoop", issued + 1)
    <3>1. "firstLoop" \in Labels /\ issued + 1 \in Track
      BY <1>3, <1>4 DEF Labels
    <3>2. /\ OnlyFrame(w) /\ frame'[w].at = "firstLoop"
          /\ frame'[w].song = issued + 1
      BY <2>1, <3>1, CallMoves
    <3>3. issued + 1 \notin Behind(queue')
      BY <1>1, <1>3, <1>5, <2>1, EnqueueSorts
    <3>4. issued + 1 + BatchSize - 1 <= issued' /\ issued + 1 <= issued'
      BY <1>1, <1>3
    <3> QED
      BY <3>1, <3>2, <3>3, <3>4 DEF FrameOK, WithSong
  <2>2. CASE Return(w)
    <3>1. "idle" \in Plain
      BY DEF Plain, WithSong, Labels
    <3> QED
      BY <2>2, <3>1, ReturnMoves, FramesOK
  <2> QED
    BY <1>7, <2>1, <2>2
<1>9. prefetching' \subseteq Track /\ \A u \in prefetching' : u <= issued'
  <2>1. \A i \in 1..BatchSize : issued + i \in Track /\ issued + i <= issued'
    <3> SUFFICES ASSUME NEW i \in 1..BatchSize PROVE issued + i <= issued'
      BY <1>4
    <3>1. issued' = issued + BatchSize /\ issued \in Nat /\ BatchSize \in Nat
      BY <1>1, <1>3
    <3> QED
      BY <3>1
  <2>2. \A u \in prefetching : u <= issued'
    BY <1>1, <1>3
  <2> QED
    BY <1>3, <1>7, <2>1, <2>2 DEF Launched
<1> QED
  BY <1>1, <1>4, <1>5, <1>6, <1>8, <1>9, IssueStep

\* Every step keeps the inductive invariant.
LEMMA NextIInv == IInv /\ [Next]_vars => IInv'
<1> SUFFICES ASSUME IInv, [Next]_vars PROVE IInv'
  OBVIOUS
<1>1. CASE UNCHANGED vars
  BY <1>1 DEF vars, objects, IInv, TypeOK, QueueInv, LoopInv, FileInv, FrameInv
<1>2. ASSUME NEW t \in Track, PrefetchDone(t) PROVE IInv'
  BY <1>2, PrefetchStep
<1>3. ASSUME NEW w \in Workers, User(w) PROVE IInv'
  BY <1>3, UserStep
<1>4. ASSUME NEW w \in Workers, StreamEnd(w) PROVE IInv'
  BY <1>4, StreamingStep
<1>5. ASSUME NEW w \in Workers, Handler(w) PROVE IInv'
  BY <1>5, ReadingStep, RemovingStep, StreamingStep, LoopingStep, FilingStep,
     AddSongStep, AddSongsStep
  DEF Handler, Removes
<1> QED
  BY <1>1, <1>2, <1>3, <1>4, <1>5 DEF Next

\* Every behaviour satisfies the inductive invariant.
THEOREM Invariance == Spec => []IInv
BY InitIInv, NextIInv, PTL DEF Spec

-----------------------------------------------------------------------------

\* Type correctness, for any number of goroutines, tracks and commands.
THEOREM TypeCorrect == Spec => []TypeOK
<1>1. IInv => TypeOK
  BY DEF IInv
<1> QED
  BY <1>1, Invariance, PTL

\* What AddSong and AddSongs add.
LEMMA AddedTracks ==
  ASSUME IInv, NEW w \in Workers, AddSong(w) \/ AddSongs(w)
  PROVE  \E new \in Seq(Track) : /\ queue' = Enqueue(queue, new)
                                 /\ \A i \in 1..Len(new) : new[i] = issued + i
<1>1. CASE AddSong(w)
  <2>1. issued + 1 \in Track /\ queue' = Enqueue(queue, <<issued + 1>>)
    BY <1>1 DEF AddSong
  <2> DEFINE new == <<issued + 1>>
  <2>2. /\ new \in Seq(Track)
        /\ \A i \in 1..Len(new) : new[i] = issued + i
    BY <2>1
  <2> HIDE DEF new
  <2>3. queue' = Enqueue(queue, new)
    BY <2>1 DEF new
  <2> QED
    BY <2>2, <2>3
<1>2. CASE AddSongs(w)
  <2> DEFINE new == [i \in 1..BatchSize |-> issued + i]
  <2>1. issued + BatchSize \in Track /\ queue' = Enqueue(queue, new)
    BY <1>2 DEF AddSongs
  <2>2. issued \in Nat /\ BatchSize \in Nat
    BY StateFacts, Bounds
  <2>3. \A i \in 1..BatchSize : issued + i \in Track
    BY <2>1, <2>2, Bounds DEF Track
  <2>4. new \in [1..BatchSize -> Track]
    BY <2>3
  <2>5. new \in Seq(Track)
    BY <2>2, <2>4, SeqDef
  <2>6. Len(new) = BatchSize
    BY <2>2, <2>4, <2>5, LenProperties
  <2>7. \A i \in 1..Len(new) : new[i] = issued + i
    BY <2>6
  <2> HIDE DEF new
  <2> QED
    BY <2>1, <2>5, <2>7
<1> QED
  BY <1>1, <1>2

\* A track that a step brings into the queue was not issued before.
LEMMA NewcomersAreNew ==
  ASSUME IInv, [Next]_vars
  PROVE  \A t \in ToSet(queue') \ ToSet(queue) : t > issued
<1>1. CASE queue' = queue
  BY <1>1
<1>2. ASSUME NEW w \in Workers, Removes(w)
      PROVE  ToSet(queue') \subseteq ToSet(queue)
  BY <1>2, RemovalsThin DEF Thinned
<1>3. ASSUME NEW w \in Workers, AddSong(w) \/ AddSongs(w)
      PROVE  \A t \in ToSet(queue') \ ToSet(queue) : t > issued
  <2>1. PICK new \in Seq(Track) : /\ queue' = Enqueue(queue, new)
                                  /\ \A i \in 1..Len(new) : new[i] = issued + i
    BY <1>3, AddedTracks
  <2>2. /\ queue \in Seq(Track) /\ Sorted(queue) /\ issued \in Nat
        /\ \A i \in DOMAIN queue : queue[i] <= issued
    BY <1>3, StateFacts DEF IInv, QueueInv
  <2> QED
    BY <2>1, <2>2, EnqueueSorts
<1>4. CASE UNCHANGED vars
  BY <1>1, <1>4 DEF vars
<1>5. ASSUME NEW w \in Workers, User(w) PROVE queue' = queue
  BY <1>5
  DEF User, Play, Playlist, Skip, Stop, SetLoop, RemoveUpNext, Jump, OnIndex,
      VideoChatStarted, VideoChatEnded, Command
<1>6. ASSUME NEW w \in Workers, StreamEnd(w) \/ Handler(w)
      PROVE  queue' = queue \/ Removes(w) \/ AddSong(w) \/ AddSongs(w)
  BY <1>6
  DEF StreamEnd, Handler, Removes, LookUp, FetchFirst, FirstLoop, GetLoop, DecLoop,
      Current, Upcoming, NoSong, Leave, Send, Fetch, FetchFailed, Load, PlayOk,
      Prefetch, LoopTo, Discard
<1>7. ASSUME NEW t \in Track, PrefetchDone(t) PROVE queue' = queue
  BY <1>7 DEF PrefetchDone
<1> QED
  BY <1>1, <1>2, <1>3, <1>4, <1>5, <1>6, <1>7 DEF Next

\* The queue keeps the order in which tracks were added, and no track returns
\* to it, although handlers remove, skip and clear between any two of each
\* other's calls.
THEOREM QueueInOrder == Spec => NoneOvertakesOrReturns
<1> DEFINE A == /\ \A i, j \in DOMAIN queue' : i < j => queue'[i] < queue'[j]
                /\ \A t \in ToSet(queue') \ ToSet(queue) : t > issued
<1>1. IInv /\ [Next]_vars => A
  <2> SUFFICES ASSUME IInv, [Next]_vars PROVE A
    OBVIOUS
  <2>1. Sorted(queue')
    BY NextIInv DEF IInv, QueueInv
  <2> QED
    BY <2>1, NewcomersAreNew DEF Sorted
<1> HIDE DEF A
<1>2. IInv /\ [Next]_vars => [A]_vars
  BY <1>1
<1>3. Spec => [][A]_vars
  BY <1>2, Invariance, PTL DEF Spec
<1> QED
  BY <1>3 DEF A, NoneOvertakesOrReturns

\* Only the playing track has a loop count: the counts that PlayNext, /loop
\* and new playlists write without a lock never end up behind the head.
THEOREM LoopsAtTheHead == Spec => []OnlyTheHeadRepeats
<1>1. IInv => OnlyTheHeadRepeats
  BY DEF IInv, LoopInv, Behind, OnlyTheHeadRepeats
<1> QED
  BY <1>1, Invariance, PTL

\* No track gets, or is streamed from, the file of another TrackID.
THEOREM RightFiles == Spec => []FilesBelongToTracks
<1>1. IInv => FilesBelongToTracks
  BY DEF IInv, FileInv, FilesBelongToTracks
<1> QED
  BY <1>1, Invariance, PTL

-----------------------------------------------------------------------------
\* One handler at a time, and Telegram takes every message.
OneHandler == (\E w \in Workers : Workers = {w}) /\ "send" \notin Faults

\* How often a track is still to start.
Owed(t) == due[t] - plays[t]

\* What waits or is not yet added is to be played for the first time.
PlaysInv ==
    /\ plays \in [Track -> Nat] /\ due \in [Track -> Int]
    /\ \A t \in Track : t \in Behind(queue) \/ t > issued => plays[t] = 0 /\ due[t] = 1

\* The head plays, and its loop count is what it is owed.
HeadCounts == queue # <<>> => loop[Head(queue)] = Owed(Head(queue))
HeadPlays == queue # <<>> => /\ stream # None /\ stream.track = Head(queue)
                             /\ HeadCounts

\* Track t is the head, and is about to start, once more than its loop count.
AboutToPlay(t) == queue # <<>> => Head(queue) = t /\ Owed(t) = loop[t] + 1

Settled == {"idle", "lookup", "addSong", "addSongs", "loopTo", "removeTrack",
            "prefetch"}
FirstTrack == {"fetchFirst", "loadFirst", "attemptFirst", "dropFirst"}
Starting == {"send", "fetch", "failed", "load", "attempt",
             "fetchFirst", "loadFirst", "attemptFirst"}

\* What holds at each place of the one handler.
PlaceOK(f) ==
    /\ f.at \in Settled => HeadPlays
    /\ f.at = "removeTrack" => f.arg > 0
    /\ f.at \in {"trim", "getLoop"} => HeadCounts
    /\ f.at = "firstLoop" => (queue # <<>> => Head(queue) = f.song /\ Owed(f.song) = 1)
    /\ f.at = "decLoop" => HeadCounts /\ (queue # <<>> => loop[Head(queue)] = f.arg)
    /\ f.at = "current" => (queue # <<>> => AboutToPlay(Head(queue)))
    /\ f.at = "pop" => Len(queue) > 1 /\ queue[2] = f.song
    /\ f.at = "popLast" => Len(queue) < 2
    /\ f.at \in {"noSong", "leave"} => queue = <<>>
    /\ f.at \in FirstTrack => Len(queue) < 2
    /\ f.at \in Starting => AboutToPlay(f.song)

SeqInv == OneHandler /\ IInv /\ PlaysInv /\ \A w \in Workers : PlaceOK(frame[w])

\* What the invariant says of the queue and of the one handler.
LEMMA SeqFacts ==
  ASSUME SeqInv, NEW w \in Workers
  PROVE  /\ IInv /\ PlaysInv /\ PlaceOK(frame[w]) /\ "send" \notin Faults
         /\ \A v \in Workers : v = w
         /\ Len(queue) \in Nat
         /\ queue # <<>> => Len(queue) > 0 /\ Head(queue) = queue[1]
                            /\ Head(queue) \in Track
         /\ \A t \in Track : loop[t] \in Nat /\ plays[t] \in Nat /\ due[t] \in Int
         /\ frame[w] \in Frame
<1>1. IInv /\ PlaysInv /\ PlaceOK(frame[w]) /\ OneHandler
  BY DEF SeqInv
<1>2. "send" \notin Faults /\ \A v \in Workers : v = w
  BY <1>1 DEF OneHandler
<1>3. Len(queue) \in Nat /\ frame[w] \in Frame /\ queue \in Seq(Track)
  BY <1>1, StateFacts
<1>4. queue # <<>> => Len(queue) > 0 /\ Head(queue) = queue[1] /\ queue[1] \in Track
  BY <1>3, QueueFacts
<1>5. \A t \in Track : loop[t] \in Nat /\ plays[t] \in Nat /\ due[t] \in Int
  BY <1>1, Bounds DEF IInv, TypeOK, PlaysInv
<1> QED
  BY <1>1, <1>2, <1>3, <1>4, <1>5

\* With one handler, its place is all there is to show.
LEMMA SeqStep ==
  ASSUME SeqInv, NEW w \in Workers, IInv', PlaysInv', PlaceOK(frame[w])'
  PROVE  SeqInv'
<1>1. \A v \in Workers : v = w
  BY SeqFacts
<1>2. OneHandler'
  BY DEF SeqInv, OneHandler
<1> QED
  BY <1>1, <1>2 DEF SeqInv

sound == <<queue, loop, issued, stream, plays, due>>

\* A step that moves the handler and leaves all that the invariant speaks of
\* alone.
LEMMA MovingStep ==
  ASSUME SeqInv, NEW w \in Workers, IInv', UNCHANGED sound,
         NEW f, f = frame'[w], PlaceOK(f)
  PROVE  SeqInv'
<1>1. PlaysInv'
  BY DEF sound, SeqInv, PlaysInv, Behind
<1>2. PlaceOK(frame[w])'
  BY DEF sound, PlaceOK, HeadPlays, HeadCounts, AboutToPlay, Owed
<1> QED
  BY <1>1, <1>2, SeqStep

-----------------------------------------------------------------------------
\* The commands keep the invariant: they leave everything to the handler.
LEMMA SeqUserStep ==
  ASSUME SeqInv, NEW w \in Workers, IInv', User(w), UNCHANGED <<plays, due>>
  PROVE  SeqInv'
<1>1. /\ IInv /\ frame \in [Workers -> Frame] /\ Len(queue) \in Nat
      /\ frame[w].at = "idle" => HeadPlays /\ HeadCounts
  BY SeqFacts DEF IInv, TypeOK, PlaceOK, Settled, HeadPlays, HeadCounts
<1>2. ASSUME NEW kind, Command(w, kind)
      PROVE  UNCHANGED sound /\ HeadPlays /\ HeadCounts
  BY <1>1, <1>2 DEF Command, At, sound, objects
<1>3. ASSUME NEW kind, Command(w, kind), NEW f, f = frame'[w],
             \/ f.at \in Settled /\ f.at # "removeTrack"
             \/ f.at = "removeTrack" /\ f.arg > 0
             \/ f.at \in {"getLoop", "trim", "clear", "clearOnly", "discard"}
      PROVE  SeqInv'
  <2>1. PlaceOK(f)
    BY <1>2, <1>3 DEF PlaceOK, Settled, FirstTrack, Starting
  <2> QED
    BY <1>2, <1>3, <2>1, MovingStep
<1>4. ASSUME NEW kind, Command(w, kind),
             NEW label \in {"addSongs", "getLoop", "clear", "clearOnly", "discard"},
             Goto(w, label)
      PROVE  SeqInv'
  <2> PICK f : f = frame'[w]
    OBVIOUS
  <2>1. f.at = label
    BY <1>1, <1>4, GotoMoves DEF Labels
  <2> QED
    BY <1>3, <1>4, <2>1 DEF Settled
<1>5. ASSUME NEW kind, Command(w, kind), NEW label, NEW g,
             \/ label \in {"lookup", "loopTo"}
             \/ label \in {"removeTrack", "trim"} /\ g.arg > 0,
             g.at = label,
             frame' = [frame EXCEPT ![w] = g]
      PROVE  SeqInv'
  <2>1. frame'[w] = g
    BY <1>1, <1>5
  <2> QED
    BY <1>3, <1>5, <2>1 DEF Settled
<1>6. CASE Play(w)
  <2> PICK id \in Ids :
           frame' = [frame EXCEPT ![w] = [Idle EXCEPT !.at = "lookup", !.path = id]]
    BY <1>6 DEF Play
  <2> DEFINE g == [Idle EXCEPT !.at = "lookup", !.path = id]
  <2>1. g.at = "lookup"
    BY DEF Idle
  <2> HIDE DEF g
  <2> QED
    BY <1>5, <1>6, <2>1 DEF Play, g
<1>7. CASE SetLoop(w)
  <2> PICK n \in 0..MaxLoop :
           frame' = [frame EXCEPT ![w] = [Idle EXCEPT !.at = "loopTo", !.arg = n]]
    BY <1>7 DEF SetLoop
  <2> DEFINE g == [Idle EXCEPT !.at = "loopTo", !.arg = n]
  <2>1. g.at = "loopTo"
    BY DEF Idle
  <2> HIDE DEF g
  <2> QED
    BY <1>5, <1>7, <2>1 DEF SetLoop, g
<1>8. ASSUME NEW kind, NEW label \in {"removeTrack", "trim"}, NEW last \in Int,
             OnIndex(w, kind, label, last)
      PROVE  SeqInv'
  <2> PICK n \in 1..last :
           frame' = [frame EXCEPT ![w] = [Idle EXCEPT !.at = label, !.arg = n]]
    BY <1>8 DEF OnIndex
  <2> DEFINE g == [Idle EXCEPT !.at = label, !.arg = n]
  <2>1. g.at = label /\ g.arg > 0
    BY DEF Idle
  <2> HIDE DEF g
  <2> QED
    BY <1>5, <1>8, <2>1 DEF OnIndex, g
<1>9. CASE RemoveUpNext(w) \/ Jump(w)
  BY <1>1, <1>8, <1>9, SMTT(30) DEF RemoveUpNext, Jump
<1>10. CASE \/ Playlist(w) \/ Skip(w) \/ Stop(w)
            \/ VideoChatStarted(w) \/ VideoChatEnded(w)
  BY <1>4, <1>10 DEF Playlist, Skip, Stop, VideoChatStarted, VideoChatEnded
<1> QED
  BY <1>6, <1>7, <1>9, <1>10 DEF User

\* So do PlayNext's steps that read the queue, and the others that change
\* nothing but their frame.
LEMMA SeqReadingStep ==
  ASSUME SeqInv, NEW w \in Workers, IInv', UNCHANGED <<plays, due>>,
         \/ LookUp(w) \/ GetLoop(w) \/ Current(w) \/ Upcoming(w)
         \/ NoSong(w) \/ Send(w) \/ Load(w) \/ Prefetch(w)
  PROVE  SeqInv'
<1>1. UNCHANGED sound
  BY DEF LookUp, GetLoop, Current, Upcoming, NoSong, Send, Load, Prefetch,
         sound, objects, outside
<1> PICK f : f = frame'[w]
  OBVIOUS
<1>2. IInv /\ PlaysInv /\ PlaceOK(frame[w]) /\ frame \in [Workers -> Frame]
  BY SeqFacts DEF IInv, TypeOK
<1>3. SUFFICES PlaceOK(f)
  BY <1>1, MovingStep
<1>4. ASSUME Return(w) PROVE f.at = "idle"
  BY <1>2, <1>4, ReturnMoves
<1>5. ASSUME NEW label \in Labels, Goto(w, label)
      PROVE  f.at = label /\ f.song = frame[w].song
  BY <1>2, <1>5, GotoMoves
<1>6. ASSUME NEW label \in Labels, NEW song \in Track \cup {None}, Call(w, label, song)
      PROVE  f.at = label /\ f.song = song
  BY <1>2, <1>6, CallMoves
<1>7. CASE LookUp(w)
  <2>1. f.at \in {"idle", "addSong"}
    BY <1>4, <1>5, <1>7 DEF LookUp, Labels
  <2> QED
    BY <1>2, <1>7, <2>1
    DEF LookUp, At, PlaceOK, Settled, FirstTrack, Starting
<1>8. CASE GetLoop(w)
  <2> DEFINE n == IF queue = <<>> THEN 0 ELSE loop[Head(queue)]
             g == [Idle EXCEPT !.at = IF n > 0 THEN "decLoop" ELSE "upcoming",
                               !.arg = n]
  <2>1. frame' = [frame EXCEPT ![w] = g]
    BY <1>8 DEF GetLoop
  <2>2. g.at = (IF n > 0 THEN "decLoop" ELSE "upcoming") /\ g.arg = n
    BY DEF Idle
  <2>3. queue # <<>> => n = loop[Head(queue)]
    OBVIOUS
  <2>4. queue = <<>> => n = 0
    OBVIOUS
  <2> HIDE DEF n, g
  <2>5. f = g
    BY <1>2, <2>1
  <2> QED
    BY <1>2, <1>8, <2>2, <2>3, <2>4, <2>5
    DEF GetLoop, At, PlaceOK, HeadCounts, Settled, FirstTrack, Starting
<1>9. CASE Current(w)
  <2>1. IF queue = <<>> THEN f.at = "upcoming" ELSE f.at = "send" /\ f.song = Head(queue)
    BY <1>5, <1>6, <1>9, SeqFacts DEF Current, Labels
  <2> QED
    BY <1>2, <1>9, <2>1
    DEF Current, At, PlaceOK, AboutToPlay, Settled, FirstTrack, Starting
<1>10. CASE Upcoming(w)
  <2>1. Len(queue) \in Nat /\ (~ Len(queue) < 2 => queue[2] \in Track)
    BY <1>2, StateFacts
  <2>2. IF Len(queue) < 2 THEN f.at = "popLast" ELSE f.at = "pop" /\ f.song = queue[2]
    BY <1>5, <1>6, <1>10, <2>1 DEF Upcoming, Labels
  <2> QED
    BY <2>1, <2>2 DEF PlaceOK, Settled, FirstTrack, Starting
<1>11. CASE NoSong(w)
  <2>1. f.at = "clear"
    BY <1>6, <1>11, SeqFacts DEF NoSong, Labels
  <2> QED
    BY <2>1 DEF PlaceOK, Settled, FirstTrack, Starting
<1>12. CASE Send(w)
  <2>1. f.at = "fetch" /\ f.song = frame[w].song
    BY <1>5, <1>12, SeqFacts DEF Send, Labels
  <2> QED
    BY <1>2, <1>12, <2>1
    DEF Send, At, PlaceOK, Settled, FirstTrack, Starting
<1>13. CASE Load(w)
  <2>1. /\ f.at = IF At(w, "load") THEN "attempt" ELSE "attemptFirst"
        /\ f.song = frame[w].song
    BY <1>2, <1>13 DEF Load, Frame
  <2> QED
    BY <1>2, <1>13, <2>1
    DEF Load, At, PlaceOK, Settled, FirstTrack, Starting
<1>14. CASE Prefetch(w)
  <2>1. f.at = "idle"
    BY <1>4, <1>14 DEF Prefetch
  <2> QED
    BY <1>2, <1>14, <2>1
    DEF Prefetch, At, PlaceOK, Settled, FirstTrack, Starting
<1> QED
  BY <1>7, <1>8, <1>9, <1>10, <1>11, <1>12, <1>13, <1>14

\* A step that takes tracks out of the queue, if anything, and moves the
\* handler.
LEMMA ThinningStep ==
  ASSUME SeqInv, NEW w \in Workers, IInv', Behind(queue') \subseteq Behind(queue),
         UNCHANGED <<objects, outside, plays, due>>, PlaceOK(frame[w])'
  PROVE  SeqInv'
<1>1. PlaysInv'
  BY DEF SeqInv, PlaysInv, objects, outside
<1> QED
  BY <1>1, SeqStep

\* So do the steps that take tracks out of the queue: the head goes only when
\* the next one is about to play, or was the last.
LEMMA SeqRemovingStep ==
  ASSUME SeqInv, NEW w \in Workers, IInv', UNCHANGED <<plays, due>>, Removes(w)
  PROVE  SeqInv'
<1>1. UNCHANGED <<objects, outside>>
  BY DEF Removes, DropFirst, Pop, PopLast, Clear, PlayFails, RemoveTrack, Trim
<1>2. /\ IInv /\ PlaysInv /\ PlaceOK(frame[w]) /\ frame \in [Workers -> Frame]
      /\ queue \in Seq(Track) /\ Sorted(queue) /\ frame[w].arg \in Nat
      /\ frame[w] \in Frame /\ Len(queue) \in Nat
  BY SeqFacts, StateFacts DEF IInv, TypeOK, QueueInv, Frame
<1>3. Behind(queue') \subseteq Behind(queue)
  BY <1>2, RemovalsThin DEF Thinned
<1> PICK f : f = frame'[w]
  OBVIOUS
<1> SUFFICES PlaceOK(f)'
  BY <1>1, <1>3, ThinningStep DEF PlaceOK
<1>4. ASSUME Return(w) PROVE f.at = "idle"
  BY <1>2, <1>4, ReturnMoves
<1>5. ASSUME NEW label \in Labels, Goto(w, label)
      PROVE  f.at = label /\ f.song = frame[w].song
  BY <1>2, <1>5, GotoMoves
<1>6. ASSUME queue' = <<>>,
             f.at \in Labels \ {"pop", "removeTrack"}
      PROVE  PlaceOK(f)'
  <2>1. Len(queue') = 0
    BY <1>6
  <2> QED
    BY <1>6, <2>1 DEF PlaceOK, HeadPlays, HeadCounts, AboutToPlay, Labels
<1>7. Len(queue) < 2 => RemoveCurrent(queue) = <<>>
  BY <1>2, HeadTailProperties, EmptySeq DEF RemoveCurrent
<1>8. CASE DropFirst(w) \/ PopLast(w)
  <2>1. f.at \in {"idle", "noSong"} /\ queue' = <<>>
    BY <1>2, <1>4, <1>5, <1>7, <1>8
    DEF DropFirst, PopLast, At, PlaceOK, FirstTrack, Labels
  <2> QED
    BY <1>6, <2>1 DEF Labels
<1>9. CASE Clear(w)
  <2>1. f.at \in {"idle", "leave"} /\ queue' = <<>>
    BY <1>4, <1>5, <1>9 DEF Clear, Labels
  <2> QED
    BY <1>6, <2>1 DEF Labels
<1>10. CASE Pop(w)
  <2>1. f.at = "send" /\ f.song = frame[w].song
    BY <1>5, <1>10 DEF Pop, Labels
  <2>2. Len(queue) > 1 /\ queue[2] = f.song
    BY <1>2, <1>10, <2>1 DEF Pop, At, PlaceOK
  <2>3. /\ queue # <<>> /\ queue' = Tail(queue)
        /\ Tail(queue) # <<>> /\ Head(Tail(queue)) = queue[2]
    BY <1>2, <1>10, <2>2, HeadTailProperties, EmptySeq DEF Pop, RemoveCurrent
  <2>4. queue[2] \in Behind(queue) /\ queue[2] \in Track
    BY <1>2, <2>2, QueueFacts DEF Behind
  <2>5. loop[f.song] = 0 /\ plays[f.song] = 0 /\ due[f.song] = 1
    BY <1>2, <2>2, <2>4 DEF IInv, LoopInv, PlaysInv
  <2>6. AboutToPlay(f.song)'
    BY <1>1, <2>2, <2>3, <2>5 DEF AboutToPlay, Owed, objects
  <2> QED
    BY <2>1, <2>6 DEF PlaceOK, Settled, FirstTrack, Starting
<1>11. CASE PlayFails(w)
  <2>1. CASE f.at \in {"idle", "dropFirst"}
    BY <1>6, <1>11, <2>1 DEF PlayFails, Labels
  <2>2. CASE frame' = [frame EXCEPT ![w].tries = @ + 1]
    <3>1. f.at = frame[w].at
      BY <1>2, <2>2 DEF Frame
    <3>2. queue' = <<>> /\ f.at \in {"attempt", "attemptFirst"}
      BY <1>11, <3>1 DEF PlayFails, Attempting, At
    <3> QED
      BY <1>6, <3>2 DEF Labels
  <2> QED
    BY <1>4, <1>5, <1>11, <2>1, <2>2 DEF PlayFails, Labels
<1>12. ASSUME queue' = <<>> \/ (queue # <<>> /\ Head(queue') = Head(queue)), HeadCounts
       PROVE  HeadCounts' /\ (HeadPlays => HeadPlays')
  BY <1>1, <1>12 DEF HeadCounts, HeadPlays, Owed, objects, outside
<1>13. CASE RemoveTrack(w)
  <2>1. f.at = "idle" /\ HeadPlays /\ HeadCounts /\ frame[w].arg > 0
    BY <1>2, <1>4, <1>13
    DEF RemoveTrack, At, PlaceOK, Settled, HeadPlays, HeadCounts
  <2>2. queue' = RemoveIndex(queue, frame[w].arg)
    BY <1>13 DEF RemoveTrack
  <2>3. queue' = <<>> \/ (queue # <<>> /\ Head(queue') = Head(queue))
    BY <1>2, <2>1, <2>2 DEF RemoveIndex
  <2> QED
    BY <1>12, <2>1, <2>3 DEF PlaceOK, Settled, FirstTrack, Starting
<1>14. CASE Trim(w)
  <2>1. f.at = "getLoop" /\ HeadCounts
    BY <1>2, <1>5, <1>14 DEF Trim, At, PlaceOK, Labels
  <2>2. queue' = TrimBefore(queue, frame[w].arg)
    BY <1>14 DEF Trim
  <2>3. queue' = <<>> \/ (queue # <<>> /\ Head(queue') = Head(queue))
    BY <1>2, <2>2, EmptySeq DEF TrimBefore
  <2> QED
    BY <1>12, <2>1, <2>3 DEF PlaceOK, Settled, FirstTrack, Starting
<1> QED
  BY <1>8, <1>9, <1>10, <1>11, <1>13, <1>14 DEF Removes

\* The steps that end or begin a stream.
LEMMA SeqStreamingStep ==
  ASSUME SeqInv, NEW w \in Workers, IInv',
         \/ (StreamEnd(w) \/ Leave(w) \/ Discard(w)) /\ UNCHANGED <<plays, due>>
         \/ Played(w)
  PROVE  SeqInv'
<1>1. /\ IInv /\ PlaysInv /\ PlaceOK(frame[w]) /\ frame \in [Workers -> Frame]
      /\ Len(queue) \in Nat
  BY SeqFacts DEF IInv, TypeOK
<1>2. UNCHANGED <<queue, loop, issued, due>>
  BY DEF StreamEnd, Leave, Discard, Played, PlayOk, objects
<1> PICK f : f = frame'[w]
  OBVIOUS
<1>3. SUFFICES PlaysInv' /\ PlaceOK(f)'
  BY SeqStep DEF PlaceOK
<1>4. CASE (StreamEnd(w) \/ Leave(w) \/ Discard(w)) /\ UNCHANGED <<plays, due>>
  <2>1. stream' = None
    BY <1>4 DEF StreamEnd, Leave, Discard
  <2>2. PlaysInv'
    BY <1>1, <1>2, <1>4, <2>1 DEF PlaysInv, Behind
  <2>3. CASE StreamEnd(w)
    <3>1. f.at = "getLoop"
      BY <1>1, <2>3, GotoMoves DEF StreamEnd, Labels
    <3>2. HeadCounts'
      BY <1>1, <1>2, <1>4, <2>3
      DEF StreamEnd, At, PlaceOK, Settled, HeadPlays, HeadCounts, Owed
    <3> QED
      BY <2>2, <3>1, <3>2 DEF PlaceOK, Settled, FirstTrack, Starting
  <2>4. CASE Leave(w)
    <3>1. f.at = "idle" /\ queue' = <<>>
      BY <1>1, <1>2, <2>4, ReturnMoves DEF Leave, At, PlaceOK
    <3> QED
      BY <2>2, <3>1 DEF PlaceOK, HeadPlays, FirstTrack, Starting
  <2>5. CASE Discard(w)
    <3>1. f.at = "clearOnly"
      BY <1>1, <2>5, GotoMoves DEF Discard, Labels
    <3> QED
      BY <2>2, <3>1 DEF PlaceOK, Settled, FirstTrack, Starting
  <2> QED
    BY <1>4, <2>3, <2>4, <2>5
<1>5. CASE Played(w)
  <2> DEFINE t == frame[w].song
  <2>1. /\ plays' = [plays EXCEPT ![t] = @ + 1] /\ Attempting(w)
        /\ stream' = [track |-> t, path |-> frame[w].path]
        /\ Return(w) \/ Goto(w, "prefetch")
    BY <1>5 DEF Played, PlayOk
  <2>2. t \in Track /\ t <= issued /\ AboutToPlay(t)
    BY <1>1, <2>1, StateFacts
    DEF Attempting, At, PlaceOK, FrameOK, WithSong, Starting
  <2>3. f.at \in {"idle", "prefetch"}
    BY <1>1, <2>1, GotoMoves, ReturnMoves DEF Labels
  <2> HIDE DEF t
  <2>4. /\ plays \in [Track -> Nat] /\ due \in [Track -> Int] /\ issued \in Nat
        /\ \A u \in Track : u \in Nat
    BY <1>1, StateFacts, Bounds DEF PlaysInv, Track
  <2>5. plays' \in [Track -> Nat] /\ plays'[t] = plays[t] + 1
        /\ \A u \in Track : u # t => plays'[u] = plays[u]
    BY <2>1, <2>2, <2>4
  <2>6. t \notin Behind(queue)
    <3> SUFFICES ASSUME NEW i \in DOMAIN queue \ {1}, queue[i] = t PROVE FALSE
      BY DEF Behind
    <3>1. queue \in Seq(Track) /\ Sorted(queue)
      BY <1>1 DEF IInv, TypeOK, QueueInv
    <3>2. 1 \in DOMAIN queue /\ i \in DOMAIN queue /\ 1 < i /\ Head(queue) = queue[1]
      BY <3>1, QueueFacts
    <3>3. queue[1] < queue[i] /\ queue[1] = t /\ t \in Nat
      BY <2>2, <2>4, <3>1, <3>2 DEF Sorted, AboutToPlay
    <3> QED
      BY <3>3
  <2>7. PlaysInv'
    <3>1. \A u \in Track : u \in Behind(queue) \/ u > issued
                               => plays'[u] = 0 /\ due[u] = 1
      BY <1>1, <2>2, <2>4, <2>5, <2>6 DEF PlaysInv
    <3> QED
      BY <1>2, <2>4, <2>5, <3>1 DEF PlaysInv, Behind
  <2>8. HeadPlays'
    <3>1. stream' # None /\ stream'.track = t
      <4>1. frame[w].path \in Ids \cup {NoPath}
        BY StateFacts, <1>1 DEF Frame
      <4> QED
        BY <2>1, <2>2, <4>1, Outsiders
    <3>2. queue # <<>> => Head(queue) = t /\ loop[t] = due[t] - plays'[t]
      BY <2>2, <2>4, <2>5, SeqFacts DEF AboutToPlay, Owed
    <3> QED
      BY <1>2, <3>1, <3>2 DEF HeadPlays, HeadCounts, Owed
  <2> QED
    BY <2>3, <2>7, <2>8 DEF PlaceOK, FirstTrack, Starting
<1> QED
  BY <1>4, <1>5

\* The steps that set a loop count.
LEMMA SeqLoopingStep ==
  ASSUME SeqInv, NEW w \in Workers, IInv',
         \/ (FirstLoop(w) \/ DecLoop(w)) /\ UNCHANGED <<plays, due>>
         \/ LoopIsSet(w)
  PROVE  SeqInv'
<1>1. /\ IInv /\ PlaysInv /\ PlaceOK(frame[w]) /\ frame \in [Workers -> Frame]
      /\ loop \in [Track -> 0..MaxLoop] /\ plays \in [Track -> Nat]
      /\ due \in [Track -> Int] /\ frame[w].arg \in Nat
      /\ queue # <<>> => Head(queue) \in Track
  BY SeqFacts DEF IInv, TypeOK, PlaysInv, Frame
<1>2. UNCHANGED <<queue, issued, stream, plays>>
  BY DEF FirstLoop, DecLoop, LoopIsSet, LoopTo, outside
<1> PICK f : f = frame'[w]
  OBVIOUS
<1>3. SUFFICES PlaysInv' /\ PlaceOK(f)'
  BY SeqStep DEF PlaceOK
<1>4. CASE FirstLoop(w) /\ UNCHANGED <<plays, due>>
  <2> DEFINE t == frame[w].song
  <2>1. /\ f.at = "getLoop" /\ loop' = [loop EXCEPT ![t] = 1]
    BY <1>1, <1>4, GotoMoves DEF FirstLoop, Labels
  <2>2. t \in Track /\ (queue # <<>> => Head(queue) = t /\ Owed(t) = 1)
    BY <1>1, <1>4, StateFacts DEF FirstLoop, At, PlaceOK, FrameOK, WithSong
  <2> HIDE DEF t
  <2>3. HeadCounts'
    BY <1>1, <1>2, <1>4, <2>1, <2>2 DEF HeadCounts, Owed
  <2>4. PlaysInv'
    BY <1>1, <1>2, <1>4 DEF PlaysInv, Behind
  <2> QED
    BY <2>1, <2>3, <2>4 DEF PlaceOK, Settled, FirstTrack, Starting
<1>5. CASE DecLoop(w) /\ UNCHANGED <<plays, due>>
  <2> DEFINE n == frame[w].arg
  <2>1. f.at = "current" /\ SetLoopCount(n - 1)
    BY <1>1, <1>5, GotoMoves DEF DecLoop, Labels
  <2>2. queue # <<>> => loop[Head(queue)] = n /\ n = Owed(Head(queue))
    BY <1>1, <1>5 DEF DecLoop, At, PlaceOK, HeadCounts
  <2>3. n \in Nat /\ (queue # <<>> => loop'[Head(queue)] = n - 1)
    BY <1>1, <2>1 DEF SetLoopCount
  <2> HIDE DEF n
  <2>4. queue # <<>> => Owed(Head(queue)) = (n - 1) + 1
    BY <2>2, <2>3
  <2>5. queue # <<>> => AboutToPlay(Head(queue))'
    BY <1>2, <1>5, <2>3, <2>4 DEF AboutToPlay, Owed
  <2>6. PlaysInv'
    BY <1>1, <1>2, <1>5 DEF PlaysInv, Behind
  <2> QED
    BY <1>2, <2>1, <2>5, <2>6 DEF PlaceOK, Settled, FirstTrack, Starting
<1>6. CASE LoopIsSet(w)
  <2> DEFINE n == frame[w].arg
             h == Head(queue)
  <2>1. /\ f.at = "idle" /\ SetLoopCount(n) /\ HeadPlays
        /\ IF queue = <<>> THEN due' = due ELSE due' = [due EXCEPT ![h] = plays[h] + n]
    BY <1>1, <1>6, ReturnMoves DEF LoopIsSet, LoopTo, At, PlaceOK, Settled
  <2>2. queue # <<>> => /\ h \in Track /\ stream # None /\ stream.track = h
                        /\ h \notin Behind(queue) /\ h <= issued
    <3>1. queue \in Seq(Track) /\ Sorted(queue) /\ \A i \in DOMAIN queue : queue[i] <= issued
      BY <1>1 DEF IInv, TypeOK, QueueInv
    <3>2. queue # <<>> => h \notin Behind(queue) /\ h <= issued
      BY <3>1, HeadNotBehind, QueueFacts
    <3> QED
      BY <1>1, <2>1, <3>2 DEF HeadPlays
  <2>3. queue # <<>> => loop'[h] = n /\ due'[h] = plays[h] + n
    BY <1>1, <2>1 DEF SetLoopCount
  <2>4. /\ due' \in [Track -> Int]
        /\ \A u \in Track : (queue # <<>> /\ u = h) \/ due'[u] = due[u]
    BY <1>1, <2>1
  <2> HIDE DEF n, h
  <2>5. \A u \in Track : u \in Behind(queue) \/ u > issued => due'[u] = due[u]
    <3>1. \A u \in Track : u \in Nat
      BY Bounds DEF Track
    <3>2. issued \in Nat
      BY <1>1, StateFacts
    <3> QED
      BY <2>2, <2>4, <3>1, <3>2
  <2>6. PlaysInv'
    BY <1>1, <1>2, <2>4, <2>5 DEF PlaysInv, Behind
  <2>7. HeadPlays'
    BY <1>1, <1>2, <2>2, <2>3 DEF HeadPlays, HeadCounts, Owed, h, n
  <2> QED
    BY <2>1, <2>6, <2>7 DEF PlaceOK, FirstTrack, Starting
<1> QED
  BY <1>4, <1>5, <1>6

\* The steps that end a download: the track is played, or given up, or its
\* start is lost.
LEMMA SeqFilingStep ==
  ASSUME SeqInv, NEW w \in Workers, IInv',
         \/ (FetchFirst(w) \/ Fetch(w)) /\ UNCHANGED <<plays, due>>
         \/ StartIsLost(w)
  PROVE  SeqInv'
<1> PICK t : t = frame[w].song
  OBVIOUS
<1>1. /\ IInv /\ PlaysInv /\ PlaceOK(frame[w])
      /\ plays \in [Track -> Nat] /\ due \in [Track -> Int]
      /\ queue \in Seq(Track) /\ Sorted(queue)
  BY SeqFacts DEF IInv, TypeOK, QueueInv, PlaysInv
<1>2. UNCHANGED <<queue, loop, trackId, issued, stream, plays>>
  BY DEF FetchFirst, Fetch, StartIsLost, FetchFailed, outside
<1>3. t \in Track /\ t <= issued
  BY <1>1, StateFacts
  DEF FetchFirst, Fetch, StartIsLost, FetchFailed, At, FrameOK, WithSong
<1>4. AboutToPlay(t) /\ (At(w, "fetchFirst") => Len(queue) < 2)
  BY <1>1 DEF FetchFirst, Fetch, StartIsLost, FetchFailed, At, PlaceOK, Starting, FirstTrack
<1> PICK f : f = frame'[w]
  OBVIOUS
<1>5. SUFFICES PlaysInv' /\ PlaceOK(f)'
  BY SeqStep DEF PlaceOK
<1>6. ASSUME NEW label \in Labels, Goto(w, label) PROVE f.at = label /\ f.song = t
  BY <1>1, <1>6, GotoMoves
<1>7. ASSUME due' = due,
             \/ f.at \in {"load", "failed"} /\ f.song = t
             \/ f.at = "loadFirst" /\ f.song = t /\ At(w, "fetchFirst")
             \/ f.at = "dropFirst" /\ At(w, "fetchFirst")
      PROVE  PlaysInv' /\ PlaceOK(f)'
  <2>1. PlaysInv'
    BY <1>1, <1>2, <1>7 DEF PlaysInv, Behind
  <2>2. AboutToPlay(t)' /\ (At(w, "fetchFirst") => Len(queue') < 2)
    BY <1>2, <1>4, <1>7 DEF AboutToPlay, Owed
  <2> QED
    BY <1>7, <2>1, <2>2 DEF PlaceOK, Settled, FirstTrack, Starting
<1>8. CASE (FetchFirst(w) \/ Fetch(w)) /\ UNCHANGED <<plays, due>>
  BY <1>6, <1>7, <1>8 DEF FetchFirst, Fetch, Labels
<1>9. CASE StartIsLost(w)
  <2>1. CASE Goto(w, "getLoop")
    <3>1. f.at = "getLoop" /\ due' = [due EXCEPT ![t] = @ - 1]
      BY <1>6, <1>9, <2>1 DEF StartIsLost, At, Labels
    <3>2. due' \in [Track -> Int] /\ due'[t] = due[t] - 1
      BY <1>1, <1>3, <3>1
    <3>3. HeadCounts'
      <4> SUFFICES ASSUME queue # <<>> PROVE loop[t] = due'[t] - plays[t]
        BY <1>2, <1>4 DEF HeadCounts, AboutToPlay, Owed
      <4>1. due[t] - plays[t] = loop[t] + 1 /\ loop[t] \in Nat /\ due[t] \in Int
            /\ plays[t] \in Nat
        BY <1>3, <1>4, SeqFacts DEF AboutToPlay, Owed
      <4> QED
        BY <3>2, <4>1
    <3>4. PlaysInv'
      <4>1. t \notin Behind(queue)
        BY <1>1, <1>4, HeadNotBehind, EmptySeq DEF AboutToPlay, Behind
      <4>2. \A u \in Track : u > issued => u # t
        <5>1. t \in Nat /\ issued \in Nat
          BY <1>1, <1>3, StateFacts, Bounds DEF Track
        <5> QED
          BY <1>3, <5>1
      <4>3. \A u \in Track : u # t => due'[u] = due[u]
        BY <1>1, <3>1
      <4>4. \A u \in Track : u \in Behind(queue) \/ u > issued
                                => plays[u] = 0 /\ due'[u] = 1
        BY <1>1, <4>1, <4>2, <4>3 DEF PlaysInv
      <4> QED
        BY <1>1, <1>2, <3>2, <4>4 DEF PlaysInv, Behind
    <3> QED
      BY <3>1, <3>3, <3>4 DEF PlaceOK, Settled, FirstTrack, Starting
  <2>2. CASE Goto(w, "load")
    <3>1. f.at = "load" /\ f.song = t /\ due' = due
      BY <1>6, <1>9, <2>2 DEF StartIsLost, At, Labels
    <3> QED
      BY <1>7, <3>1
  <2> QED
    BY <1>9, <2>1, <2>2 DEF StartIsLost, FetchFailed
<1> QED
  BY <1>8, <1>9

\* Tracks are added unplayed, and none of them becomes the head of a queue
\* that is not empty.
LEMMA SeqIssueStep ==
  ASSUME SeqInv, NEW w \in Workers, IInv', UNCHANGED <<plays, due>>,
         AddSong(w) \/ AddSongs(w)
  PROVE  SeqInv'
<1> DEFINE k == IF At(w, "addSong") THEN 1 ELSE BatchSize
           new == IF At(w, "addSong") THEN <<issued + 1>>
                  ELSE [i \in 1..BatchSize |-> issued + i]
<1>1. /\ IInv /\ PlaysInv /\ PlaceOK(frame[w]) /\ frame \in [Workers -> Frame]
      /\ queue \in Seq(Track) /\ Sorted(queue) /\ issued \in Nat
      /\ \A i \in DOMAIN queue : queue[i] <= issued
      /\ \A u \in Track : u \in Nat
      /\ plays \in [Track -> Nat] /\ loop \in [Track -> 0..MaxLoop]
  <2>1. IInv /\ PlaysInv /\ PlaceOK(frame[w]) /\ issued \in Nat
    BY SeqFacts, StateFacts
  <2>2. \A u \in Track : u \in Nat
    BY Bounds DEF Track
  <2> QED
    BY <2>1, <2>2 DEF IInv, TypeOK, QueueInv, PlaysInv
<1>2. /\ queue' = Enqueue(queue, new) /\ issued' = issued + k
      /\ issued + k \in Track
      /\ UNCHANGED <<loop, stream>>
      /\ At(w, "addSong") \/ At(w, "addSongs")
  BY DEF AddSong, AddSongs, At
<1>3. new \in Seq(Track) /\ Len(new) = k /\ k \in Nat \ {0}
      /\ \A i \in 1..Len(new) : new[i] = issued + i
  <2>1. CASE At(w, "addSong")
    BY <1>2, <2>1
  <2>2. CASE ~At(w, "addSong")
    <3>1. k = BatchSize /\ k \in Nat \ {0} /\ new = [i \in 1..k |-> issued + i]
      BY <2>2, Bounds
    <3>2. \A i \in 1..k : issued + i \in Track
      BY <1>1, <1>2, <3>1, Bounds DEF Track
    <3> HIDE DEF k, new
    <3>3. new \in [1..k -> Track]
      BY <3>1, <3>2
    <3>4. new \in Seq(Track)
      BY <3>1, <3>3, SeqDef
    <3>5. Len(new) = k
      BY <3>1, <3>3, <3>4, LenProperties
    <3> QED
      BY <3>1, <3>4, <3>5
  <2> QED
    BY <2>1, <2>2
<1>4. /\ queue = <<>> => \/ At(w, "addSong") /\ Call(w, "fetchFirst", issued + 1)
                         \/ At(w, "addSongs") /\ Call(w, "firstLoop", issued + 1)
      /\ queue # <<>> => Return(w)
  <2>1. CASE AddSong(w)
    BY <2>1 DEF AddSong
  <2>2. CASE AddSongs(w)
    <3>1. new = [i \in 1..BatchSize |-> issued + i] /\ At(w, "addSongs")
      BY <2>2 DEF AddSongs, At
    <3>2. [i \in 1..BatchSize |-> issued + i][1] = issued + 1
      BY Bounds
    <3> HIDE DEF new, k
    <3> QED
      BY <2>2, <3>1, <3>2 DEF AddSongs
  <2> QED
    BY <2>1, <2>2
<1> HIDE DEF new, k
<1>5. Behind(queue') \subseteq Behind(queue) \cup issued+1..issued+k
  BY <1>1, <1>2, <1>3, EnqueueSorts
<1>6. PlaysInv'
  <2>1. \A t \in Track : t \in Behind(queue') \/ t > issued'
                            => plays[t] = 0 /\ due[t] = 1
    <3> SUFFICES ASSUME NEW t \in Track, t \in Behind(queue') \/ t > issued'
                 PROVE  t \in Behind(queue) \/ t > issued
      BY <1>1 DEF PlaysInv
    <3>1. t \in issued+1..issued+k \/ t > issued + k => t > issued
      BY <1>1, <1>3
    <3> QED
      BY <1>2, <1>5, <3>1
  <2> QED
    BY <1>1, <1>2, <2>1 DEF PlaysInv
<1> PICK f : f = frame'[w]
  OBVIOUS
<1>7. SUFFICES PlaceOK(f)'
  BY <1>6, SeqStep DEF PlaceOK
<1>8. CASE queue # <<>>
  <2>1. f.at = "idle"
    BY <1>1, <1>4, <1>8, ReturnMoves
  <2>2. Head(queue') = Head(queue)
    BY <1>1, <1>2, <1>3, <1>8, QueueFacts, ConcatProperties DEF Enqueue
  <2>3. HeadPlays
    BY <1>1, <1>2 DEF PlaceOK, Settled, At
  <2>4. HeadPlays'
    BY <1>2, <1>8, <2>2, <2>3 DEF HeadPlays, HeadCounts, Owed
  <2> QED
    BY <2>1, <2>4 DEF PlaceOK, FirstTrack, Starting
<1>9. CASE queue = <<>>
  <2> PICK t : t = issued + 1
    OBVIOUS
  <2>1. t \in Track /\ t > issued
    <3>1. issued + k \in 1..NTracks /\ issued \in Nat /\ k \in Nat \ {0}
      BY <1>1, <1>2, <1>3 DEF Track
    <3> QED
      BY <3>1, Bounds DEF Track
  <2>2. plays[t] = 0 /\ due[t] = 1 /\ loop[t] = 0
    BY <1>1, <2>1 DEF PlaysInv, IInv, LoopInv
  <2>3. queue' = new /\ Len(queue') = k /\ queue' # <<>> /\ Head(queue') = t
    BY <1>1, <1>2, <1>3, <1>9, QueueFacts DEF Enqueue
  <2>4. AboutToPlay(t)'
    BY <1>2, <2>2, <2>3 DEF AboutToPlay, Owed
  <2>5. \/ f.at = "fetchFirst" /\ At(w, "addSong") /\ f.song = t
        \/ f.at = "firstLoop" /\ f.song = t
    BY <1>1, <1>4, <1>9, <2>1, CallMoves DEF Labels
  <2>6. At(w, "addSong") => Len(queue') < 2
    BY <2>3 DEF k
  <2>7. Head(queue') = t /\ Owed(t)' = 1
    BY <1>2, <2>2, <2>3 DEF Owed
  <2> QED
    BY <2>4, <2>5, <2>6, <2>7 DEF PlaceOK, Settled, FirstTrack, Starting
<1> QED
  BY <1>8, <1>9

\* A prefetch changes nothing that matters here.
LEMMA SeqPrefetchStep ==
  ASSUME SeqInv, NEW t \in Track, PrefetchDone(t), IInv', UNCHANGED <<plays, due>>
  PROVE  SeqInv'
<1>1. PICK w \in Workers : TRUE
  BY DEF SeqInv, OneHandler
<1>2. UNCHANGED sound /\ frame'[w] = frame[w]
  BY DEF PrefetchDone, sound
<1> QED
  BY <1>2, SeqFacts, MovingStep

\* One handler at a time, the initial state satisfies the invariant.
LEMMA SeqInit == OneHandler /\ HInit => SeqInv
<1> SUFFICES ASSUME OneHandler, HInit PROVE SeqInv
  OBVIOUS
<1>1. IInv
  BY InitIInv DEF HInit
<1>2. PlaysInv
  BY DEF HInit, Init, PlaysInv
<1>3. ASSUME NEW w \in Workers PROVE PlaceOK(frame[w])
  <2>1. frame[w].at = "idle" /\ queue = <<>>
    BY DEF HInit, Init, Idle
  <2> QED
    BY <2>1 DEF PlaceOK, HeadPlays, FirstTrack, Starting
<1> QED
  BY <1>1, <1>2, <1>3 DEF SeqInv

\* One handler at a time, every step keeps it.
LEMMA SeqNext == SeqInv /\ [HNext]_hvars => SeqInv'
<1> SUFFICES ASSUME SeqInv, [HNext]_hvars PROVE SeqInv'
  OBVIOUS
<1>1. CASE UNCHANGED hvars
  <2>1. PICK w \in Workers : TRUE
    BY DEF SeqInv, OneHandler
  <2>2. UNCHANGED vars /\ UNCHANGED <<plays, due>>
    BY <1>1 DEF hvars
  <2>3. IInv'
    BY <2>2, NextIInv DEF SeqInv
  <2>4. UNCHANGED sound /\ UNCHANGED frame
    BY <2>2 DEF sound, vars
  <2> QED
    BY <2>3, <2>4, SeqFacts, MovingStep
<1>2. ASSUME HNext PROVE IInv'
  <2>1. Next
    BY <1>2 DEF HNext, Played, LoopIsSet, StartIsLost, Next, Handler
  <2> QED
    BY <2>1, NextIInv DEF SeqInv
<1>3. ASSUME HNext, NEW w \in Workers, Played(w) PROVE SeqInv'
  BY <1>2, <1>3, SeqStreamingStep
<1>4. ASSUME HNext, NEW w \in Workers, LoopIsSet(w) PROVE SeqInv'
  BY <1>2, <1>4, SeqLoopingStep
<1>5. ASSUME HNext, NEW w \in Workers, StartIsLost(w) PROVE SeqInv'
  BY <1>2, <1>5, SeqFilingStep
<1>6. CASE /\ HNext /\ Next
           /\ ~ \E w \in Workers : PlayOk(w) \/ LoopTo(w) \/ FetchFailed(w)
           /\ UNCHANGED <<plays, due>>
  <2>1. IInv'
    BY <1>2, <1>6
  <2>2. ASSUME NEW t \in Track, PrefetchDone(t) PROVE SeqInv'
    BY <1>6, <2>1, <2>2, SeqPrefetchStep
  <2>3. ASSUME NEW w \in Workers, User(w) PROVE SeqInv'
    BY <1>6, <2>1, <2>3, SeqUserStep
  <2>4. ASSUME NEW w \in Workers, StreamEnd(w) PROVE SeqInv'
    BY <1>6, <2>1, <2>4, SeqStreamingStep
  <2>5. ASSUME NEW w \in Workers, Handler(w) PROVE SeqInv'
    BY <1>6, <2>1, <2>5, SeqReadingStep, SeqRemovingStep, SeqStreamingStep,
       SeqLoopingStep, SeqFilingStep, SeqIssueStep
    DEF Handler, Removes
  <2> QED
    BY <1>6, <2>2, <2>3, <2>4, <2>5 DEF Next
<1> QED
  BY <1>1, <1>3, <1>4, <1>5, <1>6 DEF HNext

\* One handler at a time, every behaviour satisfies the invariant.
THEOREM SeqInvariance == OneHandler => (HSpec => []SeqInv)
BY SeqInit, SeqNext, PTL DEF HSpec

\* One handler at a time, and Telegram takes every message: whatever fails and
\* whatever is commanded, a queue that is not empty is left playing its head.
THEOREM QueuesPlay == OneHandler => (HSpec => []QueuedMeansPlaying)
<1>1. SeqInv => QueuedMeansPlaying
  <2> SUFFICES ASSUME SeqInv, Quiet, queue # <<>>
               PROVE  stream # None /\ stream.track = Head(queue)
    BY DEF QueuedMeansPlaying
  <2>1. PICK w \in Workers : TRUE
    BY DEF SeqInv, OneHandler
  <2> QED
    BY <2>1 DEF SeqInv, Quiet, At, PlaceOK, Settled, HeadPlays
<1> QED
  BY <1>1, SeqInvariance, PTL

\* One handler at a time, /loop n plays the head n more times, for every n
\* up to the limit, less the repeats that failed downloads use up: nothing
\* else makes the counter drift.
THEOREM LoopsAreCounted == OneHandler => (HSpec => []LoopCountHonoured)
<1>1. SeqInv => LoopCountHonoured
  <2> SUFFICES ASSUME SeqInv, Quiet, queue # <<>>
               PROVE  plays[Head(queue)] + loop[Head(queue)] = due[Head(queue)]
    BY DEF LoopCountHonoured
  <2>1. PICK w \in Workers : TRUE
    BY DEF SeqInv, OneHandler
  <2>2. loop[Head(queue)] = due[Head(queue)] - plays[Head(queue)]
    BY <2>1 DEF SeqInv, Quiet, At, PlaceOK, Settled, HeadPlays, HeadCounts, Owed
  <2>3. plays[Head(queue)] \in Nat /\ due[Head(queue)] \in Int
    BY <2>1, SeqFacts
  <2> QED
    BY <2>2, <2>3
<1> QED
  BY <1>1, SeqInvariance, PTL
=============================================================================
