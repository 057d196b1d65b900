------------------------------ MODULE Playback ------------------------------
(***************************************************************************)
(* How one chat's queue becomes sound: the command handlers (src/handlers, *)
(* internal/queue), PlayNext and playSong (src/vc), the stream-end         *)
(* callback and the background prefetch, as goroutines that share the      *)
(* queue.                                                                  *)
(*                                                                         *)
(* Only the methods of the chat cache are atomic.  A handler is a sequence *)
(* of such calls and of network calls (Telegram, downloads, the assistant) *)
(* with no lock held from one to the next, so each call is a step of its   *)
(* own and the steps of different goroutines interleave.  A goroutine is a *)
(* worker; its frame holds the handler's place and its local variables.    *)
(*                                                                         *)
(* Tracks are numbered in the order in which they enter the queue.  The    *)
(* file of a track is named by the track id it was downloaded for.         *)
(***************************************************************************)
EXTENDS QueueOps, Integers, FiniteSets, FiniteSetsExt

CONSTANTS Workers,      \* goroutines that run handlers at the same time
          NTracks,      \* bound on the number of tracks added
          Ids,          \* the TrackIDs
          MaxLoop,      \* 10 in handlers/loop.go
          QueueLimit,   \* 10 in handlers/play.go
          BatchSize,    \* length of the playlists that are added
          MaxTries,     \* assistants that PlayMedia tries, a retry included
          Commands,     \* the commands users send
          MaxCommands,  \* bound on their number
          Faults,       \* what fails: "download", "play", "send", and "empty":
                        \* a download that ends with no error and no path
          None, NoPath

Track == 1..NTracks

ASSUME WorkersFinite == IsFiniteSet(Workers)
ASSUME Bounds == /\ NTracks \in Nat /\ MaxLoop \in Nat \ {0} /\ QueueLimit \in Nat
                 /\ BatchSize \in Nat \ {0} /\ MaxTries \in Nat \ {0}
                 /\ MaxCommands \in Nat
ASSUME Outsiders == /\ None \notin Track /\ None \notin Ids /\ NoPath \notin Ids
                    /\ None \notin [track : Track, path : Ids \cup {NoPath}]

VARIABLES queue,        \* the chat's queue
          loop,         \* Loop of each track
          filePath,     \* FilePath of each track
          trackId,      \* TrackID of each track
          issued,       \* the number of tracks added so far
          stream,       \* what the assistant streams: track and file, or None
          prefetching,  \* tracks that a background download is out for
          hinted,       \* the track RecommendHook was last called with
          commands,     \* the number of commands so far
          frame         \* the handler of each worker

vars == <<queue, loop, filePath, trackId, issued, stream, prefetching, hinted,
          commands, frame>>

\* The locals: where the handler is, its track, the loop count or index it
\* holds, the path it hands to PlayMedia, and how often PlayMedia tried.
Idle == [at |-> "idle", song |-> None, arg |-> 0, path |-> NoPath, tries |-> 0]

Init ==
    /\ queue = <<>>
    /\ loop = [t \in Track |-> 0]
    /\ filePath = [t \in Track |-> NoPath]
    /\ trackId = [t \in Track |-> None]
    /\ issued = 0
    /\ stream = None
    /\ prefetching = {}
    /\ hinted = None
    /\ commands = 0
    /\ frame = [w \in Workers |-> Idle]

At(w, label) == frame[w].at = label
Goto(w, label) == frame' = [frame EXCEPT ![w].at = label]
Call(w, label, song) == frame' = [frame EXCEPT ![w].at = label, ![w].song = song]
Return(w) == frame' = [frame EXCEPT ![w] = Idle]

objects == <<loop, filePath, trackId, issued>>    \* fields of the track objects
outside == <<stream, prefetching, hinted, commands>>

\* PrefetchTracks starts a download for each track that has no file yet.
Launched(ts) == prefetching \cup {t \in ts : filePath[t] = NoPath}

\* Bound: a command that adds n tracks is taken up only while NTracks leaves
\* room for them and for those that other workers are about to add.
HasRoom(n) ==
    LET one == {w \in Workers : frame[w].at \in {"lookup", "addSong"}}
        many == {w \in Workers : At(w, "addSongs")}
    IN issued + n + Cardinality(one) + BatchSize * Cardinality(many) <= NTracks

-----------------------------------------------------------------------------
\* Commands: an idle worker takes one up.

Command(w, kind) ==
    /\ At(w, "idle")
    /\ kind \in Commands
    /\ commands < MaxCommands
    /\ commands' = commands + 1
    /\ UNCHANGED <<queue, objects, stream, prefetching, hinted>>

\* handlePlay refuses a queue that is too long, then searches.
Play(w) ==
    /\ Command(w, "play")
    /\ HasRoom(1)
    /\ Len(queue) <= QueueLimit
    /\ \E id \in Ids :
           frame' = [frame EXCEPT ![w] = [Idle EXCEPT !.at = "lookup", !.path = id]]

Playlist(w) ==
    /\ Command(w, "playlist")
    /\ HasRoom(BatchSize)
    /\ Len(queue) <= QueueLimit
    /\ Goto(w, "addSongs")

Skip(w) ==
    /\ Command(w, "skip")
    /\ queue # <<>>
    /\ Goto(w, "getLoop")

Stop(w) ==
    /\ Command(w, "stop")
    /\ queue # <<>>
    /\ Goto(w, "clear")

SetLoop(w) ==
    /\ Command(w, "loop")
    /\ queue # <<>>
    /\ \E n \in 0..MaxLoop :
           frame' = [frame EXCEPT ![w] = [Idle EXCEPT !.at = "loopTo", !.arg = n]]

\* /remove and the queue viewer's rm and jmp check their index against a copy
\* of the queue; the removal takes the lock again.  /remove admits an index
\* that is one too large, which may name a track by then.
OnIndex(w, kind, label, last) ==
    /\ Command(w, kind)
    /\ \E n \in 1..last :
           frame' = [frame EXCEPT ![w] = [Idle EXCEPT !.at = label, !.arg = n]]
RemoveUpNext(w) == OnIndex(w, "remove", "removeTrack", Len(queue))
Jump(w) == OnIndex(w, "jump", "trim", Len(queue) - 1)

\* The service messages: both clear the queue.  When a video chat ends, the
\* assistant's own update stops the stream, before or after.
VideoChatStarted(w) == Command(w, "videochat") /\ Goto(w, "clearOnly")
VideoChatEnded(w) ==
    /\ Command(w, "videochat")
    /\ \/ Goto(w, "clear")
       \/ Goto(w, "discard")

\* ntgcalls reports the end of the audio stream.
StreamEnd(w) ==
    /\ At(w, "idle")
    /\ stream # None
    /\ stream' = None
    /\ Goto(w, "getLoop")
    /\ UNCHANGED <<queue, objects, prefetching, hinted, commands>>

-----------------------------------------------------------------------------
\* handleTextSearch, handleSingleTrack.

\* GetTrackIfExists; the id that was found travels in path until the object
\* exists.
LookUp(w) ==
    /\ At(w, "lookup")
    /\ IF \E i \in DOMAIN queue : trackId[queue[i]] = frame[w].path
       THEN Return(w)
       ELSE Goto(w, "addSong")
    /\ UNCHANGED <<queue, objects, outside>>

\* AddSong: the first track of a queue is played here, a later one is only
\* prefetched.
AddSong(w) ==
    LET t == issued + 1 IN
    /\ At(w, "addSong")
    /\ t \in Track
    /\ queue' = Enqueue(queue, <<t>>)
    /\ issued' = t
    /\ trackId' = [trackId EXCEPT ![t] = frame[w].path]
    /\ IF queue = <<>>
       THEN Call(w, "fetchFirst", t) /\ UNCHANGED prefetching
       ELSE Return(w) /\ prefetching' = Launched({t})
    /\ UNCHANGED <<loop, filePath, stream, hinted, commands>>

\* The handler looks at the error alone: an empty path goes to PlayMedia.
FetchFirst(w) ==
    LET t == frame[w].song IN
    /\ At(w, "fetchFirst")
    /\ \/ /\ \/ filePath' = [filePath EXCEPT ![t] = trackId[t]]
             \/ "empty" \in Faults /\ filePath' = [filePath EXCEPT ![t] = NoPath]
          /\ Goto(w, "loadFirst")
       \/ /\ "download" \in Faults
          /\ Goto(w, "dropFirst")
          /\ UNCHANGED filePath
    /\ UNCHANGED <<queue, loop, trackId, issued, outside>>

\* Variant: the handler keeps its track for later, at the back.
DropFirstRequeues(w) ==
    /\ At(w, "dropFirst")
    /\ queue' = Enqueue(RemoveCurrent(queue), <<frame[w].song>>)
    /\ Return(w)
    /\ UNCHANGED <<objects, outside>>

\* Variant: the handler tries its track again until it plays.
DropFirstRetries(w) ==
    /\ At(w, "dropFirst")
    /\ Goto(w, "fetchFirst")
    /\ UNCHANGED <<queue, objects, outside>>

\* The handler gives its track up: RemoveCurrentSong, whatever is the head.
DropFirst(w) ==
    /\ At(w, "dropFirst")
    /\ queue' = RemoveCurrent(queue)
    /\ Return(w)
    /\ UNCHANGED <<objects, outside>>

\* Variant: Loop = 1 without the test that the queue was empty.
AddSongsAlwaysFirst(w) ==
    LET new == [i \in 1..BatchSize |-> issued + i] IN
    /\ At(w, "addSongs")
    /\ issued + BatchSize \in Track
    /\ queue' = Enqueue(queue, new)
    /\ issued' = issued + BatchSize
    /\ \E id \in Ids :
           trackId' = [t \in Track |-> IF t - issued \in 1..BatchSize THEN id
                                                              ELSE trackId[t]]
    /\ Call(w, "firstLoop", new[1])
    /\ UNCHANGED <<loop, filePath, outside>>

\* handleMultipleTracks: AddSongs, then, when the queue was empty, Loop = 1
\* on the first track so that PlayNext "repeats" it into playing; at most
\* three tracks behind it are prefetched.
AddSongs(w) ==
    LET new == [i \in 1..BatchSize |-> issued + i] IN
    /\ At(w, "addSongs")
    /\ issued + BatchSize \in Track
    /\ queue' = Enqueue(queue, new)
    /\ issued' = issued + BatchSize
    /\ \E ids \in [1..BatchSize -> Ids] :
           trackId' = [t \in Track |->
               IF t - issued \in 1..BatchSize THEN ids[t - issued] ELSE trackId[t]]
    /\ IF queue = <<>>
       THEN Call(w, "firstLoop", new[1]) /\ UNCHANGED prefetching
       ELSE Return(w) /\ prefetching' = Launched({new[i] : i \in 1..BatchSize \cap 1..3})
    /\ UNCHANGED <<loop, filePath, stream, hinted, commands>>

FirstLoop(w) ==
    LET t == frame[w].song IN
    /\ At(w, "firstLoop")
    /\ loop' = [loop EXCEPT ![t] = 1]
    /\ prefetching' = Launched({t + i : i \in 1..(BatchSize - 1) \cap 1..3})
    /\ Goto(w, "getLoop")
    /\ UNCHANGED <<queue, filePath, trackId, issued, stream, hinted, commands>>

-----------------------------------------------------------------------------
\* PlayNext.

\* Variant: the count is decremented without the test that it is positive.
GetLoopUntested(w) ==
    /\ At(w, "getLoop")
    /\ frame' = [frame EXCEPT ![w] = [Idle EXCEPT !.at = "decLoop",
           !.arg = IF queue = <<>> THEN 0 ELSE loop[Head(queue)]]]
    /\ UNCHANGED <<queue, objects, outside>>

GetLoop(w) ==
    LET n == IF queue = <<>> THEN 0 ELSE loop[Head(queue)] IN
    /\ At(w, "getLoop")
    /\ frame' = [frame EXCEPT
           ![w] = [Idle EXCEPT !.at = IF n > 0 THEN "decLoop" ELSE "upcoming",
                               !.arg = n]]
    /\ UNCHANGED <<queue, objects, outside>>

\* SetLoopCount acts on the head of the moment, if there is one.
SetLoopCount(n) ==
    loop' = IF queue = <<>> THEN loop ELSE [loop EXCEPT ![Head(queue)] = n]

\* Variant: the count is written back as it was read.
DecLoopForgets(w) ==
    /\ At(w, "decLoop")
    /\ SetLoopCount(frame[w].arg)
    /\ Goto(w, "current")
    /\ UNCHANGED <<queue, filePath, trackId, issued, outside>>

DecLoop(w) ==
    /\ At(w, "decLoop")
    /\ SetLoopCount(frame[w].arg - 1)
    /\ Goto(w, "current")
    /\ UNCHANGED <<queue, filePath, trackId, issued, outside>>

Current(w) ==
    /\ At(w, "current")
    /\ IF queue = <<>> THEN Goto(w, "upcoming")
                       ELSE Call(w, "send", Head(queue))
    /\ UNCHANGED <<queue, objects, outside>>

Upcoming(w) ==
    /\ At(w, "upcoming")
    /\ IF Len(queue) < 2 THEN Goto(w, "popLast")
                         ELSE Call(w, "pop", queue[2])
    /\ UNCHANGED <<queue, objects, outside>>

Pop(w) ==
    /\ At(w, "pop")
    /\ queue' = RemoveCurrent(queue)
    /\ Goto(w, "send")
    /\ UNCHANGED <<objects, outside>>

PopLast(w) ==
    /\ At(w, "popLast")
    /\ queue' = RemoveCurrent(queue)
    /\ Goto(w, "noSong")
    /\ UNCHANGED <<objects, outside>>

\* handleNoSong: lastTrack is what GetPlayingTrack finds now.
NoSong(w) ==
    /\ At(w, "noSong")
    /\ Call(w, "clear", IF queue = <<>> THEN None ELSE Head(queue))
    /\ UNCHANGED <<queue, objects, outside>>

\* Stop: ClearChat, then the assistant leaves the call; then, back in
\* handleNoSong, RecommendHook for lastTrack.
Clear(w) ==
    /\ At(w, "clear") \/ At(w, "clearOnly")
    /\ queue' = <<>>
    /\ IF At(w, "clear") THEN Goto(w, "leave") ELSE Return(w)
    /\ UNCHANGED <<objects, outside>>

Leave(w) ==
    /\ At(w, "leave")
    /\ stream' = None
    /\ hinted' = IF frame[w].song = None THEN hinted ELSE frame[w].song
    /\ Return(w)
    /\ UNCHANGED <<queue, objects, prefetching, commands>>

-----------------------------------------------------------------------------
\* playSong.

Send(w) ==
    /\ At(w, "send")
    /\ \/ Goto(w, "fetch")
       \/ "send" \in Faults /\ Return(w)
    /\ UNCHANGED <<queue, objects, outside>>

\* downloadAndPrepareSong: the track has a file, or gets one, or there is no
\* path at the end of its download.
Fetch(w) ==
    LET t == frame[w].song IN
    /\ At(w, "fetch")
    /\ \/ /\ filePath' = [filePath EXCEPT ![t] = trackId[t]]
          /\ Goto(w, "load")
       \/ /\ filePath[t] = NoPath
          /\ {"download", "empty"} \cap Faults # {}
          /\ Goto(w, "failed")
          /\ UNCHANGED filePath
    /\ UNCHANGED <<queue, loop, trackId, issued, outside>>

\* Variant: playSong returns instead of going on to the next track.
FetchFailedReturns(w) ==
    /\ At(w, "failed")
    /\ filePath' = [filePath EXCEPT ![frame[w].song] = NoPath]
    /\ Return(w)
    /\ UNCHANGED <<queue, loop, trackId, issued, outside>>

\* FilePath is overwritten with the empty path.  An error sends playSong back
\* into PlayNext; without one it goes on to PlayMedia.
FetchFailed(w) ==
    /\ At(w, "failed")
    /\ filePath' = [filePath EXCEPT ![frame[w].song] = NoPath]
    /\ \/ "download" \in Faults /\ Goto(w, "getLoop")
       \/ "empty" \in Faults /\ Goto(w, "load")
    /\ UNCHANGED <<queue, loop, trackId, issued, outside>>

\* The caller reads FilePath and hands it to PlayMedia.
Load(w) ==
    /\ At(w, "load") \/ At(w, "loadFirst")
    /\ frame' = [frame EXCEPT
           ![w].at = IF At(w, "load") THEN "attempt" ELSE "attemptFirst",
           ![w].path = filePath[frame[w].song]]
    /\ UNCHANGED <<queue, objects, outside>>

Attempting(w) == At(w, "attempt") \/ At(w, "attemptFirst")

PlayOk(w) ==
    /\ Attempting(w)
    /\ stream' = [track |-> frame[w].song, path |-> frame[w].path]
    /\ IF At(w, "attempt") THEN Goto(w, "prefetch") ELSE Return(w)
    /\ UNCHANGED <<queue, objects, prefetching, hinted, commands>>

\* Variant: a failed playback leaves the queue as it is.
PlayFailsKeepsQueue(w) ==
    /\ Attempting(w)
    /\ "play" \in Faults
    /\ Return(w)
    /\ UNCHANGED <<queue, objects, outside>>

\* playMedia clears the queue whenever it fails; PlayMedia may then try the
\* same or another assistant, or give up.
PlayFails(w) ==
    /\ Attempting(w)
    /\ "play" \in Faults
    /\ queue' = <<>>
    /\ \/ /\ frame[w].tries + 1 < MaxTries
          /\ frame' = [frame EXCEPT ![w].tries = @ + 1]
       \/ IF At(w, "attempt") THEN Return(w) ELSE Goto(w, "dropFirst")
    /\ UNCHANGED <<objects, outside>>

\* prefetchUpcoming: at most the next two of a copy of the queue.
Prefetch(w) ==
    /\ At(w, "prefetch")
    /\ prefetching' = Launched({queue[i] : i \in DOMAIN queue \cap 2..3})
    /\ Return(w)
    /\ UNCHANGED <<queue, objects, stream, hinted, commands>>

\* Variant: the path goes to the track that is next up by now.
PublishToUpcoming(id) ==
    filePath' = IF Len(queue) < 2 THEN filePath
                ELSE [filePath EXCEPT ![queue[2]] = id]

\* SetTrackFilePath: the first queued track with that id gets the path; the
\* callback leaves an empty one alone.
Publish(id) ==
    LET matches == {i \in DOMAIN queue : trackId[queue[i]] = id} IN
    filePath' = IF matches = {} THEN filePath
                ELSE [filePath EXCEPT ![queue[Min(matches)]] = id]

PrefetchDone(t) ==
    /\ t \in prefetching
    /\ prefetching' = prefetching \ {t}
    /\ \/ Publish(trackId[t])
       \/ {"download", "empty"} \cap Faults # {} /\ UNCHANGED filePath
    /\ UNCHANGED <<queue, loop, trackId, issued, stream, hinted, commands, frame>>

-----------------------------------------------------------------------------
\* The locked step of /loop, /remove, jmp, and of the discarded call.

LoopTo(w) ==
    /\ At(w, "loopTo")
    /\ SetLoopCount(frame[w].arg)
    /\ Return(w)
    /\ UNCHANGED <<queue, filePath, trackId, issued, outside>>

RemoveTrack(w) ==
    /\ At(w, "removeTrack")
    /\ queue' = RemoveIndex(queue, frame[w].arg)
    /\ Return(w)
    /\ UNCHANGED <<objects, outside>>

Trim(w) ==
    /\ At(w, "trim")
    /\ queue' = TrimBefore(queue, frame[w].arg)
    /\ Goto(w, "getLoop")
    /\ UNCHANGED <<objects, outside>>

Discard(w) ==
    /\ At(w, "discard")
    /\ stream' = None
    /\ Goto(w, "clearOnly")
    /\ UNCHANGED <<queue, objects, prefetching, hinted, commands>>

-----------------------------------------------------------------------------
User(w) ==
    \/ Play(w) \/ Playlist(w) \/ Skip(w) \/ Stop(w) \/ SetLoop(w)
    \/ RemoveUpNext(w) \/ Jump(w) \/ VideoChatStarted(w) \/ VideoChatEnded(w)

Handler(w) ==
    \/ LookUp(w) \/ AddSong(w) \/ FetchFirst(w) \/ DropFirst(w)
    \/ AddSongs(w) \/ FirstLoop(w)
    \/ GetLoop(w) \/ DecLoop(w) \/ Current(w) \/ Upcoming(w)
    \/ Pop(w) \/ PopLast(w) \/ NoSong(w) \/ Clear(w) \/ Leave(w)
    \/ Send(w) \/ Fetch(w) \/ FetchFailed(w) \/ Load(w)
    \/ PlayOk(w) \/ PlayFails(w) \/ Prefetch(w)
    \/ LoopTo(w) \/ RemoveTrack(w) \/ Trim(w) \/ Discard(w)

Next ==
    \/ \E w \in Workers : User(w) \/ StreamEnd(w) \/ Handler(w)
    \/ \E t \in Track : PrefetchDone(t)

Spec == Init /\ [][Next]_vars

\* The handler waits for a download, which has no timeout: the file of a url
\* (dl/spotify_dl.go:83) and that of a Telegram message (dl/downloader.go:75,
\* 89) are waited for as long as it takes.
Downloading(w) == At(w, "fetch") \/ At(w, "fetchFirst")

\* The Go scheduler runs every goroutine, Telegram and ntgcalls answer, and a
\* track ends.  A download need not end, and users owe nothing.
Fairness ==
    \A w \in Workers : /\ WF_vars(~Downloading(w) /\ Handler(w))
                       /\ WF_vars(StreamEnd(w))

-----------------------------------------------------------------------------
Labels == {"idle", "lookup", "addSong", "fetchFirst", "dropFirst", "addSongs",
           "firstLoop", "getLoop", "decLoop", "current", "upcoming", "pop",
           "popLast", "noSong", "clear", "clearOnly", "leave", "send", "fetch",
           "failed", "load", "loadFirst", "attempt", "attemptFirst", "prefetch",
           "loopTo", "removeTrack", "trim", "discard"}

Frame == [at : Labels, song : Track \cup {None}, arg : Nat,
          path : Ids \cup {NoPath}, tries : Nat]

TypeOK ==
    /\ queue \in Seq(Track)
    /\ loop \in [Track -> 0..MaxLoop]
    /\ filePath \in [Track -> Ids \cup {NoPath}]
    /\ trackId \in [Track -> Ids \cup {None}]
    /\ issued \in 0..NTracks
    /\ stream \in [track : Track, path : Ids \cup {NoPath}] \cup {None}
    /\ prefetching \subseteq Track
    /\ hinted \in Track \cup {None}
    /\ commands \in 0..MaxCommands
    /\ frame \in [Workers -> Frame]

\* Whatever the interleaving of handlers, a step leaves the queue in the order
\* in which tracks were added, so that none overtakes another or is there
\* twice, and a track that it brings into the queue is a new one: none is back
\* after it left, although handlers go on with tracks that others removed.
\* (Which track a step removes is not said: see HeadIsPlaying.  The queue
\* viewer's shuffle, reverse and move are not among the commands: they reorder
\* on purpose, see ChatCache.)
NoneOvertakesOrReturns ==
    [][ /\ \A i, j \in DOMAIN queue' : i < j => queue'[i] < queue'[j]
        /\ \A t \in ToSet(queue') \ ToSet(queue) : t > issued ]_vars

\* Only the head repeats, although the count is read, written and set by
\* goroutines that hold no lock in between (PlayNext, /loop, the Loop = 1 of
\* a new playlist): no track up next waits with a count of its own.
OnlyTheHeadRepeats == \A i \in DOMAIN queue \ {1} : loop[queue[i]] = 0

\* The file of a track, and the file that is streamed for it, was downloaded
\* for its TrackID, although prefetches publish into a queue that changed
\* since they started.
FilesBelongToTracks ==
    /\ \A t \in Track : filePath[t] \in {NoPath, trackId[t]}
    /\ stream # None => stream.path \in {NoPath, trackId[stream.track]}

Quiet == \A w \in Workers : At(w, "idle")

\* "The currently playing track (index 0)" (chat_cache.go:250, 264, 280):
\* with no handler at work, a queue's head is what the assistant streams,
\* and nothing is streamed for an empty queue.
HeadIsPlaying ==
    Quiet => IF queue = <<>> THEN stream = None
             ELSE stream # None /\ stream.track = Head(queue)

\* One handler at a time: a queue that is not empty is playing its head,
\* after failed downloads and playbacks too.  (An empty path that PlayMedia
\* took counts as playing: what ntgcalls makes of it is not known.)
QueuedMeansPlaying ==
    Quiet /\ queue # <<>> => stream # None /\ stream.track = Head(queue)

\* Every handler returns, or hangs in one download for good: PlayNext and
\* playSong call each other on failed downloads, and that recursion ends.
HandlersReturn ==
    \A w \in Workers : []<>At(w, "idle") \/ <>[]Downloading(w)

\* The queue is played out: once users stop sending commands, the tracks end
\* one by one and the assistant leaves the call, unless a download hangs.
PlaysOut ==
    \/ <>[](queue = <<>> /\ stream = None)
    \/ \E w \in Workers : <>[]Downloading(w)
=============================================================================
