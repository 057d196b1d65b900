# TGMUSIC in TLA+

TGMUSIC is a Telegram bot, written in Go, that plays music into the video chats
of groups. Users add tracks with commands and buttons; tracks are downloaded, or
resolved to a url, and an *assistant* account streams them into the call. This
directory models the parts of the program that keep state which several
goroutines share, checks the models with TLC and proves the central ones with
TLAPS.

Paths are relative to the repository's root, which lies under `src/` here: so
`src/src/vc/calls.go` is `src/vc/calls.go` of the repository.

## 1. The system

### Components, their state and their operations

| Component | State | Operations | What makes it correct |
|---|---|---|---|
| Chat queue cache, `core/cache/chat_cache.go` | per chat a slice of `*CachedTrack`; index 0 is the track that plays; each track has a repeat count `Loop`, a `TrackID`, a `FilePath` | add one or many, remove the head or an index, clear, shuffle, reverse, move, trim, set the repeat count, look up by id, publish a file path | a sequence of distinct tracks, whatever happens to the arrays; the head stays where it is when what is up next is rearranged; only the head repeats |
| Playback, `vc/calls.go`, `vc/helpers.go`, `vc/play.go`, `handlers/*.go` | no state of its own: the queue, the tracks' fields, the assistant's stream | `PlayNext`, `playSong`, `PlayMedia`, `Stop`, prefetching, `/play`, `/skip`, `/stop`, `/loop`, `/remove`, the service messages, the end of a stream | what streams is the head of the queue; failures lead to the next track or to an empty queue; every track gets the file of its own id |
| Assistants, `vc/play.go`, `vc/calls.go`, `core/db/assistant.go` | which assistant a chat has, in the database and in a cache | choose, assign, rotate over the assistants that fail, evict, clear | a rotation takes each assistant once and ends; what streams is what is assigned |
| Group call, `vc/assistant.go`, `vc/ntgcalls` | what an assistant knows of the chat's call, channels of callers that wait for a connection, pending connections, the call that ntgcalls holds | `Play`, `stopCall`, `connectCall`, updates of the call and of its participants | a stopped chat is silent; what is known of the call follows the updates |
| Joining and members, `vc/userbot.go`, `handlers/participant.go`, `vc/leave_all.go` | membership and its cache, invite link | join, unban, update, leave the chats without a queue | the assistant is in the chat when it joins the call |
| Rights, `handlers/filters.go`, `auth.go`, `settings.go`, `admins.go`, `core/cache/admin_cache.go`, `core/db/chats.go`, `auth.go`, `logger.go` | settings, authorized users and administrators of a chat, each behind a cache | the filters in front of every command, the commands that change the lists, `/reload`, member updates | a command goes through when it is due; no entry is stale for good |
| Download manager, `core/dl/manager.go` | path cache, calls in flight, semaphore, the files on disk | `resolveViaManager`, `PrefetchTracks` | one download per track at a time, none without need, only what was found playable is returned, everybody gets an answer |
| TTL cache, `core/cache/cache.go` | map, list, expiration times | `Get`, `Set`, `Delete`, `Clear`, the janitor's sweep | map and list agree; bounded; drops the least recently used |
| Status message, `core/status/status.go` | `done`, `resolved`, a mutex, the message | `EditText`, `Stop`, the animation, the deletion | a result is never overwritten by a tick |
| Queue viewer, `internal/queue`, `handlers/queue.go` | page, sort, filter, lock, page cache and its fingerprint, per chat | its buttons, `/queue` | shows the queue as it is; a button acts on the track it was drawn for |
| Playlists, `core/db/playlist.go`, `handlers/playlist.go` | a user's playlists in the database | create, delete, add, remove, save a track by a button | a song once in a list; ten lists |
| Recommendations, `handlers/recommend.go`, `core/db/recommendations.go` | what was recommended to a chat, in the database and as a slice in a cache | recommend, trim | the history is kept in order; the cache shows it |
| Broadcast, `handlers/broadcast.go` | busy flag, cancel flag | start, cancel, send | one at a time; a cancelled one stops, and nothing else stops it |
| Player panel, `internal/player/ui` | sessions, a progress loop | none is wired into the program | - |
| Thumbnails, configuration, start-up, providers | - | drawing, reading, requests | - |

### How they interact

Telegram updates arrive concurrently, each handler in a goroutine of its own.
Handlers read and change the chat's queue through the cache's methods; only those
are atomic. The *end of a stream* comes from ntgcalls on yet another goroutine
and calls `PlayNext` like a skip does. `PlayNext` takes the next track and calls
`playSong`, which calls `PlayNext` again when the download fails. Downloads of
all chats meet in the download manager; prefetches publish their outcome into the
queue through a callback. `PlayMedia` goes through the assistant: which one (the database and its
cache), whether it is in the chat (the member caches, the invite link), whether it
is in the call (ntgcalls). A failure clears the queue and may rotate to another
assistant; updates of members and of the call arrive meanwhile, and a member update
may stop the stream. Commands pass the filters first, which read administrators and
settings through caches. The path cache and the database's caches are instances
of the TTL cache. Nothing of the queue is persisted: a restart starts with
empty queues, so there is no crash recovery to model.

### What is hard here

No lock is held from one call of the cache to the next, so a handler acts on what
it read some network calls ago. A cache-aside read may store what it read long
ago, a button was drawn for a queue that is gone, an update overtakes an answer.
`PROJECT.json` lists these places under `hazards`, with the property that watches
each or the reason why none does.

## 2. Modules

    QueueOps <- ChatQueue <= ChatCache  <- MCChatCache, ChatCacheProofs
    QueueOps <- Playback  <- MCPlayback, PlaybackSeq <- PlaybackProofs
    Download <- MCDownload                             (<- is extended by,
    Download, StatusMessage <- DownloadProofs           <= is implemented by)
    LossyMap <= TTLCache <- MCTTLCache
    QueueOps, Filtering <- QueueView <- MCQueueView, QueueViewProofs
    AssistantStore, Membership, GroupCall <- Assistants <- MCAssistants, AssistantsProofs
    CacheAside <- ChatRights
    ChatRights, Playlists, RecommendHistory, Broadcasts <- Bookkeeping <- MCBookkeeping
    Filtering <- TTLCache, Playlists
    QueueOps, Filtering <- ListProofs <- ChatCacheProofs, QueueViewProofs, TTLCacheProofs,
                                         BookkeepingProofs

* **QueueOps** has the operations of the queue as operators on sequences. It is
  shared by the abstract queue and by Playback, so what is checked of the slices
  carries over to the queue on which the handlers work. Indices are the code's,
  0-based; position 1 of a sequence is index 0.
* **ChatQueue** is what the cache promises: a sequence per chat, one atomic action
  per method. **ChatCache** is the code: a slice is an offset and a length in a
  backing array of cells; methods re-slice, copy inside the array, clear cells or
  allocate. `append` works in place while the capacity lasts and otherwise takes
  an array of a size the runtime chooses, here any up to `MaxCap`. `QueueSpec`
  states that ChatCache implements ChatQueue under the mapping that takes a slice
  to the sequence in its window; `IndexedMethods` adds that the methods with an
  index act on the index they are given.
* **Playback** has one chat, a set `Workers` of goroutines, and for each a *frame*:
  where its handler is (`at`), the track it holds (`song`), the count or index it
  read (`arg`), the path it will play (`path`) and its attempts (`tries`). Each
  locked call of the cache and each network call is one action. The labels follow
  the code: `getLoop, decLoop, current, upcoming, pop, popLast, noSong` are the
  lines of `PlayNext`; `send, fetch, failed, load, attempt, prefetch` those of
  `playSong`; `lookup, addSong, fetchFirst, loadFirst, attemptFirst, dropFirst`
  those of `handleSingleTrack`; `addSongs, firstLoop` those of
  `handleMultipleTracks`; `clear, leave` those of `Stop`. Tracks are numbered in
  the order in which they enter the queue; a file path is the id it was downloaded
  for. A download ends with a path, with an error, or with neither: then the handler
  goes on to `PlayMedia` with an empty path (`helpers.go:35-38`).
* **PlaybackSeq** adds two history variables to Playback (how often each track was
  started, how often it is due) to say what the repeat count amounts to.
* **Download** has the requests for tracks as processes that go through
  `resolveViaManager`, with the path cache, the group of calls in flight, the
  permits and the file of each track: nothing, a fragment, or playable.
* **TTLCache** has the map, the list, a clock and the janitor; **LossyMap** is the
  contract its callers rely on: a key that is found has its last value, and any
  key may be gone.
* **Filtering** takes elements out of a list, for the cache's list, a playlist's
  songs and the viewer's filters. It says what SelectSeq says, as MCTTLCache checks on short lists, in a form
  about which one can prove: SelectSeq is recursive.
* **StatusMessage** has the animation goroutine, the handler and the deletions.
* **Assistants** is one chat with its assistants, composed of three parts that keep
  state and of the requests that use them. **AssistantStore** is the stored
  assignment with its cache entry. **Membership** is who is in the chat, the cached
  statuses, the invite link and the updates on their way. **GroupCall** is, for each
  assistant, what it knows of the video chat, what ntgcalls holds for it, its
  pending connection and the goroutine that waits for a connection. An update of the
  group call names its chat or does not; one that does not is dropped unless its call is the
  one known (`assistant.go:525-549`). A goroutine
  carries the request (play, stop, a member update, a reconnection, /clearass), the
  assistant it works with and those it tried; an action is what it does up to the next
  answer of Telegram, the database or ntgcalls: `lookup, fill, assign, assigned,
  refill` are `getClientIndex` and `AssignAssistant`; `status, recover, invite, enter`
  are `joinAssistant`; `calls, create, call, keep, join, connect, wait` are `Play` and
  `connectCall`; `evict, evicted, save, saved` are `rotateAndPlay`. A new chat gets any
  assistant, where the code takes a random one.
* **QueueView** is the viewer of one chat: what its manager keeps, the message with
  its buttons, the goroutine behind each press, and the queue that other handlers
  change. Its four tracks are numbered in the order in which they were added, and each
  has an id (`TrackId`) that others may have too; a text is what it was rendered from. The program's stable sort is `Sorted`, which puts every
  track behind as many as come before it; MCQueueView checks that this is what the
  library's sort returns.
* **ChatRights** has, for one chat, the settings, the authorized users, the logger's
  switch and the administrators, each as a source (a document, or Telegram's list) and
  an entry of a cache (**CacheAside**). Handlers are programs over `get, read, fill,
  write, drop`, with what follows in the operator `Got`. `races` records which entry
  was stored by somebody who had been overtaken.
* **Playlists** is the documents of one user, **RecommendHistory** the document and
  the cached slice with the arrays that `append` shares, **Broadcasts** the flags, the
  commands and the goroutines that send. **Bookkeeping** puts these four under one
  `Next`: they share no data, so a behaviour is about one of them (`part`), and their
  states add up instead of multiplying.

`PROJECT.json` maps every action to the lines it models. Operators whose names
continue another's (`DropFirstRetries`, `EnterAlone`, ...) and whose comment begins
with "Variant" are no part of a specification: each is what a plausible bug in
the code would make of the definition that follows it, used to see that a
property fails when it should.

## 3. Runs

All run with `tlc -config X.cfg M`; the two large ones (assistants, bookkeeping)
take two to three minutes, the others a minute or less.

| Run | Module, cfg | Shows |
|---|---|---|
| chat_cache | MCChatCache, ChatCache.cfg | 2 chats, 4 tracks, arrays up to 5 cells, batches up to 2: cells in the window hold a track, cells outside hold nil, no track is in two cells, only the head repeats, and every method does what ChatQueue says |
| playback_conc | MCPlayback, PlaybackConc.cfg | 2 goroutines, 3 tracks, 2 ids, any 3 commands, downloads, playbacks and messages that fail, downloads without a path: what holds of queue, repeat counts and files under every interleaving |
| playback_seq | PlaybackSeq, PlaybackSeq.cfg | 1 goroutine, any 3 commands, with fairness: with no handler at work a queue that is not empty plays its head, `/loop n` plays n times more, less the downloads that fail; every handler returns and the queue plays out, unless a download hangs |
| download | MCDownload, Download.cfg | 3 requests, 2 of them for one track, 1 permit, 2 attempts: one leader per track, what is cached was validated, no needless download, and every request returns unless a download on which it depends hangs |
| ttl_cache | MCTTLCache, TTLCache.cfg | 4 keys in a cache of 2, lifetimes 0 and 1, clock up to 4: map and list agree, eviction is least-recently-used, the sweep spares the living, LossyMap is implemented |
| status | StatusMessage, StatusMessage.cfg | 3 edits, 3 results, deletion on: results stay, the animation ends, results get through |
| assistants | MCAssistants, Assistants.cfg | 2 goroutines, 2 assistants (or only the first started), any 2 plays and stops with all updates, 1 fault, 2 video chats: a stop silences, a rotation advances, what is known of the call is current |
| queue_view | MCQueueView, QueueView.cfg | 2 goroutines, 4 tracks with 3 ids on pages of 2, 2 sorts, 2 filters, an administrator and a user, any 3 presses and commands: a page taken from the cache is true, every track button acts on its track |
| bookkeeping | MCBookkeeping, Bookkeeping.cfg | 2 goroutines on each part; 3 commands or changes of administrators and 1 mishap; 4 edits of up to 4 playlists with a limit of 2; 3 recommendations with a history of 2; 4 orders for broadcasts to 3 targets |
| head_is_playing | MCPlayback, HeadIsPlaying.cfg | *violated*, see below |
| hits_are_verified | MCDownload, HitsAreVerified.cfg | *violated*, see below |
| changes_are_detected | MCQueueView, ChangesAreDetected.cfg | *violated*, see below |

**Bounds.** The queue's operations distinguish the head, the position they are
given and its neighbours; 4 tracks in arrays of 5 cells have every case of a move
to the left and to the right, of re-slicing with and without room, and two chats
show that arrays are not mixed up. In Playback a violation needs two handlers that
overlap and a third command that set the scene; 3 tracks allow a head, a next one
and one behind, with `BatchSize` 2 a playlist behind or before a single track, and
`QueueLimit` 1 is reached. In Download, 2 requests for one
key have a leader and a waiter, the third competes for the permit (so
that in this run one download that hangs may hold up everybody, as four do in the
program). In TTLCache two more keys than places
let an entry be evicted and another one survive. In assistants, two assistants are
the least with a rotation, and a second request overlaps with the first or follows it;
the one fault is any of: an error of Telegram, ntgcalls or the database, a member who
is removed, banned or restricted, a video chat that ends or begins, an expired entry, a
lost connection, a late one. In queue_view three requests are an edit under an open
page, a press and the press that goes wrong; four tracks in pages of two have a full, a
partial and a vanishing page, a middle that the fingerprint does not see, and a view
that sorts and filters change; the second and the last track have one id, in
changes_are_detected the third and the last. In bookkeeping each part has two goroutines that overlap
and a third request that sets the scene or looks at the result; a playlist limit of 2
and a history of 2 are reached and passed. Deadlock is not checked where the
system may stop: Playback when users have used up their commands, Download when all
requests have returned, StatusMessage when goroutines have ended, and the last three when requests are used up.

**Fairness.** *A download need not end*: `http.Get` has no timeout
(`spotify_dl.go:83`), nor has a synchronous download from Telegram (`downloader.go:75,
89`). Playback: weak fairness of each goroutine's handler while it is not downloading (the
Go scheduler runs every goroutine, Telegram and ntgcalls answer), and of the end of a
stream while a goroutine is free to take it (a track has an end, the callback runs on a
goroutine of its own); none of prefetches and of commands: users owe nothing. Download:
weak fairness of each request while it is not downloading (ffprobe has ten seconds); not
of making one, nor of losing entries. What is checked under it says what a hanging
download costs: its handler (`HandlersReturn`), its chat's music (`PlaysOut`), all requests
for its track, and a permit (`EveryRequestReturns`); four of them stop the downloads of
every chat. StatusMessage: weak fairness of the animation, of an `EditText` that has begun
and of the deletions; a handler need not have a result, and need not call `Stop`. The other
runs check safety only and assume no fairness.

**What the violated runs show.**

1. *head_is_playing.* The comments of the queue call index 0 "the currently playing
   track" (`chat_cache.go:250, 264, 280`). A playlist starts and marks its first
   track; a skip runs another `PlayNext` at the same time. When both are done the
   assistant streams a track that is not the head, or the queue is empty and
   something streams. The three locked calls of `PlayNext` (`helpers.go:53-55`) and
   the download behind them would have to be one critical section per chat.
2. *hits_are_verified.* The path cache is documented to hold verified paths
   (`manager.go:47`). A hit only needs a file that is not empty. When the file was
   cleaned up and a later download writes it in place, or was cut off, an entry
   that has not expired leads to a fragment.
3. *changes_are_detected.* `callbacks.go:226` says that changes of the queue are detected.
   With `[x, a, b]` shown, removing `a` and adding a playlist with `b` gives `[x, b, b]`
   with the same length, first and last id, and the old page is shown. With four commands
   it takes no playlist: `/remove` of `b` and `a`, `/play` of `c` and `b`.

Two more disagreements of code and comments are in the models without a run of their own.
`downloadAndPrepareSong` "returns an error when the download fails" (`helpers.go:29`), but
without a path and without an error it edits the status ("Skipping track") and returns nil,
and `playSong` plays the empty path (`FetchFailed`). `RecommendHook` is "invoked once a chat's queue
empties" (`helpers.go:62`), but `PlayNext` removes the last track first and `handleNoSong` then
asks for it, so that with one handler at a time the hook is not called (`NoSong`, `hinted`).

**What the runs of the assistants, the viewer and the bookkeeping show.**

*assistants.* That a chat's stop leaves nobody streaming (`StopSilences`), or able to
once unmuted, does not hold without exceptions, and the ghost variable
`upsets` names each: two attempts to stream at once
(`overlap`; `waitConnect` is one channel per chat), a database command between another
goroutine's command and its store in the cache (`clash`, `core/db/assistant.go:41`), an
answer of `AssignAssistant` that is ignored (`outvoted`, `calls.go:75`: the chat's first play
goes on with an assistant that no stop will look up), a connection
given up after a rotation without being stopped (`orphaned`, `assistant.go:186`), an
assistant that loses the assignment while it streams (also `orphaned`: `evictAssistant`,
`play.go:97`, changes the database and leaves the call as it is, so that the chat's next
assistant streams beside it, and a stop silences only the next one), an
error of the database, /clearass, and an assistant that loses the chat while it plays
(`strayed`: a moderator, or auto-leave, which compares a positive dialog id with the
queues' negative ones and so leaves chats that play, `leave_all.go:102`). The invariant
says that this list is complete, within the bounds of the run and, by the proof below,
without them; it says nothing of what happens after one of them. It took a proof to find
the second kind of `orphaned`: the run's two requests do not suffice for it, three requests
with two faults do. `KnownCallIsCurrent` has exceptions of its own (`CallUpsets`), which
`StopSilences` does not need: an answer stored after a newer update (`assistant.go:317`), an
update to an assistant that was not in the chat, two updates that cross, and an update
without a chat that is dropped because its call is not the one known (`assistant.go:547`): the
cached call, or the knowledge that there is none, then stays.
`RotationAdvances` has none: at most two attempts per assistant. The rotation stops at
a fatal or unknown error, where the comment at `play.go:129` has it try every assistant.

*queue_view.* `ServedPageIsTrue` holds although the fingerprint has only length, first
and last id, because every button that reorders the middle invalidates the pages, and
tracks otherwise come in behind. Three exceptions are in the property: what changed between
the read and the store (`callbacks.go:252`), `/queue`, which stores its page without the
fingerprint (`handlers/queue.go:65`), and an added track with the id of the
fingerprint's last one (`Confused`), which is what changes_are_detected is about. `ButtonsActOnTheirTrack` covers rows, "remove", "move" and
"jump" as long as the track is where the button was drawn for; a track that moved
meanwhile may cost another one its place, as the index is all a button carries. A
"jump" does not start the track while the current one has repeats left.

*bookkeeping.* An entry is out of date only while the writer has not dropped it, after
somebody was overtaken between read and store, or after a lost answer: then for the
entry's lifetime. A verdict is due if nothing failed and nothing was stale: with a
failing database a restriction is *not* enforced (`chats.go:62`), and an expired list of
administrators denies them (`IsAdmin` never fetches), which `VerdictsAreDue` leaves out
by its history variable `fair`. The limit of playlists and the uniqueness of songs hold up to the number
of overlapping commands. A read of the history that fails makes the next write replace
all of it, and `append` may change an array that the cache shows; in other cases
`HistoryIsKept`. A broadcast stops before the second message after its cancellation and
is alone, unless two were begun at once; the cancellation of one may end the next
(`broadcast.go:135`).

What fails is as telling as what holds: `NoneOvertakesOrReturns`, `OnlyTheHeadRepeats` and
`FilesBelongToTracks` survive the same interleavings that break `HeadIsPlaying`: a step
may remove or play the wrong track, but none overtakes another or comes back.
`playback_seq` leaves out the fault that Telegram refuses the status message:
`playSong` then returns with the queue as it is (`calls.go:105`), and
`QueuedMeansPlaying` and `PlaysOut` do not hold. Nor does `PlaysOut` with two handlers: when
the last track has ended, `Stop` clears the queue and then leaves the call
(`calls.go:158-165`); a `/play` that adds and starts a track in between has it stopped,
and its track stays in a queue that nobody plays.

## 4. Proofs

A run shows a property on one small instance. The theorems state it for every value of
the constants, from the assumptions that are named in the modules and that TLC evaluates
in each run.

| Module | Theorem | Property |
|---|---|---|
| PlaybackProofs | `TypeCorrect`, `QueueInOrder`, `LoopsAtTheHead`, `RightFiles` | `TypeOK`, the action property `NoneOvertakesOrReturns`, `OnlyTheHeadRepeats`, `FilesBelongToTracks` |
| | `QueuesPlay`, `LoopsAreCounted` | `QueuedMeansPlaying`, `LoopCountHonoured` (PlaybackSeq) |
| ChatCacheProofs | `TypeCorrect`, `TracksFillTheWindow`, `TracksAreUnique`, `RepeatsAtTheHead` | `TypeOK`, `WindowHoldsTheTracks`, `NoTrackTwice`, `OnlyTheHeadRepeats` |
| | `SlicesAreAQueue`, `MethodsHitTheirIndex` | the refinement `QueueSpec`, the action property `IndexedMethods` |
| DownloadProofs | `TypeCorrect`, `OneDownloadPerTrack`, `StoredAsValidated`, `OnlyNeededDownloads` | `TypeOK`, `OneLeaderPerKey`, `ValidatedUntilStored`, `NoNeedlessDownload` |
| | `DownloadsAreBounded`, `WaitersGetAResult` | (no run's property) |
| | `TextsAreLast`, `LockIsExclusive` | `ResultsStay` (StatusMessage), (no run's property) |
| TTLCacheProofs | `MapIsList`, `JanitorSparesTheLiving`, `LeastRecentGoes` | `MapAndListAgree`, `SweepSparesTheLiving`, `EvictsTheLeastRecent` |
| | `CacheIsALossyMap` | the refinement `LossySpec` |
| BookkeepingProofs | `PlaylistsStayLimited`, `CancellationStops`, `EntriesAreTrue`, `FairVerdictsAreDue` | `ListsAreLimited`, `CancelStops`, `EntriesTellTheTruth`, `VerdictsAreDue` |
| | `HistoriesAreKept` | the action property `HistoryIsKept` |
| AssistantsProofs | `TypeCorrect`, `StopsSilence`, `KnownCallsAreCurrent` | `TypeOK`, `StopSilences`, `KnownCallIsCurrent` |
| | `RotationsAdvance` | the action property `RotationAdvances` |
| QueueViewProofs | `TypeCorrect`, `PagesAreTrue` | `TypeOK`, `ServedPageIsTrue` |
| | `ButtonsActCorrectly` | the action property `ButtonsActOnTheirTrack` |
| | `SameHash` | when the fingerprint tells two queues apart |
| ListProofs | `Kept` | what `Keep` returns, for TTLCache, Playlists and QueueView |

Each module has a theorem `Invariance`, `Spec => []IInv`, from which the others follow;
BookkeepingProofs has an invariant for each part of Bookkeeping instead, and DownloadProofs
a second one, `StatusInvariance`, for the status message. ListProofs has what ChatCache,
QueueView, TTLCache and Bookkeeping need to know of lists: every operation of QueueOps reads the
old queue through a map of indices (`RemoveIsThrough`, `TrimIsThrough`, `ReverseIsThrough`,
`MoveIsThrough`, `ShuffleIsThrough`), and what taking elements out leaves (`Kept`). Few of the
properties are inductive: what they say now may be broken by a goroutine that acts on what
it read earlier. `IInv` adds what is true of those goroutines. Before a proof was tried,
TLC checked the `IInv` on the instance of the run.

**Playback.** *Assumptions:* `WorkersFinite`, `Bounds`, `Outsiders` (naturals that bound
the model; `None`, `NoPath` outside of the sets they are added to). `IInv` has five parts:

* `TypeOK`.
* `QueueInv`: the queue is strictly increasing, its members were issued, and so
  were the tracks that a prefetch is out for.
* `LoopInv`: tracks that are not issued, and tracks *behind the head*, have count
  0. Counts are only written to the head (`SetLoopCount`) or to the first track of
  a playlist that found the queue empty.
* `FileInv`: a track's file is none or that of its id; unissued tracks have
  neither.
* `FrameInv`: for every goroutine, a track it holds was issued; the path it will
  play belongs to that track; the count it will decrement is positive; and the
  track it will mark with `Loop = 1` is not behind the head, because it was the
  head of an empty queue and nothing that is in front can go behind.

The lemmas first say what the operations do to an increasing sequence: all but
`Enqueue` *thin* it (`ThinnedBy`): what remains is still increasing and what is
behind the new head was behind the old one. So one lemma (`ThinStep`) serves all steps that
remove tracks, one (`FrameOnly`) all steps that only move a handler, and `IssueStep`
both ways of adding tracks.

*One handler at a time.* PlaybackSeq's invariants are proved under `OneHandler`: one
worker, and Telegram takes every message. Both are needed: `HeadIsPlaying` shows what two
handlers do, and a message that fails leaves a queue that nothing plays (`calls.go:105`).
`SeqInv` is a table of what each place of the handler says of the head (`PlaceOK`): it plays
and its count is what it is owed (`HeadPlays`), or it is about to play, once more than its
count (`AboutToPlay`). The cases that matter are the failures. A failed download goes back to
the top of PlayNext, which would repeat the track if it had a count; it may have one,
because a track that was played with an empty path is downloaded again when it repeats. The
failed download used up one of the starts that were due (`StartIsLost`), so that the count
is again what the head is owed (`HeadCounts`). A failed playback empties the queue before
the next attempt. What waits behind the head has not been played yet (`PlaysInv`).

**ChatCache.** *Assumptions:* `NilIsNoTrack`, `AbsentIsNoSlice`, `BoundsAreNaturals`. The
run's invariants together are inductive, because a method holds the lock from its first
line to its last. The work is in the methods, which re-slice, copy within an array and clear
cells. All but `AddSongs` and `SetLoopCount` *rearrange* (`Rearranges(r, s, m)`): position
`k` of the new window shows what `m[k]` of the old one showed, for an injective `m` that
brings no head into what is up next. Every method supplies its `m` (a shift, a cycle, a
reversal, the runtime's permutation); that a rearrangement keeps the invariant is proved
once. `AddSongs` is `append`, in place or into a new array of any size. For the refinement
each method's `m` is compared with the operator of QueueOps that ChatQueue uses.

**Download.** *Assumptions:* `FiniteRequests`, `RequestsHaveKeys`, `Limits`,
`NoneIsNothing`. Everything rests on `Led`: a request that works on a key *is* the call in
flight for that key, so nobody else writes the key's file or entry between the leader's look
and its download, or between its validation and its store. `Informed` says what the leader
knows at each line, `Settled` what a waiter may rely on, `Permitted` that the permits are
those who download. `Called` and `Awaited` are what `WaitersGetAResult` needs: a call in
flight has a leader at work on its key, and who waits has a leader of its own key that has
closed its channel, with a result, or is at work still: nobody waits for a call that is gone.

**TTLCache.** *Assumptions:* `CacheBounds`, `NoneIsNothing`. `Listed` (the list has the
cached keys, each once) and `Recent` (a key was used after those behind it, by the history
variable `passed`) are kept because taking keys out of a list keeps the rest in their order
(`Kept`), and a used key goes to the front. `ClockRead` (the sweep's clock is not ahead)
is what the janitor needs, `FewPassed` what counting needs.

**StatusMessage.** *Assumptions:* `EditLimits`, `CleanupIsASwitch`. `Exclusive`: who is
between `Lock` and `Unlock` holds the mutex. `Ordered`: the animation is there only while
nothing is resolved, and a result that is shown was resolved. `Later`: the handler is at a
result later than the one that is shown.

**Bookkeeping.** *Assumptions:* `SomeUsers`, `AskedAssumption`, `PlaylistAssumption`,
`HistoryBounds`, `BroadcastBounds`. The parts share no variables: each has its invariant,
and a step of one part leaves the others' alone (`OneOfTheParts`).

* *Rights.* `EntriesTellTheTruth` is about entries, but an entry is stored by a goroutine
  that read earlier. `RightsInv` adds a table of what each place says of its goroutine
  (`Fits`) and two facts about who is on the way to a store: whoever was not overtaken
  holds what the source has (`HoldsTruth`), and an update about an administrator tells the
  truth unless a newer one was handled or is still to come (`NewestTellsTruth`).
  `VerdictsInv` adds what a command knows at each place (`Judging`), as long as it is judged
  fairly, so that its verdict is a function of the settings and the administrators of now.
* *Recommendations.* `HistoryInv` says what a goroutine that was not overtaken holds: the
  document, or from the merge on what the document will be (`Current`). Slices share arrays,
  and `append` writes into the cell behind one. That this cell is never one that
  the entry shows, while the entry is to be relied upon, is `Behind`; it is kept because who
  appends holds the entry's slice or one in another array (`Apart`). The lemmas `ArrayAdded`
  and `CellWritten` say what `append` leaves of the other slices, `Extends` what the new
  one shows.
* *Playlists.* `ListsAreLimited` counts the commands that overlapped, and what it says of
  the goroutines in between makes it inductive with their types.
* *Broadcasts.* `CancelStops` counts what a run sends after it was told to stop; nothing in
  it keeps such a run from going on. `BroadcastsInv` adds that, unless two broadcasts were
  begun at once, a live run was told exactly when the cancel flag is up (`FlagsTell`), and
  that a run which was not told, or is about to send, has sent nothing since (`RunStops`).

**Assistants.** *Assumptions:* `SomeAssistants`, `Bounds`, `Names`. `IInv` has three parts.

* `TInv`: the types, and `Fits`, a table of what each control point says of the request,
  the assistant it works with and those it tried. `RotationAdvances` needs no more.
* `SaneInv`, while no upset of section 3 happened but those of the known calls (`CallUpsets`). It answers who may be
  engaged (streams, or would once unmuted): the assistant that is assigned, or one whose request
  is about to assign it (`EngagedIsOwned`), of which there is one (`OneStreams`). For this
  the goroutines have to carry the truth (`CarriesTruth`): what one is about to store
  in the cache is what the database holds, and the cache lags only between the two steps
  of a rotation (`CacheFollows`). An attempt to play is with the assigned assistant or with
  nobody else engaged (`AttemptIsAlone`), and a stop that counts as one runs alone
  (`StopIsAlone`).
* `KnownInv`: an update that is on its way tells of the present call, and without one the
  knowledge is right, unless one of `CallUpsets` happened.

An action that only moves a goroutine, one that changes the store, one that changes the call
and one of the environment each have a lemma that says what they must show for the
three parts; then there is one step per action. The proof failed at first where an assistant is
evicted while it streams; TLC confirmed this on a larger instance than the run's, and the
model now says what the code does (section 3).

**QueueView.** *Assumptions:* `Parameters`: at least two tracks, pages of at least one track,
the default sort and filter are offered, sort keys are integers; nothing about how many
goroutines, sorts, filters or users there are. `IInv` has four parts.

* `QueueOK`, `StateOK`, `ScreenOK`: the queue has distinct tracks among those that were added,
  and the records of the manager and of the screen have their fields. That the page
  stays among those there can be (`ClampFacts`) rests on what division gives (`PageCounts`).
* `Fits` and `Fresh`, for each goroutine: what its fields hold at each step, and that whoever
  is not late holds the queue and the settings of now.
* `Wanted`: where the track is that a button was drawn for. The detail's index leads to it
  until the handler acts; after "jmp" it is the second one. A row
  is found through sort, filter and page, so this needs that a view holds tracks of the
  queue with the head in front (`IsView`, `SortIsView`, `ViewFacts`), and that a page that
  does not exist has no rows (`RowFacts`).
* `CacheInv`: an invalidation is to come (`Pending`), or every page kept was rendered from
  some queue `q0` that has the stored fingerprint, and the queue of now *descends* from `q0`
  (`Ancestor`): what is in front of a track of `q0` was in front of it in `q0`, and what is
  new lies behind. Removing, playing and adding keep this (`RemovalLeaves`, `CurrentLeaves`,
  `EnqueueFacts`); shuffling, reversing and moving do not, and each of these handlers
  invalidates. Descending includes that no track that is new has the id of `q0`'s last one;
  when one has, what is cached is late (`ConfusedFacts`). `ServedPageIsTrue` then follows
  because an equal fingerprint means an equal queue (`SameHash`): the last track is not new,
  since its id is `q0`'s last; so all of the queue is of `q0`, in its order, and with the
  same length there is no room for another choice.

The page of `/queue` needs no case of its own: it is stored under a fingerprint that it may
not have, and counts as late then. A step moves one goroutine and leaves each of the others as
it was, without the track it wanted, or late (`Marked`); `MarkedFacts` says once what this
keeps, so that each action has to show only what it does to its own goroutine and to the cache.

## 5. What is not proved, and what is not modelled

*Only model-checked:*

* the violations, and liveness (`HandlersReturn`, `PlaysOut`, `EveryRequestReturns`, `AnimationEnds`,
  `ResultsGetThrough`): the prover handles neither fairness nor ENABLED;
* that `Keep` is SelectSeq on lists of up to three keys, and `Sorted` is SortSeq on queues
  of up to four tracks: both are recursive.

Every safety property that a run checks and that holds is proved.

*Abstractions of Playback worth knowing:* one chat (chats share only downloads and
assistants); at least one assistant is started, since without one `/play` fails
before any step of interest; the commands of the queue viewer that reorder (shuffle,
reverse, move) are in ChatCache, not here, and `NoneOvertakesOrReturns` speaks of a queue
that nobody reorders; files sent as Telegram media go the way of a single track but
are not prefetched; a `TrackID` stands for the id and for audio or video, although
`SetTrackFilePath` compares the id alone; the queue lock, permissions, replies and
searching only decide whether a command is taken up. Unsynchronised writes to a
track's fields are steps of their own; torn reads are not modelled.

*Abstractions of the other modules worth knowing:* Assistants has one chat, knows of
its queue only whether it has tracks, and of ntgcalls what `Play` relies on; presentations
are never asked for. QueueView's page size, sorts and filters are parameters; export and
texts are left out; `denyAdmin` and the answers to buttons change nothing. Playlists leaves out that
`GetUserPlaylists` returns what it has read so far when the cursor fails
(`playlist.go:157-164`). ChatRights
merges the retries of a database read into one, takes the two look-ups of `IsAdmin` and
`IsAuthUser` as one, and leaves out the three minutes between two reloads, the language and
`cmd_delete`, which nothing reads but the keyboard. RecommendHistory recommends one track
at a time. Torn reads of Go values are not modelled anywhere.

*Not modelled:* the player panel (`internal/player/ui`), which nothing creates at this
commit; thumbnails and the layout of messages and buttons, which keep no state;
configuration and start-up, which run once before anything is concurrent; searching,
parsing and decryption of the providers, which is I/O around what Download models; the
marshalling of `ntgcalls.go`. The components in `PROJECT.json` have the details.

## 6. Plan

What is left, in this order:

1. Playback with audio and video of one id, and with the queue lock.
2. Liveness of Assistants: a play request ends, under fairness of the goroutines and of
   what the timeouts bound.
