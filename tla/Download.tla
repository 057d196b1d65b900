------------------------------ MODULE Download ------------------------------
(***************************************************************************)
(* Downloads (src/core/dl/manager.go): the path cache, the group that lets *)
(* one download serve every caller that asks for the same track, the       *)
(* semaphore shared by all chats, retries and validation.                  *)
(*                                                                         *)
(* A request is one call of resolveViaManager; its key stands for a track. *)
(* The request that downloads is the leader of its key, and stands for the *)
(* inFlightCall object it shares with the requests that wait for it.       *)
(*                                                                         *)
(* A provider writes a track's file under one fixed name.  yt-dlp is run   *)
(* with --no-part (youtube.go:193) and ffmpeg writes Spotify's .ogg in     *)
(* place (spotify_dl.go:fixOGG): under that name there may be a fragment,  *)
(* while a download runs and after one was cut off.                        *)
(***************************************************************************)
EXTENDS Naturals, FiniteSets

CONSTANTS Requests,     \* the calls of resolveViaManager
          Keys,         \* "platform:id:video=bool"
          KeyOf,        \* the key a request asks for
          MaxParallel,  \* maxParallelDownloads
          MaxAttempts,  \* maxDownloadRetries
          None

ASSUME FiniteRequests == IsFiniteSet(Requests)
ASSUME RequestsHaveKeys == KeyOf \in [Requests -> Keys]
ASSUME Limits == MaxParallel \in Nat \ {0} /\ MaxAttempts \in Nat \ {0}
ASSUME NoneIsNothing == None \notin Requests \cup {"file", "url", "error"}

VARIABLES at,       \* where a request is
          leader,   \* the request whose inFlightCall it waits on
          tries,    \* attempts so far
          result,   \* what it found: a local file, a remote url or an error
          calls,    \* inFlightGroup.calls: the leader of a key, or None
          closed,   \* leaders whose done channel is closed
          permits,  \* requests that hold a permit of downloadSemaphore
          cache,    \* downloadPathCache: what kind of path a key has
          disk      \* what there is under the track's file name

mine == <<leader, tries, result>>
vars == <<at, mine, calls, closed, permits, cache, disk>>

Found == {"file", "url"}

Init ==
    /\ at = [r \in Requests |-> "new"]
    /\ leader = [r \in Requests |-> None]
    /\ tries = [r \in Requests |-> 0]
    /\ result = [r \in Requests |-> None]
    /\ calls = [k \in Keys |-> None]
    /\ closed = {}
    /\ permits = {}
    /\ cache = [k \in Keys |-> None]
    /\ disk = [k \in Keys |-> "nothing"]

Goto(r, label) == at' = [at EXCEPT ![r] = label]
Step(r, from, to) == at[r] = from /\ Goto(r, to)

\* Get and isPathStillValid: a url is trusted, a file only has to be there
\* and not be empty, which a fragment is not.
Hit(k) ==
    \/ cache[k] = "url"
    \/ cache[k] = "file" /\ disk[k] # "nothing"

\* resolveViaManager asks the cache before it joins the group.
Peek(r) ==
    /\ at[r] = "new"
    /\ IF Hit(KeyOf[r])
       THEN Goto(r, "returned") /\ result' = [result EXCEPT ![r] = cache[KeyOf[r]]]
       ELSE Goto(r, "enter") /\ UNCHANGED result
    /\ UNCHANGED <<leader, tries, calls, closed, permits, cache, disk>>

\* Variant: the group does not look for a call that is in flight.
EnterAlone(r) ==
    /\ Step(r, "enter", "recheck")
    /\ calls' = [calls EXCEPT ![KeyOf[r]] = r]
    /\ UNCHANGED <<mine, closed, permits, cache, disk>>

\* inFlightGroup.do, under its mutex: wait for the call that is there, or
\* enter one's own.
Enter(r) ==
    /\ at[r] = "enter"
    /\ IF calls[KeyOf[r]] # None
       THEN /\ Goto(r, "wait")
            /\ leader' = [leader EXCEPT ![r] = calls[KeyOf[r]]]
            /\ UNCHANGED calls
       ELSE /\ Goto(r, "recheck")
            /\ calls' = [calls EXCEPT ![KeyOf[r]] = r]
            /\ UNCHANGED leader
    /\ UNCHANGED <<tries, result, closed, permits, cache, disk>>

\* Variant: the leader does not look into the cache again.
RecheckSkipped(r) ==
    /\ Step(r, "recheck", "acquire")
    /\ UNCHANGED <<mine, calls, closed, permits, cache, disk>>

Recheck(r) ==
    /\ at[r] = "recheck"
    /\ IF Hit(KeyOf[r])
       THEN Goto(r, "close") /\ result' = [result EXCEPT ![r] = cache[KeyOf[r]]]
       ELSE Goto(r, "acquire") /\ UNCHANGED result
    /\ UNCHANGED <<leader, tries, calls, closed, permits, cache, disk>>

Acquire(r) ==
    /\ Step(r, "acquire", "attempt")
    /\ Cardinality(permits) < MaxParallel
    /\ permits' = permits \cup {r}
    /\ UNCHANGED <<mine, calls, closed, cache, disk>>

\* A provider returns what is there under the name, whatever it is, or starts
\* to write: in place, or beside it until it is complete.
Begin(r) ==
    /\ at[r] = "attempt"
    /\ tries' = [tries EXCEPT ![r] = @ + 1]
    /\ \/ /\ disk[KeyOf[r]] # "nothing"
          /\ Goto(r, "validate")
          /\ UNCHANGED disk
       \/ /\ Goto(r, "download")
          /\ \/ disk' = [disk EXCEPT ![KeyOf[r]] = "fragment"]
             \/ UNCHANGED disk
    /\ UNCHANGED <<leader, result, calls, closed, permits, cache>>

\* Variant: what a provider returns is trusted.
FinishTrusts(r) ==
    /\ Step(r, "download", "store")
    /\ \E found \in {"playable", "fragment"} :
           disk' = [disk EXCEPT ![KeyOf[r]] = found]
    /\ result' = [result EXCEPT ![r] = "file"]
    /\ UNCHANGED <<leader, tries, calls, closed, permits, cache>>

\* The attempt ends: with a file, good or not, with a remote url, or with an
\* error, transient or permanent, that leaves behind what was written so far.
Finish(r) ==
    /\ \/ /\ Step(r, "download", "validate")
          /\ \E found \in {"playable", "fragment"} :
                 disk' = [disk EXCEPT ![KeyOf[r]] = found]
          /\ UNCHANGED result
       \/ /\ Step(r, "download", "store")
          /\ result' = [result EXCEPT ![r] = "url"]
          /\ UNCHANGED disk
       \/ /\ Step(r, "download", "retry")
          /\ UNCHANGED <<result, disk>>
       \/ /\ Step(r, "download", "release")
          /\ result' = [result EXCEPT ![r] = "error"]
          /\ UNCHANGED disk
    /\ UNCHANGED <<leader, tries, calls, closed, permits, cache>>

\* validateMediaFile; a file that fails is removed.
Validate(r) ==
    /\ at[r] = "validate"
    /\ IF disk[KeyOf[r]] = "playable"
       THEN /\ Goto(r, "store")
            /\ result' = [result EXCEPT ![r] = "file"]
            /\ UNCHANGED disk
       ELSE /\ Goto(r, "retry")
            /\ disk' = [disk EXCEPT ![KeyOf[r]] = "nothing"]
            /\ UNCHANGED result
    /\ UNCHANGED <<leader, tries, calls, closed, permits, cache>>

\* Variant: one attempt too many.
RetryOnceMore(r) ==
    /\ at[r] = "retry"
    /\ IF tries[r] <= MaxAttempts
       THEN Goto(r, "attempt") /\ UNCHANGED result
       ELSE Goto(r, "release") /\ result' = [result EXCEPT ![r] = "error"]
    /\ UNCHANGED <<leader, tries, calls, closed, permits, cache, disk>>

\* Variant: giving up keeps the permit.
RetryLeaks(r) ==
    /\ at[r] = "retry"
    /\ IF tries[r] < MaxAttempts
       THEN Goto(r, "attempt") /\ UNCHANGED result
       ELSE Goto(r, "close") /\ result' = [result EXCEPT ![r] = "error"]
    /\ UNCHANGED <<leader, tries, calls, closed, permits, cache, disk>>

Retry(r) ==
    /\ at[r] = "retry"
    /\ IF tries[r] < MaxAttempts
       THEN Goto(r, "attempt") /\ UNCHANGED result
       ELSE Goto(r, "release") /\ result' = [result EXCEPT ![r] = "error"]
    /\ UNCHANGED <<leader, tries, calls, closed, permits, cache, disk>>

Store(r) ==
    /\ Step(r, "store", "release")
    /\ cache' = [cache EXCEPT ![KeyOf[r]] = result[r]]
    /\ UNCHANGED <<mine, calls, closed, permits, disk>>

Release(r) ==
    /\ Step(r, "release", "close")
    /\ permits' = permits \ {r}
    /\ UNCHANGED <<mine, calls, closed, cache, disk>>

Close(r) ==
    /\ Step(r, "close", "forget")
    /\ closed' = closed \cup {r}
    /\ UNCHANGED <<mine, calls, permits, cache, disk>>

Forget(r) ==
    /\ Step(r, "forget", "returned")
    /\ calls' = [calls EXCEPT ![KeyOf[r]] = None]
    /\ UNCHANGED <<mine, closed, permits, cache, disk>>

Wait(r) ==
    /\ Step(r, "wait", "returned")
    /\ leader[r] \in closed
    /\ result' = [result EXCEPT ![r] = result[leader[r]]]
    /\ UNCHANGED <<leader, tries, calls, closed, permits, cache, disk>>

Resolve(r) ==
    \/ Enter(r) \/ Recheck(r) \/ Acquire(r) \/ Begin(r) \/ Finish(r)
    \/ Validate(r) \/ Retry(r) \/ Store(r) \/ Release(r) \/ Close(r)
    \/ Forget(r) \/ Wait(r)

\* The entry expires or is evicted (TTLCache).
Lose(k) ==
    /\ cache[k] # None
    /\ cache' = [cache EXCEPT ![k] = None]
    /\ UNCHANGED <<at, mine, calls, closed, permits, disk>>

\* "Local files might have been cleaned up" (manager.go:137), by something
\* outside the program.
CleanUp(k) ==
    /\ disk[k] # "nothing"
    /\ disk' = [disk EXCEPT ![k] = "nothing"]
    /\ UNCHANGED <<at, mine, calls, closed, permits, cache>>

Next ==
    \/ \E r \in Requests : Peek(r) \/ Resolve(r)
    \/ \E k \in Keys : Lose(k) \/ CleanUp(k)

Spec == Init /\ [][Next]_vars

\* Goroutines run, and ffprobe has its ten seconds; but a download need not
\* end: http.Get has no timeout (spotify_dl.go:83).  Nobody has to make a
\* request.
FairSpec == Spec /\ \A r \in Requests : WF_vars(at[r] # "download" /\ Resolve(r))

-----------------------------------------------------------------------------
Labels == {"new", "enter", "wait", "recheck", "acquire", "attempt", "download",
           "validate", "retry", "store", "release", "close", "forget", "returned"}

TypeOK ==
    /\ at \in [Requests -> Labels]
    /\ leader \in [Requests -> Requests \cup {None}]
    /\ tries \in [Requests -> 0..MaxAttempts]
    /\ result \in [Requests -> Found \cup {"error", None}]
    /\ calls \in [Keys -> Requests \cup {None}]
    /\ closed \subseteq Requests
    /\ permits \subseteq Requests
    /\ cache \in [Keys -> Found \cup {None}]
    /\ disk \in [Keys -> {"nothing", "fragment", "playable"}]

Working == {"recheck", "acquire", "attempt", "download", "validate", "retry",
            "store", "release", "close", "forget"}

\* "Only one real download happens" (manager.go:65): two requests for one
\* track never both work on it, so never write its file at the same time.
OneLeaderPerKey ==
    \A r, s \in Requests :
        at[r] \in Working /\ at[s] \in Working /\ KeyOf[r] = KeyOf[s] => r = s

\* What was found playable is still playable, or gone, when it is entered
\* into the cache: nobody rewrites the file after its validation.
ValidatedUntilStored ==
    \A r \in Requests :
        at[r] = "store" /\ result[r] = "file" => disk[KeyOf[r]] # "fragment"

\* "The same track is never downloaded twice while the entry is still valid"
\* (manager.go:50): no attempt starts while the cache would be hit, although
\* the cache was asked before the wait for a permit.
NoNeedlessDownload ==
    [][\A r \in Requests : at[r] = "acquire" /\ at'[r] = "attempt" => ~Hit(KeyOf[r])]_vars

\* A download of r's own track is under way, or as many as there are permits.
HeldUp(r) ==
    LET downloading == {s \in Requests : at[s] = "download"} IN
    \/ \E s \in downloading : KeyOf[s] = KeyOf[r]
    \/ Cardinality(downloading) = MaxParallel

\* Every request returns, those that wait for a leader and those that wait for
\* a permit while others fail and retry: in the end only downloads that hang
\* hold anybody up, that of the request's own track or one for every permit.
EveryRequestReturns ==
    <>[](\A r \in Requests : at[r] \in {"new", "returned"} \/ HeldUp(r))

\* The cache holds "a verified local file path" (manager.go:49): what a hit
\* returns was found playable, and is no fragment.
HitsAreVerified == \A k \in Keys : cache[k] = "file" => disk[k] # "fragment"
=============================================================================
