--------------------------- MODULE DownloadProofs ---------------------------
(***************************************************************************)
(* What the download group promises, for any number of requests, keys,     *)
(* permits and attempts.                                                   *)
(*                                                                         *)
(* Everything rests on one fact about the group: a request that works on a *)
(* key is the call the group has for that key.  So nobody else writes the  *)
(* key's file or its cache entry between the leader's look into the cache  *)
(* and its download, or between its validation and its store.              *)
(*                                                                         *)
(* Then the status message that shows what /play is at: the text of a      *)
(* result stays on it, for any number of edits and results, with and       *)
(* without cleanup.                                                        *)
(***************************************************************************)
EXTENDS Download, StatusMessage, FiniteSetTheorems, TLAPS

Downloading == {"attempt", "download", "validate", "retry", "store", "release"}

\* The group's call for a key is the request that works on it.
Led == \A r \in Requests : at[r] \in Working => calls[KeyOf[r]] = r

\* What the leader knows of its key, of its attempts and of its result.
Knows(r) ==
    /\ at[r] \in {"new", "enter", "recheck", "acquire"} => tries[r] = 0
    /\ at[r] = "acquire" => ~Hit(KeyOf[r])
    /\ at[r] = "attempt" => tries[r] < MaxAttempts
    /\ at[r] = "store" => result[r] \in Found
    /\ at[r] = "store" /\ result[r] = "file" => disk[KeyOf[r]] # "fragment"
    /\ at[r] \in {"release", "close"} => result[r] \in Found \cup {"error"}
Informed == \A r \in Requests : Knows(r)

\* A leader whose channel is closed has a result and will not change it, and
\* its entry goes only after that.
Settled ==
    /\ \A r \in closed : /\ at[r] \in {"forget", "returned"}
                         /\ result[r] \in Found \cup {"error"}
    /\ \A r \in Requests : at[r] = "forget" => r \in closed

\* The group's call for a key is a request that works on that key.
Called == \A k \in Keys : calls[k] # None => /\ at[calls[k]] \in Working
                                            /\ KeyOf[calls[k]] = k

\* Who waits has a leader that asked for the same key, and that has closed its
\* channel or has yet to do so.
Awaits(r) ==
    /\ leader[r] \in Requests
    /\ KeyOf[leader[r]] = KeyOf[r]
    /\ leader[r] \in closed \/ at[leader[r]] \in Working \ {"forget"}
Awaited == \A r \in Requests : at[r] = "wait" => Awaits(r)

\* A permit is held from the first attempt to the release.
Permitted ==
    /\ permits = {r \in Requests : at[r] \in Downloading}
    /\ Cardinality(permits) <= MaxParallel

IInv == TypeOK /\ Led /\ Informed /\ Settled /\ Called /\ Awaited /\ Permitted

-----------------------------------------------------------------------------

LEMMA InitIInv == Init => IInv
<1> SUFFICES ASSUME Init PROVE IInv
  OBVIOUS
<1>1. TypeOK
  BY Limits DEF Init, TypeOK, Labels, Found
<1>2. Led /\ Informed /\ Settled /\ Called /\ Awaited
  BY DEF Init, Led, Informed, Knows, Settled, Called, Awaited, Working
<1>3. Permitted
  BY FS_EmptySet, Limits DEF Init, Permitted, Downloading
<1> QED
  BY <1>1, <1>2, <1>3 DEF IInv

LEMMA PeekType == ASSUME TypeOK, NEW r \in Requests, Peek(r) PROVE TypeOK'
BY RequestsHaveKeys DEF TypeOK, Peek, Goto, Hit, Labels, Found

\* Every step of a request keeps the types.
LEMMA ResolveType ==
  ASSUME IInv, NEW r \in Requests, Resolve(r)
  PROVE  TypeOK'
<1> USE RequestsHaveKeys, Limits DEF IInv, TypeOK, mine, Step, Goto
<1>1. CASE Enter(r)
  BY <1>1 DEF Enter, Labels
<1>2. CASE Recheck(r)
  BY <1>2 DEF Recheck, Hit, Labels, Found
<1>3. CASE Acquire(r)
  BY <1>3 DEF Acquire, Labels
<1>4. CASE Begin(r)
  <2>1. tries[r] + 1 \in 0..MaxAttempts
    BY <1>4 DEF Begin, Informed, Knows
  <2> QED
    BY <1>4, <2>1 DEF Begin, Labels
<1>5. CASE Finish(r)
  BY <1>5 DEF Finish, Labels, Found
<1>6. CASE Validate(r)
  BY <1>6 DEF Validate, Labels, Found
<1>7. CASE Retry(r)
  BY <1>7 DEF Retry, Labels
<1>8. CASE Store(r)
  <2>1. result[r] \in Found
    BY <1>8 DEF Store, Informed, Knows
  <2> QED
    BY <1>8, <2>1 DEF Store, Labels
<1>9. CASE Release(r)
  BY <1>9 DEF Release, Labels
<1>10. CASE Close(r)
  BY <1>10 DEF Close, Labels
<1>11. CASE Forget(r)
  BY <1>11 DEF Forget, Labels
<1>12. CASE Wait(r)
  <2>1. leader[r] \in Requests
    BY <1>12 DEF Wait, Awaited, Awaits
  <2> QED
    BY <1>12, <2>1 DEF Wait, Labels, Found
<1> QED
  BY <1>1, <1>2, <1>3, <1>4, <1>5, <1>6, <1>7, <1>8, <1>9, <1>10, <1>11, <1>12 DEF Resolve

\* A request's step leaves what the others have, and the file, the cache
\* entry and the group's call of a key that another request works on.
LEMMA OthersStand ==
  ASSUME IInv, NEW r \in Requests, Peek(r) \/ Resolve(r), NEW s \in Requests, s # r
  PROVE  /\ at'[s] = at[s] /\ leader'[s] = leader[s]
         /\ tries'[s] = tries[s] /\ result'[s] = result[s]
         /\ s \in permits' <=> s \in permits
         /\ s \in closed' <=> s \in closed
         /\ at[s] \in Working =>
                /\ calls'[KeyOf[s]] = calls[KeyOf[s]]
                /\ disk'[KeyOf[s]] = disk[KeyOf[s]]
                /\ cache'[KeyOf[s]] = cache[KeyOf[s]]
<1> USE RequestsHaveKeys DEF IInv, TypeOK, mine, Step, Goto
<1>1. /\ at'[s] = at[s] /\ leader'[s] = leader[s]
      /\ tries'[s] = tries[s] /\ result'[s] = result[s]
      /\ s \in permits' <=> s \in permits
      /\ s \in closed' <=> s \in closed
  BY DEF Peek, Resolve, Enter, Recheck, Acquire, Begin, Finish, Validate, Retry, Store,
         Release, Close, Forget, Wait
<1>2. ASSUME at[s] \in Working, at[r] \in Working PROVE KeyOf[r] # KeyOf[s]
  BY <1>2 DEF Led
<1>3. ASSUME at[s] \in Working, at[r] = "enter", calls[KeyOf[r]] = None
      PROVE  KeyOf[r] # KeyOf[s]
  BY <1>3, NoneIsNothing DEF Led
<1>4. ASSUME at[s] \in Working
      PROVE  /\ calls'[KeyOf[s]] = calls[KeyOf[s]]
             /\ disk'[KeyOf[s]] = disk[KeyOf[s]]
             /\ cache'[KeyOf[s]] = cache[KeyOf[s]]
  BY <1>2, <1>3, <1>4 DEF Working, Peek, Resolve, Enter, Recheck, Acquire, Begin, Finish,
     Validate, Retry, Store, Release, Close, Forget, Wait
<1> QED
  BY <1>1, <1>4

\* What the others know and hold stays true.
LEMMA OthersKnow ==
  ASSUME IInv, NEW r \in Requests, Peek(r) \/ Resolve(r), NEW s \in Requests, s # r
  PROVE  /\ at'[s] \in Working => calls'[KeyOf[s]] = s
         /\ Knows(s)'
         /\ s \in closed' => /\ at'[s] \in {"forget", "returned"}
                             /\ result'[s] \in Found \cup {"error"}
         /\ at'[s] = "forget" => s \in closed'
         /\ s \in permits' <=> at'[s] \in Downloading
BY OthersStand DEF IInv, Led, Informed, Knows, Settled, Permitted, Hit, Working

\* What a request knows and holds after a step of its own.
LEMMA OwnStep ==
  ASSUME IInv, NEW r \in Requests, Peek(r) \/ Resolve(r)
  PROVE  /\ at'[r] \in Working => calls'[KeyOf[r]] = r
         /\ Knows(r)'
         /\ r \in closed' => /\ at'[r] \in {"forget", "returned"}
                             /\ result'[r] \in Found \cup {"error"}
         /\ at'[r] = "forget" => r \in closed'
         /\ r \in permits' <=> at'[r] \in Downloading
<1> USE RequestsHaveKeys DEF TypeOK, mine, Step, Goto, Working, Downloading
<1> DEFINE Before ==
      /\ at[r] \in Working => calls[KeyOf[r]] = r
      /\ Knows(r)
      /\ r \in closed => /\ at[r] \in {"forget", "returned"}
                         /\ result[r] \in Found \cup {"error"}
      /\ at[r] = "forget" => r \in closed
      /\ r \in permits <=> at[r] \in Downloading
<1>0. TypeOK /\ Before
  BY DEF IInv, Led, Informed, Settled, Permitted
<1>1. CASE Peek(r)
  BY <1>0, <1>1 DEF Peek, Knows
<1>2. CASE Enter(r)
  BY <1>0, <1>2 DEF Enter, Knows
<1>3. CASE Recheck(r)
  BY <1>0, <1>3, NoneIsNothing DEF Recheck, Knows, Hit, Found
<1>4. CASE Acquire(r)
  BY <1>0, <1>4, Limits DEF Acquire, Knows
<1>5. CASE Begin(r)
  BY <1>0, <1>5 DEF Begin, Knows
<1>6. CASE Finish(r)
  BY <1>0, <1>6 DEF Finish, Knows, Found
<1>7. CASE Validate(r)
  BY <1>0, <1>7 DEF Validate, Knows, Found
<1>8. CASE Retry(r)
  BY <1>0, <1>8 DEF Retry, Knows, Found
<1>9. CASE Store(r)
  BY <1>0, <1>9 DEF Store, Knows
<1>10. CASE Release(r)
  BY <1>0, <1>10 DEF Release, Knows
<1>11. CASE Close(r)
  BY <1>0, <1>11 DEF Close, Knows
<1>12. CASE Forget(r)
  BY <1>0, <1>12 DEF Forget, Knows
<1>13. CASE Wait(r)
  BY <1>0, <1>13 DEF Wait, Knows
<1> QED
  BY <1>1, <1>2, <1>3, <1>4, <1>5, <1>6, <1>7, <1>8, <1>9, <1>10, <1>11, <1>12, <1>13 DEF Resolve

\* Permits are taken one at a time, while there are some.
LEMMA PermitsStayFew ==
  ASSUME IInv, NEW r \in Requests, Peek(r) \/ Resolve(r)
  PROVE  Cardinality(permits') <= MaxParallel
<1>1. IsFiniteSet(permits) /\ Cardinality(permits) \in Nat
  BY FiniteRequests, FS_Subset, FS_CardinalityType DEF IInv, TypeOK
<1>2. CASE Acquire(r)
  <2>1. Cardinality(permits') <= Cardinality(permits) + 1
    BY <1>1, <1>2, FS_AddElement DEF Acquire
  <2> QED
    BY <1>1, <1>2, <2>1, FS_CardinalityType, FS_AddElement, Limits DEF Acquire
<1>3. CASE Release(r)
  <2>1. Cardinality(permits') <= Cardinality(permits)
    BY <1>1, <1>3, FS_RemoveElement DEF Release
  <2>2. Cardinality(permits') \in Nat
    BY <1>1, <1>3, FS_RemoveElement, FS_CardinalityType DEF Release
  <2> QED
    BY <1>1, <2>1, <2>2, Limits DEF IInv, Permitted
<1>4. CASE permits' = permits
  BY <1>4 DEF IInv, Permitted
<1> QED
  BY <1>2, <1>3, <1>4 DEF Peek, Resolve, Enter, Recheck, Begin, Finish, Validate, Retry,
     Store, Close, Forget, Wait

\* The group's calls are those that work, although entries come and go.
LEMMA CallsWork ==
  ASSUME IInv, NEW r \in Requests, Peek(r) \/ Resolve(r)
  PROVE  Called'
<1> SUFFICES ASSUME NEW k \in Keys, calls'[k] # None
             PROVE  at'[calls'[k]] \in Working /\ KeyOf[calls'[k]] = k
  BY DEF Called
<1>1. at \in [Requests -> Labels] /\ calls \in [Keys -> Requests \cup {None}]
  BY DEF IInv, TypeOK
<1>2. calls[k] # None => at[calls[k]] \in Working /\ KeyOf[calls[k]] = k
  BY DEF IInv, Called
<1> USE RequestsHaveKeys DEF Step, Goto, mine
<1>3. CASE Enter(r)
  BY <1>1, <1>2, <1>3, NoneIsNothing DEF Enter, Working
<1>4. CASE Forget(r)
  BY <1>1, <1>2, <1>4 DEF Forget, Working
<1>5. CASE ~Enter(r) /\ ~Forget(r)
  <2>1. calls' = calls
    BY <1>5 DEF Peek, Resolve, Recheck, Acquire, Begin, Finish, Validate, Retry, Store,
       Release, Close, Wait
  <2>2. at[r] \in Working => at'[r] \in Working
    BY <1>1, <1>5 DEF Working, Peek, Resolve, Recheck, Acquire, Begin, Finish, Validate,
       Retry, Store, Release, Close, Wait
  <2>3. \A s \in Requests : s # r => at'[s] = at[s]
    BY OthersStand
  <2> QED
    BY <1>1, <1>2, <2>1, <2>2, <2>3
<1> QED
  BY <1>3, <1>4, <1>5

\* Nobody's leader is lost: a leader leaves its work by closing its channel.
LEMMA WaitersStayAwaited ==
  ASSUME IInv, NEW r \in Requests, Peek(r) \/ Resolve(r)
  PROVE  Awaited'
<1> SUFFICES ASSUME NEW s \in Requests, at'[s] = "wait" PROVE Awaits(s)'
  BY DEF Awaited
<1>1. at \in [Requests -> Labels] /\ leader \in [Requests -> Requests \cup {None}]
  BY DEF IInv, TypeOK
<1>2. closed \subseteq closed'
  BY DEF Peek, Resolve, Enter, Recheck, Acquire, Begin, Finish, Validate, Retry, Store,
     Release, Close, Forget, Wait
<1>3. \A q \in Requests : q # r => at'[q] = at[q] /\ leader'[q] = leader[q]
  BY OthersStand
<1>4. at[r] \in Working \ {"forget"} => at'[r] \in Working \ {"forget"} \/ r \in closed'
  BY <1>1 DEF Working, Peek, Resolve, Enter, Recheck, Acquire, Begin, Finish, Validate,
     Retry, Store, Release, Close, Forget, Wait, Step, Goto
<1>5. CASE at[s] = "wait"
  <2>1. Awaits(s)
    BY <1>5 DEF IInv, Awaited
  <2>2. leader'[s] = leader[s]
    BY <1>3, <1>5 DEF Peek, Resolve, Enter, Recheck, Acquire, Begin, Finish, Validate,
       Retry, Store, Release, Close, Forget, Wait, Step, mine
  <2> QED
    BY <1>2, <1>3, <1>4, <2>1, <2>2 DEF Awaits
<1>6. CASE at[s] # "wait"
  <2>1. s = r /\ Enter(r) /\ calls[KeyOf[r]] # None
    <3>1. s = r
      BY <1>3, <1>6
    <3> QED
      BY <1>1, <1>6, <3>1 DEF Peek, Resolve, Enter, Recheck, Acquire, Begin, Finish,
         Validate, Retry, Store, Release, Close, Forget, Wait, Step, Goto
  <2>2. leader'[s] = calls[KeyOf[r]]
    BY <1>1, <2>1 DEF Enter
  <2> PICK q : q = calls[KeyOf[r]]
    OBVIOUS
  <2>3. /\ q \in Requests /\ KeyOf[q] = KeyOf[r] /\ at[q] \in Working
        /\ at[q] = "forget" => q \in closed
    BY <2>1, RequestsHaveKeys DEF IInv, TypeOK, Called, Settled
  <2>4. q # r
    BY <2>1, <2>3 DEF Enter, Working
  <2> QED
    BY <1>2, <1>3, <2>1, <2>2, <2>3, <2>4 DEF Awaits
<1> QED
  BY <1>5, <1>6

LEMMA RequestStep ==
  ASSUME IInv, NEW r \in Requests, Peek(r) \/ Resolve(r)
  PROVE  IInv'
<1>1. TypeOK'
  BY PeekType, ResolveType DEF IInv
<1>2. Led' /\ Informed'
  BY OwnStep, OthersKnow DEF Led, Informed
<1>3. Settled'
  BY <1>1, OwnStep, OthersKnow DEF Settled, TypeOK
<1>4. Permitted'
  <2>1. permits' = {s \in Requests : at'[s] \in Downloading}
    BY <1>1, OwnStep, OthersKnow DEF TypeOK
  <2> QED
    BY <2>1, PermitsStayFew DEF Permitted
<1> QED
  BY <1>1, <1>2, <1>3, <1>4, CallsWork, WaitersStayAwaited DEF IInv

\* Losing an entry or a file takes a hit away, and never makes one.
LEMMA LossStep ==
  ASSUME IInv, NEW k \in Keys, Lose(k) \/ CleanUp(k)
  PROVE  IInv'
<1> USE DEF Lose, CleanUp, mine
<1>1. TypeOK'
  BY DEF IInv, TypeOK
<1>2. Led' /\ Settled' /\ Called' /\ Awaited' /\ Permitted'
  BY DEF IInv, Led, Settled, Called, Awaited, Awaits, Permitted
<1>3. ASSUME NEW r \in Requests PROVE Knows(r)'
  <2>1. Knows(r) /\ KeyOf[r] \in Keys
    BY RequestsHaveKeys DEF IInv, Informed
  <2>2. Hit(KeyOf[r])' => Hit(KeyOf[r])
    BY <2>1, NoneIsNothing DEF Hit, IInv, TypeOK
  <2>3. disk'[KeyOf[r]] = "fragment" => disk[KeyOf[r]] = "fragment"
    BY <2>1 DEF IInv, TypeOK
  <2> QED
    BY <2>1, <2>2, <2>3 DEF Knows
<1> QED
  BY <1>1, <1>2, <1>3 DEF IInv, Informed

\* Every step keeps the inductive invariant.
LEMMA NextIInv == IInv /\ [Next]_vars => IInv'
<1> SUFFICES ASSUME IInv, [Next]_vars PROVE IInv'
  OBVIOUS
<1>1. CASE UNCHANGED vars
  BY <1>1 DEF vars, mine, IInv, TypeOK, Led, Informed, Knows, Hit, Settled,
     Called, Awaited, Awaits, Permitted
<1>2. CASE \E r \in Requests : Peek(r) \/ Resolve(r)
  BY <1>2, RequestStep
<1>3. CASE \E k \in Keys : Lose(k) \/ CleanUp(k)
  BY <1>3, LossStep
<1> QED
  BY <1>1, <1>2, <1>3 DEF Next

\* Every behaviour satisfies the inductive invariant.
THEOREM Invariance == Spec => []IInv
BY InitIInv, NextIInv, PTL DEF Spec

-----------------------------------------------------------------------------

\* Type correctness: no attempt is counted beyond maxDownloadRetries.
THEOREM TypeCorrect == Spec => []TypeOK
<1>1. IInv => TypeOK
  BY DEF IInv
<1> QED
  BY <1>1, Invariance, PTL

\* One real download at a time of a track, however many ask for it.
THEOREM OneDownloadPerTrack == Spec => []OneLeaderPerKey
<1>1. IInv => OneLeaderPerKey
  BY DEF IInv, Led, OneLeaderPerKey
<1> QED
  BY <1>1, Invariance, PTL

\* A validated file is not rewritten before it is entered into the cache.
THEOREM StoredAsValidated == Spec => []ValidatedUntilStored
<1>1. IInv => ValidatedUntilStored
  BY DEF IInv, Informed, Knows, ValidatedUntilStored
<1> QED
  BY <1>1, Invariance, PTL

\* A download that waited for its permit starts without a cache hit.
THEOREM OnlyNeededDownloads == Spec => NoNeedlessDownload
<1>1. IInv => \A r \in Requests : at[r] = "acquire" => ~Hit(KeyOf[r])
  BY DEF IInv, Informed, Knows
<1>2. IInv => [\A r \in Requests :
                   at[r] = "acquire" /\ at'[r] = "attempt" => ~Hit(KeyOf[r])]_vars
  BY <1>1
<1> QED
  BY <1>2, Invariance, PTL DEF NoNeedlessDownload

\* downloadSemaphore bounds the downloads of all chats together: at any time
\* at most maxParallelDownloads requests are between their first attempt and
\* the return of downloadWithRetry's result.
THEOREM DownloadsAreBounded ==
  Spec => [](Cardinality({r \in Requests : at[r] \in Downloading}) <= MaxParallel)
<1>1. IInv => Cardinality({r \in Requests : at[r] \in Downloading}) <= MaxParallel
  BY DEF IInv, Permitted
<1> QED
  BY <1>1, Invariance, PTL

\* A request that waits on an inFlightCall waits for a leader that asked for
\* the same key and that is still at work, or has closed the channel and left
\* a path or an error, although the entry is deleted after that: nobody waits
\* for a call that is gone, or reads an empty result.
THEOREM WaitersGetAResult ==
  Spec => [](\A r \in Requests : at[r] = "wait" =>
                /\ leader[r] \in Requests /\ KeyOf[leader[r]] = KeyOf[r]
                /\ IF leader[r] \in closed THEN result[leader[r]] \in Found \cup {"error"}
                                          ELSE at[leader[r]] \in Working \ {"forget"})
<1>1. IInv => \A r \in Requests : at[r] = "wait" =>
                /\ leader[r] \in Requests /\ KeyOf[leader[r]] = KeyOf[r]
                /\ IF leader[r] \in closed THEN result[leader[r]] \in Found \cup {"error"}
                                          ELSE at[leader[r]] \in Working \ {"forget"}
  BY DEF IInv, Settled, Awaited, Awaits
<1> QED
  BY <1>1, Invariance, PTL

-----------------------------------------------------------------------------
(* The status message.  The tick and the handler meet at the lock.  Whoever  *)
(* holds it is at its edit; a tick gets there only while nothing is          *)
(* resolved, and then no result has been shown: so it overwrites none.       *)

StatusTypeOK ==
    /\ shown \in 0..Deleted
    /\ done \in BOOLEAN /\ resolved \in BOOLEAN
    /\ mu \in {"nobody", "animation", "handler"}
    /\ animation \in {"select", "lock", "edit", "exited"}
    /\ edits \in 0..MaxEdits
    /\ handler \in {"working", "lock", "edit"}
    /\ text \in 0..Results
    /\ deletions \in Nat

\* Who edits holds the lock.
Exclusive ==
    /\ animation = "edit" <=> mu = "animation"
    /\ handler = "edit" <=> mu = "handler"

\* The animation edits only while nothing is resolved; a result on the
\* message, or its removal, means that something is.
Ordered ==
    /\ animation = "edit" => ~resolved
    /\ handler = "edit" => resolved
    /\ shown # Loading \/ deletions > 0 => resolved

\* The handler is at a result later than the one that is shown.
Later ==
    /\ shown <= text \/ shown = Deleted
    /\ handler # "working" => shown < text \/ shown = Deleted
    /\ handler # "working" => text > 0

\* The animation goes on only below its limit.
Limited == animation \in {"lock", "edit"} => edits < MaxEdits

StatusIInv == StatusTypeOK /\ Exclusive /\ Ordered /\ Later /\ Limited

-----------------------------------------------------------------------------

LEMMA InitStatusIInv == StatusInit => StatusIInv
<1> SUFFICES ASSUME StatusInit PROVE StatusIInv
  OBVIOUS
<1>1. StatusTypeOK
  <2>1. done \in BOOLEAN /\ resolved \in BOOLEAN
    BY DEF StatusInit
  <2>2. shown \in 0..Deleted /\ edits \in 0..MaxEdits /\ text \in 0..Results /\ deletions \in Nat
    BY EditLimits DEF StatusInit, Loading, Deleted
  <2> QED
    BY <2>1, <2>2 DEF StatusInit, StatusTypeOK
<1>2. Exclusive /\ Ordered /\ Later /\ Limited
  BY EditLimits DEF StatusInit, Exclusive, Ordered, Later, Limited, Loading, Deleted
<1> QED
  BY <1>1, <1>2 DEF StatusIInv

LEMMA AnimateStep ==
  ASSUME StatusIInv, Animate
  PROVE  StatusIInv'
<1> USE EditLimits DEF StatusIInv, StatusTypeOK, Exclusive, Ordered, Later, Limited, Loading, Deleted
<1>1. CASE SeeDone
  BY <1>1 DEF SeeDone
<1>2. CASE Deadline
  BY <1>2 DEF Deadline
<1>3. CASE Tick
  <2>1. CASE edits >= MaxEdits
    BY <1>3, <2>1 DEF Tick
  <2>2. CASE edits < MaxEdits
    BY <1>3, <2>2 DEF Tick
  <2> QED
    BY <2>1, <2>2
<1>4. CASE Lock
  BY <1>4 DEF Lock
<1>5. CASE EditFrame
  BY <1>5 DEF EditFrame
<1> QED
  BY <1>1, <1>2, <1>3, <1>4, <1>5 DEF Animate

LEMMA HandlerStep ==
  ASSUME StatusIInv, Stop \/ Result \/ ResolveStatus
  PROVE  StatusIInv'
<1> USE EditLimits DEF StatusIInv, StatusTypeOK, Exclusive, Ordered, Later, Limited, Loading, Deleted
<1>1. CASE Stop
  BY <1>1 DEF Stop
<1>2. CASE Result
  BY <1>2 DEF Result
<1>3. CASE HandlerLock
  BY <1>3 DEF HandlerLock
<1>4. CASE HandlerEdit
  BY <1>4 DEF HandlerEdit
<1> QED
  BY <1>1, <1>2, <1>3, <1>4 DEF ResolveStatus

LEMMA DeleteStep ==
  ASSUME StatusIInv, Delete
  PROVE  StatusIInv'
BY EditLimits DEF Delete, StatusIInv, StatusTypeOK, Exclusive, Ordered, Later, Limited, Loading, Deleted

\* Every step keeps the inductive invariant.
LEMMA NextStatusIInv == StatusIInv /\ [StatusNext]_statusVars => StatusIInv'
<1>1. StatusIInv /\ UNCHANGED statusVars => StatusIInv'
  BY DEF statusVars, StatusIInv, StatusTypeOK, Exclusive, Ordered, Later, Limited, Loading, Deleted
<1> QED
  BY <1>1, AnimateStep, HandlerStep, DeleteStep DEF StatusNext

\* Every behaviour satisfies the inductive invariant.
THEOREM StatusInvariance == FairStatusSpec => []StatusIInv
BY InitStatusIInv, NextStatusIInv, PTL DEF FairStatusSpec

-----------------------------------------------------------------------------

\* A step that changes what is shown is an edit of the animation, of the
\* handler, or the deletion.
LEMMA Shows ==
  ASSUME StatusIInv, [StatusNext]_statusVars, shown # Loading
  PROVE  shown' >= shown
<1> USE EditLimits DEF StatusIInv, StatusTypeOK, Loading, Deleted
<1>1. CASE EditFrame
  BY <1>1 DEF EditFrame, Ordered
<1>2. CASE HandlerEdit
  BY <1>2 DEF HandlerEdit, Later
<1>3. CASE Delete
  BY <1>3 DEF Delete
<1>4. CASE shown' = shown
  BY <1>4
<1> QED
  BY <1>1, <1>2, <1>3, <1>4 DEF StatusNext, statusVars, Animate, SeeDone, Deadline, Tick, Lock, Stop,
     Result, ResolveStatus, HandlerLock

\* "The caller's text is guaranteed to be the last edit on the message"
\* (status.go:115): no tick, however it interleaves with EditText, takes a
\* result off the message, and no result gives way to an earlier one.
THEOREM TextsAreLast == FairStatusSpec => ResultsStay
<1>1. StatusIInv /\ [StatusNext]_statusVars => [shown # Loading => shown' >= shown]_statusVars
  BY Shows
<1> QED
  BY <1>1, StatusInvariance, PTL DEF FairStatusSpec, ResultsStay

\* The lock is never held by both, and never by a goroutine that has left.
THEOREM LockIsExclusive == FairStatusSpec => []Exclusive
<1>1. StatusIInv => Exclusive
  BY DEF StatusIInv
<1> QED
  BY <1>1, StatusInvariance, PTL
=============================================================================
