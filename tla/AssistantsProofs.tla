-------------------------- MODULE AssistantsProofs --------------------------
(***************************************************************************)
(* Proofs about Assistants, for any number of goroutines, assistants,      *)
(* requests, faults and calls: the types with the control points, that a   *)
(* rotation advances, that a Stop silences, and that what is known of the  *)
(* call is current.                                                        *)
(***************************************************************************)
EXTENDS Assistants, TLAPS

-----------------------------------------------------------------------------
(* Where a goroutine can be. *)

Seek == {"lookup", "fill", "assign", "assigned", "refill"}
Entering == {"status", "recover", "invite", "enter", "calls"}
Calling == {"create", "call", "keep", "join", "connect", "wait"}
Ending == {"evict", "evicted", "not evicted", "save", "saved"}
Other == {"idle", "stop", "update", "clear", "cleared", "unpend"}
NotChosen == {"idle", "lookup", "fill", "assign", "clear", "cleared"}

Goroutine ==
    [at : Seek \cup Entering \cup Calling \cup Ending \cup Other,
     req : {"none", "play", "stop", "update", "reconnect", "clear"},
     who : Indices \cup {Nobody}, tried : SUBSET Indices, again : BOOLEAN,
     err : {"none", "banned", "retry", "rotate", "too much", "unknown", "fatal"},
     answer : {"none", "ok", "failed"}, doc : Indices \cup {Nobody}, call : CallIds,
     update : [of : Accounts, old : Statuses, new : Statuses]]

\* The request and the assistant that go with a control point.
Fits(r) ==
    /\ r.at \in Seek => r.req \in {"play", "stop", "update"}
    /\ r.at \in Entering \cup Ending => r.req = "play"
    /\ r.at \in Calling => r.req \in {"play", "reconnect"}
    /\ r.at = "unpend" => r.req = "reconnect"
    /\ r.at \in {"stop", "update"} => r.req = r.at
    /\ r.at \in {"clear", "cleared"} => r.req = "clear"
    /\ r.at = "idle" => r.req = "none"
    /\ r.at \notin NotChosen => r.who \in pool
    /\ r.who \in pool \cup {Nobody}
    /\ r.tried \subseteq pool
    /\ r.req = "play" /\ r.at \notin Seek => r.who \in r.tried

Points ==
    /\ go \in [Goroutines -> Goroutine]
    /\ \A g \in Goroutines : Fits(go[g])

DataTypes ==
    /\ StoreType(Indices)
    /\ MembershipType(Accounts, Indices)
    /\ GroupCallType(Indices, Goroutines, CallIds)
    /\ pool \subseteq Indices /\ leaving \subseteq Indices /\ active \in BOOLEAN

TInv == DataTypes /\ Points

-----------------------------------------------------------------------------
(* Who may be engaged while nothing upset happened. *)

Streamer(g) == go[g].req = "play" /\ go[g].at \in {"wait", "save"}

\* The goroutines of requests that stream are one at a time.
OneStreams == \A g, h \in Goroutines : Streaming(g) /\ Streaming(h) => g = h

\* The cache lags behind the database only between a command of the rotation
\* and its change of the cache.
CacheFollows ==
    \/ assignedCache \in {Nobody, assigned}
    \/ \E g \in Goroutines : go[g].at \in {"evicted", "saved"}

\* What a goroutine brings to the cache is what the database holds.
CarriesTruth(g) ==
    /\ go[g].at \in {"fill", "refill"} => go[g].doc = assigned
    /\ go[g].at \in {"assigned", "refill", "saved"} => go[g].who = assigned
    /\ go[g].at = "evicted" => assigned = Nobody /\ \A a \in Indices : ~Engaged(a)
    /\ go[g].at # "not evicted"

\* An attempt is made with the assigned assistant, or nobody else is engaged.
AttemptIsAlone(g) ==
    /\ go[g].req = "reconnect" => go[g].who = assigned
    /\ go[g].req = "play" /\ go[g].at \in Entering \cup Calling \cup {"evict", "save"} =>
          \/ go[g].who = assigned
          \/ \A a \in Indices : Engaged(a) => a = go[g].who /\ Streamer(g)

\* Who is engaged is assigned, or about to be.
EngagedIsOwned ==
    \A a \in Indices : Engaged(a) =>
        a = assigned \/ \E g \in Goroutines : a = go[g].who /\ Streamer(g)

\* A Stop that may silence the chat runs alone, with the assigned assistant.
StopIsAlone ==
    /\ silenced # "no" => \A g \in Goroutines : ~Streaming(g)
    /\ silenced = "yes" => \A a \in Indices : ~Engaged(a)
    /\ silenced \in {"yes", "no"} \cup Goroutines
    /\ \A g \in Goroutines : silenced = g =>
          go[g].req = "stop" /\ (go[g].at = "stop" => go[g].who = assigned)

Owned ==
    /\ OneStreams
    /\ CacheFollows
    /\ \A g \in Goroutines : CarriesTruth(g)
    /\ \A g \in Goroutines : AttemptIsAlone(g)
    /\ EngagedIsOwned
    /\ StopIsAlone

SaneInv == Sane => Owned

-----------------------------------------------------------------------------
(* What is known of the call: an update that is on its way is the latest,  *)
(* and without one the knowledge is right.                                 *)

\* What an update says of the call.
Says(u) == IF u.over THEN NoCall ELSE u.id

KnownInv ==
    upsets \cap CallUpsets = {} =>
        \A a \in Indices :
            /\ \A u \in groupUpdates[a] : Says(u) = videoChat
            /\ groupUpdates[a] = {} => groupCall[a] \in {Unknown, videoChat}

IInv == TInv /\ SaneInv /\ KnownInv

-----------------------------------------------------------------------------
(* Steps of a goroutine. *)

\* Goroutine g becomes r.
Becoming(g, r) == go' = [go EXCEPT ![g] = r]

LEMMA Turns ==
    ASSUME Points, NEW g \in Goroutines, NEW r, Becoming(g, r)
    PROVE  /\ go'[g] = r
           /\ \A h \in Goroutines \ {g} : go'[h] = go[h]
  BY DEF Points, Becoming

LEMMA PointsKept ==
    ASSUME Points, NEW g \in Goroutines, NEW r \in Goroutine, Fits(r), Becoming(g, r),
           pool' = pool
    PROVE  Points'
  BY DEF Points, Becoming, Fits

LEMMA Numbers == NoCall \in CallIds /\ 1 \in CallIds /\ Bot \in Accounts /\ Indices \subseteq Accounts
                 /\ Nobody \notin Indices /\ Bot \notin Indices
  BY SomeAssistants, Bounds DEF NoCall, CallIds, Bot, Accounts, Indices, Nobody

LEMMA IdleFits == Idle \in Goroutine /\ Fits(Idle)
  <1>1. NoUpdate \in [of : Accounts, old : Statuses, new : Statuses]
    BY SomeAssistants DEF NoUpdate, MemberUpdate, Accounts, Indices, Bot, Statuses
  <1>2. NoCall \in CallIds /\ Nobody \in Indices \cup {Nobody}
    BY Numbers
  <1> QED  BY <1>1, <1>2 DEF Idle, Goroutine, Fits, Other, Seek, Entering, Calling, Ending,
                             NotChosen

\* The goroutine that acts is a record of known type.
LEMMA Acting ==
    ASSUME Points, NEW g \in Goroutines
    PROVE  go[g] \in Goroutine /\ Fits(go[g])
  BY DEF Points

\* An attempt r that failed goes on as s.
Outcome(r, e, s) ==
    \/ s = Idle /\ r.req = "play"
    \/ s.at = "unpend" /\ s.who = r.who /\ s.req = r.req /\ r.req = "reconnect"
    \/ /\ s.at = "evict" /\ s.who = r.who /\ s.req = r.req /\ r.req = "play"
       /\ e \in Rotates
    \/ /\ s.at = "status" /\ s.who = r.who /\ s.req = r.req /\ r.req = "play"
       /\ e = "retry"
       /\ ~r.again /\ s.again = TRUE /\ s.tried = r.tried

Errors == {"retry", "rotate", "too much", "unknown", "fatal"}

\* What AfterError makes of an attempt that fails.
LEMMA Failing ==
    ASSUME NEW r \in Goroutine, Fits(r), r.at \in Entering \cup Calling, NEW e \in Errors
    PROVE  /\ AfterError(r, e) \in Goroutine /\ Fits(AfterError(r, e))
           /\ Outcome(r, e, AfterError(r, e))
  <1>0. NoCall \in CallIds  BY Numbers
  <1>1. r.req \in {"play", "reconnect"}  BY DEF Fits, Entering, Calling
  <1>2. r.at # "unpend" /\ r.at \notin Seek \cup NotChosen
    BY DEF Seek, NotChosen, Entering, Calling
  <1>3. CASE r.req = "reconnect"
    <2> DEFINE s == AfterError(r, e)
    <2>1. s \in Goroutine  BY <1>0, <1>3 DEF AfterError, Goroutine, Other
    <2>2. /\ s.at = "unpend" /\ s.who = r.who /\ s.req = r.req /\ s.tried = r.tried
          /\ s.at = "status" => s.again = TRUE
      BY <1>3 DEF AfterError, Goroutine, Rotates
    <2> HIDE DEF s
    <2>3. Fits(s)
      BY <1>2, <1>3, <2>2 DEF Fits, Other, Seek, Entering, Calling, Ending, NotChosen
    <2>4. Outcome(r, e, s)  BY <1>3, <2>2 DEF Outcome
    <2> QED  BY <2>1, <2>3, <2>4 DEF s
  <1>4. CASE r.req = "play" /\ e = "retry" /\ ~r.again
    <2> DEFINE s == AfterError(r, e)
    <2>1. s \in Goroutine  BY <1>0, <1>4 DEF AfterError, Goroutine, Entering
    <2>2. /\ s.at = "status" /\ s.who = r.who /\ s.req = r.req /\ s.tried = r.tried
          /\ s.at = "status" => s.again = TRUE
      BY <1>4 DEF AfterError, Goroutine, Rotates
    <2> HIDE DEF s
    <2>3. Fits(s)
      BY <1>2, <1>4, <2>2 DEF Fits, Other, Seek, Entering, Calling, Ending, NotChosen
    <2>4. Outcome(r, e, s)  BY <1>4, <2>2 DEF Outcome
    <2> QED  BY <2>1, <2>3, <2>4 DEF s
  <1>5. CASE r.req = "play" /\ e \in Rotates
    <2> DEFINE s == AfterError(r, e)
    <2>1. s \in Goroutine  BY <1>0, <1>5 DEF AfterError, Goroutine, Ending, Rotates
    <2>2. /\ s.at = "evict" /\ s.who = r.who /\ s.req = r.req /\ s.tried = r.tried
          /\ s.at = "status" => s.again = TRUE
      BY <1>5 DEF AfterError, Goroutine, Rotates
    <2> HIDE DEF s
    <2>3. Fits(s)
      BY <1>2, <1>5, <2>2 DEF Fits, Other, Seek, Entering, Calling, Ending, NotChosen
    <2>4. Outcome(r, e, s)  BY <1>5, <2>2 DEF Outcome
    <2> QED  BY <2>1, <2>3, <2>4 DEF s
  <1>6. CASE r.req = "play" /\ e \notin Rotates /\ ~(e = "retry" /\ ~r.again)
    <2>1. AfterError(r, e) = Idle  BY <1>6 DEF AfterError
    <2> QED  BY <1>6, <2>1, IdleFits DEF Outcome
  <1> QED  BY <1>1, <1>3, <1>4, <1>5, <1>6 DEF Errors, Rotates

-----------------------------------------------------------------------------
(* Steps that leave the assignment alone and engage nobody. *)

Calm ==
    /\ UNCHANGED <<assigned, assignedCache, silenced, pool>>
    /\ upsets \subseteq upsets'
    /\ \A a \in Indices : Engaged(a)' => Engaged(a)

LEMMA StillSane == ASSUME upsets \subseteq upsets', Sane' PROVE Sane
  BY DEF Sane, CallUpsets

\* What is not one of the upsets of the known calls ends sanity.
LEMMA Upsetting ==
    \A w \in {"overlap", "clash", "orphaned", "outvoted", "database", "strayed", "cleared"} :
        Upset(w) => ~Sane'
  BY DEF Upset, Sane, CallUpsets

\* No goroutine moves.
NobodyMoves ==
    \A h \in Goroutines :
        /\ go'[h].at = go[h].at /\ go'[h].req = go[h].req
        /\ go'[h].who = go[h].who /\ go'[h].doc = go[h].doc

LEMMA EnvironmentKeeps ==
    ASSUME SaneInv, Calm, NobodyMoves
    PROVE  SaneInv'
  <1> SUFFICES ASSUME Sane' PROVE Owned'
    BY DEF SaneInv
  <1> USE DEF Calm, NobodyMoves
  <1>1. Owned  BY StillSane DEF SaneInv
  <1>2. OneStreams'  BY <1>1 DEF Owned, OneStreams, Streaming
  <1>3. CacheFollows'  BY <1>1 DEF Owned, CacheFollows
  <1>4. ASSUME NEW g \in Goroutines PROVE CarriesTruth(g)'
    BY <1>1 DEF Owned, CarriesTruth
  <1>5. ASSUME NEW g \in Goroutines PROVE AttemptIsAlone(g)'
    BY <1>1 DEF Owned, AttemptIsAlone, Streamer
  <1>6. EngagedIsOwned'  BY <1>1 DEF Owned, EngagedIsOwned, Streamer
  <1>7. StopIsAlone'  BY <1>1 DEF Owned, StopIsAlone, Streaming
  <1> QED  BY <1>2, <1>3, <1>4, <1>5, <1>6, <1>7 DEF Owned

\* A goroutine goes on with its attempt, or gives it up; a connection that it
\* gives up without being asked for is an upset, as GiveUp says.
GoesOn(g, r) ==
    /\ go[g].at \in Entering \cup Calling
    /\ \/ /\ r.at = "idle" /\ r.req = "none"
          /\ go[g].at = "wait" /\ Engaged(go[g].who) /\ assigned # go[g].who => ~Sane'
       \/ /\ r.req = go[g].req /\ r.who = go[g].who
          /\ r.at \in Entering \cup Calling \cup {"evict", "save", "unpend"}
          /\ go[g].at = "wait" => r.at \in {"save", "unpend"}

LEMMA AttemptKeeps ==
    ASSUME Points, SaneInv, Calm, NEW g \in Goroutines, NEW r \in Goroutine, Fits(r),
           Becoming(g, r), GoesOn(g, r)
    PROVE  SaneInv'
  <1> SUFFICES ASSUME Sane' PROVE Owned'
    BY DEF SaneInv
  <1> USE DEF Calm
  <1>1. Owned  BY StillSane DEF SaneInv
  <1>2. go'[g] = r /\ \A h \in Goroutines \ {g} : go'[h] = go[h]  BY Turns
  <1>3. Fits(go[g])  BY Acting
  <1>4. /\ go[g].req \in {"play", "reconnect"}
        /\ go[g].at \notin {"evicted", "saved", "save"}
    BY <1>3 DEF GoesOn, Fits, Entering, Calling
  <1>5. r.at \notin {"evicted", "not evicted", "saved", "fill", "refill", "assigned", "stop"}
    BY DEF GoesOn, Entering, Calling
  <1>6. \A h \in Goroutines : Streaming(h)' => Streaming(h)
    BY <1>2, <1>4 DEF GoesOn, Streaming
  <1>7. OneStreams'  BY <1>1, <1>6 DEF Owned, OneStreams
  <1>8. CacheFollows'  BY <1>1, <1>2, <1>4 DEF Owned, CacheFollows
  <1>9. ASSUME NEW h \in Goroutines PROVE CarriesTruth(h)'
    BY <1>1, <1>2, <1>5 DEF Owned, CarriesTruth
  <1>10. Streamer(g) => go[g].at = "wait"  BY <1>4 DEF Streamer
  <1>11. ASSUME NEW h \in Goroutines PROVE AttemptIsAlone(h)'
    <2>1. CASE h # g
      BY <1>1, <1>2, <2>1 DEF Owned, AttemptIsAlone, Streamer
    <2>2. CASE h = g /\ r.at = "idle"
      BY <1>2, <2>2 DEF GoesOn, AttemptIsAlone, Entering, Calling
    <2>3. CASE h = g /\ r.at # "idle"
      <3>1. r.who = go[g].who /\ r.req = go[g].req  BY <2>3 DEF GoesOn
      <3>2. r.req = "play" /\ go[g].at = "wait" => r.at = "save"
        BY <2>3, <3>1 DEF GoesOn, Fits
      <3>3. AttemptIsAlone(g)  BY <1>1 DEF Owned
      <3>4. r.req = "play" =>
              r.who = assigned \/ \A a \in Indices : Engaged(a) => a = r.who /\ Streamer(g)
        BY <3>1, <3>3 DEF AttemptIsAlone, GoesOn
      <3>5. r.req = "play" /\ Streamer(g) => Streamer(g)'
        BY <1>2, <1>10, <3>2 DEF Streamer
      <3> QED  BY <1>2, <2>3, <3>1, <3>3, <3>4, <3>5 DEF AttemptIsAlone
    <2> QED  BY <2>1, <2>2, <2>3
  <1>12. EngagedIsOwned'
    <2> SUFFICES ASSUME NEW a \in Indices, Engaged(a), a # assigned
                 PROVE  \E h \in Goroutines : a = go'[h].who /\ Streamer(h)'
      BY DEF EngagedIsOwned
    <2>1. PICK h \in Goroutines : a = go[h].who /\ Streamer(h)
      BY <1>1 DEF Owned, EngagedIsOwned
    <2>2. CASE h # g  BY <1>2, <2>1, <2>2 DEF Streamer
    <2>3. CASE h = g
      <3>1. go[g].at = "wait"  BY <1>10, <2>1, <2>3
      <3>2. r.at # "idle"  BY <2>1, <2>3, <3>1 DEF GoesOn
      <3>3. r.at = "save" /\ r.who = a /\ r.req = "play"
        BY <2>1, <2>3, <3>1, <3>2 DEF GoesOn, Fits, Streamer
      <3> QED  BY <1>2, <3>3 DEF Streamer
    <2> QED  BY <2>2, <2>3
  <1>13. StopIsAlone'
    BY <1>1, <1>2, <1>4, <1>5, <1>6, ZenonT(30) DEF Owned, StopIsAlone, Streaming
  <1> QED  BY <1>7, <1>8, <1>9, <1>11, <1>12, <1>13 DEF Owned

-----------------------------------------------------------------------------
(* The steps of an attempt. *)

\* What RotationAdvances says of one goroutine.
Advances(h) ==
    go[h].at \notin Seek /\ go[h].at # "status" /\ go'[h].at = "status"
        => \/ go[h].tried \subseteq go'[h].tried /\ go[h].tried # go'[h].tried
           \/ ~go[h].again /\ go'[h].again /\ go[h].who = go'[h].who

\* What is to be proved of every step.
Kept == Points' /\ SaneInv' /\ \A h \in Goroutines : Advances(h)

LEMMA OthersAdvance ==
    ASSUME Points, NEW g \in Goroutines, NEW r, Becoming(g, r), Advances(g)
    PROVE  \A h \in Goroutines : Advances(h)
  <1>1. \A h \in Goroutines \ {g} : go'[h] = go[h]  BY Turns
  <1> QED  BY <1>1 DEF Advances

\* An attempt that goes on at another control point.
LEMMA MoveKeeps ==
    ASSUME Points, SaneInv, Calm, NEW g \in Goroutines, NEW r \in Goroutine, Becoming(g, r),
           go[g].at \in Entering \cup Calling,
           r.at \in (Entering \cup Calling \cup {"save"}) \ {"status"},
           r.who = go[g].who, r.req = go[g].req, r.tried = go[g].tried,
           r.at \in Entering \cup {"save"} => r.req = "play",
           go[g].at = "wait" => r.at = "save"
    PROVE  Kept
  <1>1. Fits(go[g])  BY Acting
  <1>2. Fits(r)
    BY <1>1 DEF Fits, Other, Seek, Entering, Calling, Ending, NotChosen
  <1>3. Points'  BY <1>2, PointsKept DEF Calm
  <1>4. SaneInv'
    <2>1. GoesOn(g, r)  BY DEF GoesOn
    <2> QED  BY <1>2, <2>1, AttemptKeeps
  <1>5. Advances(g)  BY Turns DEF Advances
  <1> QED  BY <1>3, <1>4, <1>5, OthersAdvance DEF Kept

\* An attempt that fails.
LEMMA FailKeeps ==
    ASSUME Points, SaneInv, Calm, NEW g \in Goroutines, NEW e \in Errors, Fail(g, e),
           go[g].at \in (Entering \cup Calling) \ {"status"} \/ (go[g].at = "status" /\ e = "unknown"),
           /\ go[g].at = "wait" => e = "unknown"
           /\ go[g].at = "wait" /\ Engaged(go[g].who) /\ assigned # go[g].who => ~Sane'
    PROVE  Kept
  <1> DEFINE r == AfterError(go[g], e)
  <1>0. go[g].at \in Entering \cup Calling  BY DEF Entering
  <1>1. go[g] \in Goroutine /\ Fits(go[g])  BY Acting
  <1>2. r \in Goroutine /\ Fits(r) /\ Outcome(go[g], e, r)  BY <1>0, <1>1, Failing
  <1>3. Becoming(g, r)  BY DEF Becoming, Fail
  <1> HIDE DEF r
  <1>4. Points'  BY <1>2, <1>3, PointsKept DEF Calm
  <1>5. GoesOn(g, r)
    <2>1. CASE r = Idle
      <3>1. r.at = "idle" /\ r.req = "none"  BY <2>1 DEF Idle
      <3> QED  BY <1>0, <3>1 DEF GoesOn
    <2>2. CASE r # Idle
      <3>1. /\ r.at \in {"unpend", "evict", "status"} /\ r.who = go[g].who /\ r.req = go[g].req
            /\ go[g].at = "wait" => r.at = "unpend"
        BY <1>2, <2>2 DEF Outcome, Rotates
      <3> QED  BY <1>0, <3>1 DEF GoesOn, Entering
    <2> QED  BY <2>1, <2>2
  <1>6. SaneInv'  BY <1>2, <1>3, <1>5, AttemptKeeps
  <1>7. Advances(g)
    <2>1. go'[g] = r  BY <1>3, Turns
    <2> QED  BY <1>2, <2>1 DEF Advances, Outcome, Idle
  <1> QED  BY <1>3, <1>4, <1>6, <1>7, OthersAdvance DEF Kept

LEMMA FailKeepsEarly ==
    ASSUME Points, SaneInv, Calm, NEW g \in Goroutines, NEW e \in Errors, Fail(g, e),
           go[g].at \in (Entering \cup Calling) \ {"status", "wait"}
    PROVE  Kept
  <1>1. go[g].at \in (Entering \cup Calling) \ {"status"} \/ (go[g].at = "status" /\ e = "unknown")
    OBVIOUS
  <1>2. /\ go[g].at = "wait" => e = "unknown"
        /\ go[g].at = "wait" /\ Engaged(go[g].who) /\ assigned # go[g].who => ~Sane'
    OBVIOUS
  <1> QED  BY <1>1, <1>2, FailKeeps

LEMMA Places ==
    ASSUME DataTypes, Points, NEW g \in Goroutines, go[g].at \notin NotChosen
    PROVE  go[g].who \in Indices /\ go[g].who \in pool
  BY DEF Points, Fits, DataTypes

\* Nothing that engages an assistant changes.
LEMMA CalmSteps ==
    ASSUME UNCHANGED <<assigned, assignedCache, silenced, pool, binding, pending>>,
           upsets \subseteq upsets'
    PROVE  Calm
  BY DEF Calm, Engaged, Streams

\* A record that gets another point and another error is one of the same kind.
LEMMA NewPointAndError ==
    ASSUME NEW f \in Goroutine,
           NEW x \in Seek \cup Entering \cup Calling \cup Ending \cup Other,
           NEW y \in {"none", "banned", "retry", "rotate", "too much", "unknown", "fatal"}
    PROVE  [f EXCEPT !.at = x, !.err = y] \in Goroutine
  BY ZenonT(30) DEF Goroutine

LEMMA CheckStatusKeeps ==
    ASSUME DataTypes, Points, SaneInv, NEW g \in Goroutines, CheckStatus(g)
    PROVE  DataTypes' /\ Kept
  <1> DEFINE a == go[g].who
             s == IF statusCache[a] # "none" THEN statusCache[a] ELSE member[a]
  <1>1. /\ go[g].at = "status" /\ a \in Indices /\ a \in Accounts
        /\ go[g] \in Goroutine /\ Fits(go[g])
    BY Places, Acting, Numbers DEF CheckStatus, At, NotChosen
  <1>2. Calm
    BY CalmSteps DEF CheckStatus, storeVars, callVars, progVars, ghosts, ActOn, Fail
  <1>3. CASE UpdateMembership(a, s) /\ ActOn(g, s)
    <2>1. s \in Statuses
      BY <1>1 DEF DataTypes, MembershipType
    <2>2. DataTypes'
      BY <1>1, <1>3, <2>1 DEF CheckStatus, UpdateMembership, ActOn, DataTypes, StoreType,
                              MembershipType,
           GroupCallType, storeVars, callVars, progVars
    <2> DEFINE x == CASE s = "member" -> "calls" [] s = "left" -> "invite" [] OTHER -> "recover"
               y == IF s = "banned" THEN "banned" ELSE go[g].err
               r == [go[g] EXCEPT !.at = x, !.err = y]
    <2>3. x \in {"calls", "invite", "recover"} /\ y \in {"banned", go[g].err}
      OBVIOUS
    <2>4. Becoming(g, r)
      BY <1>3 DEF ActOn, Becoming
    <2> HIDE DEF x, y
    <2>5. /\ r \in Goroutine /\ r.at = x /\ r.who = a /\ r.req = go[g].req
          /\ r.tried = go[g].tried
      <3> PICK f : f = go[g]
        OBVIOUS
      <3>1. f \in Goroutine /\ f.who = a
        BY <1>1
      <3>2. y \in {"none", "banned", "retry", "rotate", "too much", "unknown", "fatal"}
        BY <2>3, <3>1 DEF Goroutine
      <3>3. x \in Entering
        BY <2>3 DEF Entering
      <3>4. r = [f EXCEPT !.at = x, !.err = y]
        OBVIOUS
      <3> HIDE DEF r, a
      <3>5. r \in Goroutine
        <4>1. x \in Seek \cup Entering \cup Calling \cup Ending \cup Other
          BY <3>3
        <4> QED
          BY <3>1, <3>2, <3>4, <4>1, NewPointAndError, Zenon
      <3>6. r.at = x /\ r.who = f.who /\ r.req = f.req /\ r.tried = f.tried
        BY <3>1, <3>4 DEF Goroutine
      <3> QED
        BY <3>1, <3>5, <3>6, Zenon
    <2> HIDE DEF r
    <2>6. go[g].req = "play"  BY <1>1 DEF Fits, Entering
    <2>7. Kept
      BY <1>1, <1>2, <2>3, <2>4, <2>5, <2>6, MoveKeeps DEF Entering
    <2> QED  BY <2>2, <2>7
  <1>4. CASE Fail(g, "unknown") /\ UNCHANGED statusCache
    <2>1. DataTypes'
      BY <1>4 DEF CheckStatus, Fail, DataTypes, StoreType, MembershipType,
           GroupCallType, storeVars, callVars
    <2>2. Kept  BY <1>1, <1>2, <1>4, FailKeeps DEF Errors
    <2> QED  BY <2>1, <2>2
  <1> QED  BY <1>3, <1>4 DEF CheckStatus

\* A move that changes nothing but the control point.
LEMMA Moving ==
    ASSUME Points, SaneInv, Calm, NEW g \in Goroutines, NEW x, Move(g, x),
           go[g].at \in Entering \cup Calling,
           x \in (Entering \cup Calling \cup {"save"}) \ {"status"},
           x \in Entering \cup {"save"} => go[g].req = "play",
           go[g].at = "wait" => x = "save"
    PROVE  Kept
  <1> DEFINE r == [go[g] EXCEPT !.at = x]
  <1>1. Becoming(g, r)  BY DEF Becoming, Move
  <1>2. go[g] \in Goroutine  BY Acting
  <1>3. /\ r \in Goroutine /\ r.at = x /\ r.who = go[g].who /\ r.req = go[g].req
        /\ r.tried = go[g].tried
    BY <1>2 DEF Goroutine, Ending
  <1> HIDE DEF r
  <1> QED  BY <1>1, <1>3, MoveKeeps

LEMMA RecoverKeeps ==
    ASSUME DataTypes, Points, SaneInv, NEW g \in Goroutines, Recover(g)
    PROVE  DataTypes' /\ Kept
  <1> DEFINE a == go[g].who
  <1>1. /\ go[g].at = "recover" /\ a \in Indices /\ a \in Accounts
        /\ go[g] \in Goroutine /\ Fits(go[g]) /\ go[g].req = "play"
    BY Places, Acting, Numbers DEF Recover, At, NotChosen, Fits, Entering
  <1>2. Calm
    BY CalmSteps DEF Recover, storeVars, callVars, progVars, ghosts, Fail
  <1>3. CASE Fail(g, "unknown") /\ UNCHANGED memberVars
    <2>1. DataTypes'
      BY <1>3 DEF Recover, Fail, DataTypes, StoreType, MembershipType,
           GroupCallType, storeVars, memberVars, callVars
    <2>2. Kept  BY <1>1, <1>2, <1>3, FailKeeps DEF Errors, Entering
    <2> QED  BY <2>1, <2>2
  <1>4. CASE Move(g, "calls") /\ UNCHANGED <<memberVars, progVars>>
    <2>1. DataTypes'
      BY <1>4 DEF Recover, DataTypes, StoreType, MembershipType,
           GroupCallType, storeVars, memberVars, callVars, progVars
    <2>2. Kept  BY <1>1, <1>2, <1>4, Moving DEF Entering
    <2> QED  BY <2>1, <2>2
  <1>5. CASE /\ \/ Becomes(a, "left")
                \/ UNCHANGED <<member, memberUpdates>>
             /\ go' = [go EXCEPT ![g].at = "invite", ![g].err = "none"]
             /\ UNCHANGED <<statusCache, inviteCache, progVars>>
    <2>1. MembershipType(Accounts, Indices)'
      BY <1>1, <1>5 DEF DataTypes, MembershipType, Becomes, MemberUpdate, Statuses
    <2>2. DataTypes'
      BY <1>5, <2>1 DEF Recover, DataTypes, StoreType, GroupCallType, storeVars, callVars,
                        progVars
    <2> DEFINE r == [go[g] EXCEPT !.at = "invite", !.err = "none"]
    <2>3. Becoming(g, r)  BY <1>5 DEF Becoming
    <2>4. /\ r \in Goroutine /\ r.at = "invite" /\ r.who = a /\ r.req = go[g].req
          /\ r.tried = go[g].tried
      BY <1>1 DEF Goroutine, Entering
    <2> HIDE DEF r
    <2>5. Kept  BY <1>1, <1>2, <2>3, <2>4, MoveKeeps DEF Entering
    <2> QED  BY <2>2, <2>5
  <1> QED  BY <1>3, <1>4, <1>5 DEF Recover

LEMMA InviteKeeps ==
    ASSUME DataTypes, Points, SaneInv, NEW g \in Goroutines, Invite(g)
    PROVE  DataTypes' /\ Kept
  <1>1. go[g].at = "invite" /\ Fits(go[g]) /\ go[g].req = "play"
    BY Acting DEF Invite, At, Fits, Entering
  <1>2. Calm
    BY CalmSteps DEF Invite, storeVars, callVars, progVars, ghosts, Fail
  <1>3. DataTypes'
    BY DEF Invite, UpdateInviteLink, Fail, DataTypes, StoreType, MembershipType, GroupCallType,
           storeVars, callVars, progVars
  <1>4. CASE Move(g, "enter")
    BY <1>1, <1>2, <1>3, <1>4, Moving DEF Entering
  <1>5. CASE Fail(g, "unknown")
    BY <1>1, <1>2, <1>3, <1>5, FailKeeps DEF Errors, Entering
  <1> QED  BY <1>4, <1>5 DEF Invite

LEMMA JoinChannelKeeps ==
    ASSUME DataTypes, Points, SaneInv, NEW g \in Goroutines, JoinChannel(g)
    PROVE  DataTypes' /\ Kept
  <1> DEFINE a == go[g].who
  <1>1. /\ go[g].at = "enter" /\ a \in Indices /\ a \in Accounts
        /\ Fits(go[g]) /\ go[g].req = "play"
    BY Places, Acting, Numbers DEF JoinChannel, At, NotChosen, Fits, Entering
  <1>2. Calm
    BY CalmSteps DEF JoinChannel, storeVars, callVars, ghosts, progVars, Fail
  <1>3. Rotates \cup {"unknown"} \subseteq Errors  BY DEF Rotates, Errors
  <1>4. /\ \/ Move(g, "calls")
           \/ \E e \in Rotates \cup {"unknown"} : Fail(g, e)
        /\ active' \in BOOLEAN /\ UNCHANGED <<pool, leaving>>
    BY DEF JoinChannel, progVars, Fail, DataTypes
  <1>5. MembershipType(Accounts, Indices)'
    <2>1. /\ member' \in {member, [member EXCEPT ![a] = "member"]}
          /\ memberUpdates' \in {memberUpdates, memberUpdates \cup {MemberUpdate(a, member[a], "member")}}
          /\ inviteCache' \in {inviteCache, "none"}
          /\ statusCache' \in {statusCache, [statusCache EXCEPT ![a] = "member"],
                                            [statusCache EXCEPT ![a] = "left"]}
      BY DEF JoinChannel, Becomes, UpdateMembership, UpdateInviteLink, memberVars
    <2> QED  BY <1>1, <2>1 DEF DataTypes, MembershipType, MemberUpdate, Statuses
  <1>6. DataTypes'
    BY <1>4, <1>5 DEF JoinChannel, DataTypes, StoreType, GroupCallType, storeVars, callVars
  <1>7. CASE Move(g, "calls")
    BY <1>1, <1>2, <1>6, <1>7, Moving DEF Entering
  <1>8. CASE \E e \in Rotates \cup {"unknown"} : Fail(g, e)
    <2>1. PICK e \in Rotates \cup {"unknown"} : Fail(g, e)  BY <1>8
    <2>2. e \in Errors /\ go[g].at \in (Entering \cup Calling) \ {"status", "wait"}
      BY <1>1, <1>3 DEF Entering
    <2> QED  BY <1>2, <1>6, <2>1, <2>2, FailKeepsEarly
  <1> QED  BY <1>4, <1>7, <1>8

LEMMA CallsKeeps ==
    ASSUME DataTypes, Points, SaneInv, NEW g \in Goroutines, Calls(g)
    PROVE  DataTypes' /\ Kept
  <1>1. go[g].at = "calls" /\ Fits(go[g]) /\ go[g].req = "play"
    BY Acting DEF Calls, At, Fits, Entering
  <1>2. Calm
    BY CalmSteps DEF Calls, storeVars, callVars, progVars, ghosts, Fail
  <1>3. DataTypes'
    BY DEF Calls, Fail, DataTypes, StoreType, MembershipType, GroupCallType,
           storeVars, memberVars, callVars, progVars
  <1>4. CASE Move(g, "create")
    BY <1>1, <1>2, <1>3, <1>4, Moving DEF Entering, Calling
  <1>5. CASE Move(g, "save")
    BY <1>1, <1>2, <1>3, <1>5, Moving DEF Entering
  <1>6. CASE Fail(g, "unknown")
    BY <1>1, <1>2, <1>3, <1>6, FailKeeps DEF Errors, Entering
  <1> QED  BY <1>4, <1>5, <1>6 DEF Calls

\* A call that is stopped.
LEMMA Stops ==
    ASSUME DataTypes, NEW a \in Indices, Stopped(a), pending' \in [Indices -> BOOLEAN],
           \A b \in Indices : pending'[b] => pending[b]
    PROVE  /\ binding' \in [Indices -> {"none", "created", "connecting", "connected"}]
           /\ mode' \in [Indices -> {"rtc", "stream"}]
           /\ signals' \in [Indices -> SUBSET {"ok", "failed"}]
           /\ \A b \in Indices : Engaged(b)' => Engaged(b)
  <1>1. binding' = [binding EXCEPT ![a] = "none"] /\ mode' = [mode EXCEPT ![a] = "rtc"]
    BY DEF Stopped
  <1>2. /\ binding' \in [Indices -> {"none", "created", "connecting", "connected"}]
        /\ mode' \in [Indices -> {"rtc", "stream"}]
    BY <1>1 DEF DataTypes, GroupCallType
  <1>3. signals' \in [Indices -> SUBSET {"ok", "failed"}]
    BY DEF Stopped, DataTypes, GroupCallType
  <1>4. \A b \in Indices : Engaged(b)' => Engaged(b)
    BY <1>1 DEF Engaged, Streams, DataTypes, GroupCallType
  <1> QED  BY <1>2, <1>3, <1>4

LEMMA Unregisters ==
    ASSUME DataTypes, NEW a \in Indices, Unregister(a)
    PROVE  waiting' \in [Indices -> Goroutines \cup {NoOne}]
  BY DEF Unregister, DataTypes, GroupCallType

\* connectCall fails before it asks to join.
LEMMA StopAndFailKeeps ==
    ASSUME DataTypes, Points, SaneInv, NEW g \in Goroutines, NEW e \in {"fatal", "unknown"},
           go[g].at \in Calling \ {"wait"}, StopAndFail(g, e), upsets \subseteq upsets',
           groupCall' \in [Indices -> CallIds \cup {Unknown}],
           UNCHANGED <<storeVars, memberVars, videoChat, groupUpdates, pending, mutedByAdmin,
                       silenced>>
    PROVE  DataTypes' /\ Kept
  <1>1. go[g].who \in Indices  BY Places DEF Calling, NotChosen
  <1>2. /\ binding' \in [Indices -> {"none", "created", "connecting", "connected"}]
        /\ mode' \in [Indices -> {"rtc", "stream"}]
        /\ signals' \in [Indices -> SUBSET {"ok", "failed"}]
        /\ \A b \in Indices : Engaged(b)' => Engaged(b)
    BY <1>1, Stops DEF StopAndFail, DataTypes, GroupCallType
  <1>3. waiting' \in [Indices -> Goroutines \cup {NoOne}]
    BY <1>1, Unregisters DEF StopAndFail
  <1>4. DataTypes'
    BY <1>2, <1>3 DEF StopAndFail, Fail, DataTypes, StoreType, MembershipType, GroupCallType,
                      storeVars, memberVars
  <1>5. Calm  BY <1>2 DEF Calm, StopAndFail, Fail, storeVars
  <1>6. /\ go[g].at \in (Entering \cup Calling) \ {"status", "wait"}
        /\ e \in Errors
        /\ Fail(g, e)
    BY DEF Calling, Errors, StopAndFail
  <1>7. Kept  BY <1>5, <1>6, FailKeepsEarly
  <1> QED  BY <1>4, <1>7

LEMMA CreateKeeps ==
    ASSUME DataTypes, Points, SaneInv, NEW g \in Goroutines, Create(g)
    PROVE  DataTypes' /\ Kept
  <1> DEFINE a == go[g].who
  <1>1. /\ go[g].at = "create" /\ a \in Indices /\ go[g] \in Goroutine /\ Fits(go[g])
    BY Places, Acting DEF Create, At, NotChosen
  <1>2. CASE /\ binding[a] = "none"
             /\ binding' = [binding EXCEPT ![a] = "created"]
             /\ waiting' = [waiting EXCEPT ![a] = g]
             /\ go' = [go EXCEPT ![g].at = "call", ![g].answer = "none"]
             /\ UNCHANGED <<mode, signals, progVars>>
    <2>1. DataTypes'
      BY <1>1, <1>2 DEF Create, DataTypes, StoreType, MembershipType, GroupCallType,
                        storeVars, memberVars, progVars
    <2>2. Calm
      BY <1>1, <1>2 DEF Create, Calm, Engaged, Streams, storeVars, progVars, ghosts, DataTypes,
                        GroupCallType
    <2> DEFINE r == [go[g] EXCEPT !.at = "call", !.answer = "none"]
    <2>3. Becoming(g, r)  BY <1>2 DEF Becoming
    <2>4. /\ r \in Goroutine /\ r.at = "call" /\ r.who = a /\ r.req = go[g].req
          /\ r.tried = go[g].tried
      BY <1>1 DEF Goroutine, Calling
    <2> HIDE DEF r
    <2>5. Kept  BY <1>1, <2>2, <2>3, <2>4, MoveKeeps DEF Entering, Calling
    <2> QED  BY <2>1, <2>5
  <1>3. CASE Stopped(a) /\ Unregister(a) /\ Fail(g, "unknown")
    <2>1. StopAndFail(g, "unknown")  BY <1>3 DEF StopAndFail
    <2>2. groupCall' \in [Indices -> CallIds \cup {Unknown}]
      BY DEF Create, DataTypes, GroupCallType
    <2> QED  BY <1>1, <2>1, <2>2, StopAndFailKeeps DEF Create, Calling, ghosts
  <1> QED  BY <1>2, <1>3 DEF Create

LEMMA CallKeeps ==
    ASSUME DataTypes, Points, SaneInv, NEW g \in Goroutines, Call(g)
    PROVE  DataTypes' /\ Kept
  <1> DEFINE a == go[g].who
  <1>1. /\ go[g].at = "call" /\ a \in Indices /\ go[g] \in Goroutine /\ Fits(go[g])
    BY Places, Acting DEF Call, At, NotChosen
  <1>2. CASE StopAndFail(g, "fatal") \/ StopAndFail(g, "unknown")
    <2>1. groupCall' \in [Indices -> CallIds \cup {Unknown}]
      BY DEF Call, DataTypes, GroupCallType
    <2>2. /\ UNCHANGED <<storeVars, memberVars, videoChat, groupUpdates, pending,
                         mutedByAdmin, silenced>>
          /\ upsets \subseteq upsets'
      BY DEF Call, ghosts
    <2>3. go[g].at \in Calling \ {"wait"}  BY <1>1 DEF Calling
    <2> QED  BY <1>2, <2>1, <2>2, <2>3, StopAndFailKeeps
  <1>3. ASSUME NEW x \in {"join", "keep"}, NEW c \in CallIds, Undisturbed,
               go' = [go EXCEPT ![g].at = x, ![g].call = c]
        PROVE  DataTypes' /\ Kept
    <2>1. DataTypes'
      BY <1>3 DEF Call, Undisturbed, DataTypes, StoreType, MembershipType, GroupCallType,
                  storeVars, memberVars, progVars
    <2>2. Calm  BY <1>3, CalmSteps DEF Call, Undisturbed, storeVars, ghosts, progVars
    <2> DEFINE r == [go[g] EXCEPT !.at = x, !.call = c]
    <2>3. Becoming(g, r)  BY <1>3 DEF Becoming
    <2>4. /\ r \in Goroutine /\ r.at = x /\ r.who = a /\ r.req = go[g].req
          /\ r.tried = go[g].tried
      BY <1>1, <1>3 DEF Goroutine, Calling
    <2> HIDE DEF r
    <2>5. Kept  BY <1>1, <1>3, <2>2, <2>3, <2>4, MoveKeeps DEF Entering, Calling
    <2> QED  BY <2>1, <2>5
  <1>4. groupCall[a] \in CallIds \cup {Unknown} /\ videoChat \in CallIds
    BY <1>1 DEF DataTypes, GroupCallType
  <1>5. CASE /\ KnowsCall(a) /\ Undisturbed
             /\ go' = [go EXCEPT ![g].at = "join", ![g].call = groupCall[a]]
    <2>1. groupCall[a] \in CallIds  BY <1>4, <1>5 DEF KnowsCall
    <2> QED  BY <1>3, <1>5, <2>1
  <1>6. CASE /\ Undisturbed
             /\ go' = [go EXCEPT ![g].at = "keep", ![g].call = videoChat]
    BY <1>3, <1>4, <1>6
  <1> QED  BY <1>2, <1>5, <1>6 DEF Call

LEMMA KeepKeeps ==
    ASSUME DataTypes, Points, SaneInv, NEW g \in Goroutines, Keep(g)
    PROVE  DataTypes' /\ Kept
  <1>1. /\ go[g].at = "keep" /\ go[g].who \in Indices /\ go[g].call \in CallIds
    BY Places, Acting DEF Keep, At, NotChosen, Goroutine
  <1>2. /\ groupCall' \in [Indices -> CallIds \cup {Unknown}]
        /\ upsets \subseteq upsets'
    BY <1>1 DEF Keep, DataTypes, GroupCallType, Upset
  <1>3. UNCHANGED <<storeVars, memberVars, videoChat, groupUpdates, pending, mutedByAdmin,
                    silenced>>
    BY DEF Keep
  <1>4. CASE StopAndFail(g, "fatal")
    <2>1. go[g].at \in Calling \ {"wait"}  BY <1>1 DEF Calling
    <2> QED  BY <1>2, <1>3, <1>4, <2>1, StopAndFailKeeps
  <1>5. CASE Move(g, "join") /\ Undisturbed
    <2>1. DataTypes'
      BY <1>2, <1>3, <1>5 DEF Undisturbed, DataTypes, StoreType, MembershipType, GroupCallType,
                  storeVars, memberVars, progVars
    <2>2. Calm  BY <1>2, <1>3, <1>5, CalmSteps DEF Undisturbed, storeVars, progVars
    <2>3. Kept  BY <1>1, <1>5, <2>2, Moving DEF Entering, Calling
    <2> QED  BY <2>1, <2>3
  <1> QED  BY <1>4, <1>5 DEF Keep

LEMMA JoinKeeps ==
    ASSUME DataTypes, Points, SaneInv, NEW g \in Goroutines, Join(g)
    PROVE  DataTypes' /\ Kept
  <1> DEFINE a == go[g].who
  <1>1. /\ go[g].at = "join" /\ a \in Indices /\ go[g] \in Goroutine /\ Fits(go[g])
    BY Places, Acting DEF Join, At, NotChosen
  <1>2. Calm
    BY CalmSteps DEF Join, storeVars, ghosts, progVars, Fail
  <1>3. CASE /\ go' = [go EXCEPT ![g].at = "connect", ![g].call = NoCall]
             /\ UNCHANGED <<waiting, progVars>>
    <2>1. DataTypes'
      BY <1>3 DEF Join, DataTypes, StoreType, MembershipType, GroupCallType,
                  storeVars, memberVars, progVars
    <2> DEFINE r == [go[g] EXCEPT !.at = "connect", !.call = NoCall]
    <2>2. Becoming(g, r)  BY <1>3 DEF Becoming
    <2>3. /\ r \in Goroutine /\ r.at = "connect" /\ r.who = a /\ r.req = go[g].req
          /\ r.tried = go[g].tried
      BY <1>1, Numbers DEF Goroutine, Calling
    <2> HIDE DEF r
    <2>4. Kept  BY <1>1, <1>2, <2>2, <2>3, MoveKeeps DEF Entering, Calling
    <2> QED  BY <2>1, <2>4
  <1>4. ASSUME NEW e \in Errors, Fail(g, e), Unregister(a)
        PROVE  DataTypes' /\ Kept
    <2>1. waiting' \in [Indices -> Goroutines \cup {NoOne}]  BY <1>1, <1>4, Unregisters
    <2>2. DataTypes'
      BY <1>4, <2>1 DEF Join, Fail, DataTypes, StoreType, MembershipType, GroupCallType,
                  storeVars, memberVars
    <2>3. go[g].at \in (Entering \cup Calling) \ {"status", "wait"}  BY <1>1 DEF Calling
    <2>4. Kept  BY <1>2, <1>4, <2>3, FailKeepsEarly
    <2> QED  BY <2>2, <2>4
  <1>5. {"retry", "rotate", "unknown", "fatal"} \subseteq Errors  BY DEF Errors
  <1> QED  BY <1>3, <1>4, <1>5 DEF Join

\* A connection is made: the assistant is engaged, by the goroutine that waits.
LEMMA ConnectKeeps ==
    ASSUME DataTypes, Points, SaneInv, NEW g \in Goroutines, Connect(g)
    PROVE  DataTypes' /\ Kept
  <1> DEFINE a == go[g].who
  <1>1. /\ go[g].at = "connect" /\ a \in Indices /\ go[g] \in Goroutine /\ Fits(go[g])
    BY Places, Acting DEF Connect, At, NotChosen
  <1>2. UNCHANGED <<assigned, assignedCache, silenced, upsets, pool>>
    BY DEF Connect, storeVars, ghosts, progVars, Move, Fail
  <1>3. CASE /\ Unregister(a) /\ Fail(g, "unknown")
             /\ UNCHANGED <<binding, mode, pending>>
    <2>1. waiting' \in [Indices -> Goroutines \cup {NoOne}]  BY <1>1, <1>3, Unregisters
    <2>2. DataTypes'
      BY <1>3, <2>1 DEF Connect, Fail, DataTypes, StoreType, MembershipType, GroupCallType,
                  storeVars, memberVars
    <2>3. Calm  BY <1>2, <1>3, CalmSteps
    <2>4. go[g].at \in (Entering \cup Calling) \ {"status", "wait"} /\ "unknown" \in Errors
      BY <1>1 DEF Calling, Errors
    <2>5. Kept  BY <1>3, <2>3, <2>4, FailKeepsEarly
    <2> QED  BY <2>2, <2>5
  <1>4. ASSUME NEW m \in {"rtc", "stream"},
               mode' = [mode EXCEPT ![a] = m],
               pending' = [pending EXCEPT ![a] = @ \/ m = "stream"],
               binding' = [binding EXCEPT ![a] = "connecting"],
               Move(g, "wait"),
               UNCHANGED <<waiting, progVars>>
        PROVE  DataTypes' /\ Kept
    <2>1. DataTypes'
      <3>1. pending' \in [Indices -> BOOLEAN]
        BY <1>1, <1>4 DEF DataTypes, GroupCallType
      <3> QED
        BY <1>1, <1>4, <3>1 DEF Connect, DataTypes, StoreType, MembershipType, GroupCallType,
                  storeVars, memberVars, progVars
    <2> DEFINE r == [go[g] EXCEPT !.at = "wait"]
    <2>2. Becoming(g, r)  BY <1>4 DEF Becoming, Move
    <2>3. /\ r \in Goroutine /\ r.at = "wait" /\ r.who = a /\ r.req = go[g].req
          /\ r.tried = go[g].tried
      BY <1>1 DEF Goroutine, Calling
    <2> HIDE DEF r
    <2>4. Fits(r)
      BY <1>1, <2>3 DEF Fits, Other, Seek, Entering, Calling, Ending, NotChosen
    <2>5. Points'  BY <1>2, <2>2, <2>3, <2>4, PointsKept
    <2>6. go'[g] = r /\ \A h \in Goroutines \ {g} : go'[h] = go[h]  BY <2>2, Turns
    <2>7. \A b \in Indices : Engaged(b)' => Engaged(b) \/ b = a
      BY <1>1, <1>4 DEF Engaged, Streams, DataTypes, GroupCallType
    <2>8. Streaming(g) /\ go[g].req \in {"play", "reconnect"}
      BY <1>1 DEF Streaming, Fits, Calling
    <2>9. SaneInv'
      <3> SUFFICES ASSUME Sane' PROVE Owned'
        BY DEF SaneInv
      <3>1. Owned  BY <1>2 DEF Sane, CallUpsets, SaneInv
      <3>2. \A h \in Goroutines : Streaming(h)' <=> Streaming(h)
        BY <2>3, <2>6 DEF Streaming
      <3>3. OneStreams'  BY <3>1, <3>2 DEF Owned, OneStreams
      <3>4. CacheFollows'
        BY <1>1, <1>2, <2>6, <3>1 DEF Owned, CacheFollows
      <3>5. \A h \in Goroutines \ {g} : ~Streaming(h)
        BY <2>8, <3>1 DEF Owned, OneStreams
      <3>6. ASSUME NEW h \in Goroutines PROVE CarriesTruth(h)'
        <4>1. CASE h = g  BY <2>3, <2>6, <4>1 DEF CarriesTruth
        <4>2. CASE h # g
          <5>1. go[h].at # "evicted"
            BY <3>5, <4>2, Acting DEF Streaming, Fits, Ending
          <5>2. CarriesTruth(h)  BY <3>1 DEF Owned
          <5> QED  BY <1>2, <2>6, <4>2, <5>1, <5>2 DEF CarriesTruth
        <4> QED  BY <4>1, <4>2
      <3>7. AttemptIsAlone(g)  BY <3>1 DEF Owned
      <3>8. go[g].req = "play" =>
              /\ go[g].who = assigned \/ \A b \in Indices : ~Engaged(b)
              /\ Streamer(g)'
        BY <1>1, <2>3, <2>6, <3>7 DEF AttemptIsAlone, Streamer, Calling
      <3>9. ASSUME NEW h \in Goroutines PROVE AttemptIsAlone(h)'
        <4>1. CASE h = g
          BY <1>2, <2>3, <2>6, <2>7, <3>7, <3>8, <4>1 DEF AttemptIsAlone
        <4>2. CASE h # g
          BY <2>6, <3>5, <4>2 DEF AttemptIsAlone, Streaming
        <4> QED  BY <4>1, <4>2
      <3>10. EngagedIsOwned'
        <4> SUFFICES ASSUME NEW b \in Indices, Engaged(b)', b # assigned
                     PROVE  \E h \in Goroutines : b = go'[h].who /\ Streamer(h)'
          BY <1>2 DEF EngagedIsOwned
        <4>1. CASE go[g].req = "play" /\ b = a
          BY <2>3, <2>6, <3>8, <4>1
        <4>2. CASE go[g].req = "reconnect" /\ b = a
          BY <3>7, <4>2 DEF AttemptIsAlone
        <4>3. CASE b # a
          <5>1. PICK h \in Goroutines : b = go[h].who /\ Streamer(h)
            BY <2>7, <3>1, <4>3 DEF Owned, EngagedIsOwned
          <5> QED  BY <2>6, <4>3, <5>1 DEF Streamer
        <4> QED  BY <2>8, <4>1, <4>2, <4>3
      <3>11. StopIsAlone'
        BY <1>2, <2>3, <2>6, <2>8, <3>1, <3>2 DEF Owned, StopIsAlone, Streaming
      <3> QED  BY <3>3, <3>4, <3>6, <3>9, <3>10, <3>11 DEF Owned
    <2>10. Advances(g)  BY <2>3, <2>6 DEF Advances
    <2>11. Kept  BY <2>2, <2>5, <2>9, <2>10, OthersAdvance DEF Kept
    <2> QED  BY <2>1, <2>11
  <1> QED  BY <1>3, <1>4 DEF Connect

LEMMA GiveUpKeeps ==
    ASSUME DataTypes, Points, SaneInv, NEW g \in Goroutines, go[g].at = "wait",
           GiveUp(g), Unregister(go[g].who),
           UNCHANGED <<storeVars, memberVars, videoChat, groupCall, groupUpdates, binding,
                       mode,
                       pending, mutedByAdmin, signals, boundVars, silenced>>
    PROVE  DataTypes' /\ Kept
  <1>1. go[g].who \in Indices  BY Places DEF NotChosen
  <1>2. /\ Fail(g, "unknown") /\ upsets \subseteq upsets'
        /\ Engaged(go[g].who) /\ assigned # go[g].who => ~Sane'
    BY Upsetting DEF GiveUp, Upset
  <1>3. waiting' \in [Indices -> Goroutines \cup {NoOne}]  BY <1>1, Unregisters
  <1>4. DataTypes'
    BY <1>2, <1>3 DEF Fail, DataTypes, StoreType, MembershipType, GroupCallType,
                      storeVars, memberVars
  <1>5. Calm  BY <1>2, CalmSteps DEF storeVars, Fail
  <1>6. /\ "unknown" \in Errors
        /\ go[g].at \in (Entering \cup Calling) \ {"status"}
        /\ go[g].at = "wait" /\ Engaged(go[g].who) /\ assigned # go[g].who => ~Sane'
    BY <1>2 DEF Errors, Calling
  <1>7. Kept  BY <1>2, <1>5, <1>6, FailKeeps
  <1> QED  BY <1>4, <1>7

LEMMA AnsweredKeeps ==
    ASSUME DataTypes, Points, SaneInv, NEW g \in Goroutines, Answered(g)
    PROVE  DataTypes' /\ Kept
  <1>1. /\ go[g].at = "wait" /\ go[g].who \in Indices /\ go[g] \in Goroutine
        /\ Unregister(go[g].who)
    BY Places, Acting DEF Answered, At, NotChosen
  <1>2. UNCHANGED <<storeVars, memberVars, videoChat, groupCall, groupUpdates, binding, mode,
                    pending, mutedByAdmin, signals, boundVars, silenced>>
    BY DEF Answered
  <1>3. CASE GiveUp(g)
    BY <1>1, <1>2, <1>3, GiveUpKeeps
  <1>4. CASE /\ go[g].req = "play"
             /\ go' = [go EXCEPT ![g].at = "save", ![g].answer = "none"]
             /\ UNCHANGED <<progVars, upsets>>
    <2>1. waiting' \in [Indices -> Goroutines \cup {NoOne}]  BY <1>1, Unregisters
    <2>2. DataTypes'
      BY <1>2, <1>4, <2>1 DEF DataTypes, StoreType, MembershipType, GroupCallType,
                  storeVars, memberVars, progVars
    <2>3. Calm  BY <1>2, <1>4, CalmSteps DEF storeVars, progVars
    <2> DEFINE r == [go[g] EXCEPT !.at = "save", !.answer = "none"]
    <2>4. Becoming(g, r)  BY <1>4 DEF Becoming
    <2>5. /\ r \in Goroutine /\ r.at = "save" /\ r.who = go[g].who /\ r.req = go[g].req
          /\ r.tried = go[g].tried
      BY <1>1 DEF Goroutine, Ending
    <2> HIDE DEF r
    <2>6. Kept  BY <1>1, <1>4, <2>3, <2>4, <2>5, MoveKeeps DEF Entering, Calling
    <2> QED  BY <2>2, <2>6
  <1> QED  BY <1>3, <1>4 DEF Answered

LEMMA TimesOutKeeps ==
    ASSUME DataTypes, Points, SaneInv, NEW g \in Goroutines, TimesOut(g)
    PROVE  DataTypes' /\ Kept
  BY GiveUpKeeps DEF TimesOut, At

-----------------------------------------------------------------------------
(* The end of an attempt. *)

\* A goroutine that streams becomes idle or goes on elsewhere: what is left to
\* show is about itself and about who is engaged.
LEMMA Parting ==
    ASSUME Points, Owned, NEW g \in Goroutines, NEW r, Becoming(g, r), UNCHANGED silenced,
           Streaming(g), r.req \in {"none", go[g].req}, r.at \notin {"stop"}
    PROVE  /\ go'[g] = r /\ \A h \in Goroutines \ {g} : go'[h] = go[h]
           /\ \A h \in Goroutines \ {g} : ~Streaming(h) /\ ~Streamer(h) /\ AttemptIsAlone(h)'
           /\ \A h \in Goroutines \ {g} : go[h].at \notin Entering \cup Calling \cup Ending
           /\ OneStreams'
           /\ silenced = "no" /\ StopIsAlone'
  <1>1. go'[g] = r /\ \A h \in Goroutines \ {g} : go'[h] = go[h]  BY Turns
  <1>2. \A h \in Goroutines \ {g} : ~Streaming(h)  BY DEF Owned, OneStreams
  <1>3. \A h \in Goroutines : Streaming(h)' => h = g  BY <1>1, <1>2 DEF Streaming
  <1>4. silenced = "no"  BY DEF Owned, StopIsAlone
  <1>5. StopIsAlone'  BY <1>4, Names DEF StopIsAlone
  <1>6. \A h \in Goroutines \ {g} : go[h].at \notin Entering \cup Calling \cup Ending
    BY <1>2, Acting DEF Streaming, Fits
  <1>7. \A h \in Goroutines \ {g} : ~Streamer(h) /\ AttemptIsAlone(h)'
    BY <1>1, <1>2 DEF Streamer, Streaming, AttemptIsAlone
  <1> QED  BY <1>1, <1>2, <1>3, <1>4, <1>5, <1>6, <1>7 DEF OneStreams

LEMMA IdleKeeps ==
    ASSUME Points, NEW g \in Goroutines, Return(g), pool' = pool
    PROVE  Points' /\ Becoming(g, Idle) /\ (\A h \in Goroutines : Advances(h))
           /\ Idle.at = "idle" /\ Idle.req = "none" /\ Idle.who = Nobody
  <1>1. Becoming(g, Idle)  BY DEF Return, Becoming
  <1>2. go'[g] = Idle  BY <1>1, Turns
  <1>3. Idle.at = "idle" /\ Idle.req = "none" /\ Idle.who = Nobody  BY DEF Idle
  <1>4. Advances(g)  BY <1>2, <1>3 DEF Advances
  <1> QED  BY <1>1, <1>3, <1>4, IdleFits, PointsKept, OthersAdvance

LEMMA UnpendKeeps ==
    ASSUME DataTypes, Points, SaneInv, NEW g \in Goroutines, Unpend(g)
    PROVE  DataTypes' /\ Kept
  <1>1. go[g].at = "unpend" /\ go[g].who \in Indices /\ go[g].req = "reconnect"
    BY Places, Acting DEF Unpend, At, NotChosen, Fits
  <1>2. pending' \in [Indices -> BOOLEAN]
    BY <1>1 DEF Unpend, DataTypes, GroupCallType
  <1>3. DataTypes'
    BY <1>2 DEF Unpend, DataTypes, StoreType, MembershipType, GroupCallType,
                  storeVars, memberVars, progVars
  <1>4. /\ Calm /\ Return(g)
    BY <1>1 DEF Unpend, Calm, storeVars, progVars, ghosts, Engaged, Streams, DataTypes,
                GroupCallType
  <1>5. /\ Points' /\ Becoming(g, Idle) /\ (\A h \in Goroutines : Advances(h))
        /\ Idle.at = "idle" /\ Idle.req = "none" /\ Idle.who = Nobody
    BY <1>4, IdleKeeps DEF Calm
  <1>6. SaneInv'
    <2> SUFFICES ASSUME Sane' PROVE Owned'
      BY DEF SaneInv
    <2> USE <1>4 DEF Calm
    <2>1. Owned  BY StillSane DEF SaneInv
    <2>2. Streaming(g)  BY <1>1 DEF Streaming
    <2>3. /\ go'[g] = Idle /\ \A h \in Goroutines \ {g} : go'[h] = go[h]
          /\ \A h \in Goroutines \ {g} : ~Streaming(h) /\ ~Streamer(h) /\ AttemptIsAlone(h)'
          /\ OneStreams' /\ StopIsAlone'
      BY <1>5, <2>1, <2>2, Parting
    <2>4. CacheFollows'  BY <1>1, <2>1, <2>3 DEF Owned, CacheFollows
    <2>5. ASSUME NEW h \in Goroutines PROVE CarriesTruth(h)'
      BY <1>5, <2>1, <2>3 DEF Owned, CarriesTruth
    <2>6. AttemptIsAlone(g)'
      BY <1>5, <2>3 DEF AttemptIsAlone
    <2>7. EngagedIsOwned'
      BY <1>1, <2>1, <2>3 DEF Owned, EngagedIsOwned, Streamer
    <2> QED  BY <2>3, <2>4, <2>5, <2>6, <2>7 DEF Owned
  <1> QED  BY <1>3, <1>5, <1>6 DEF Kept

\* A goroutine that becomes r, whose types are as they should be.
LEMMA TurnKeeps ==
    ASSUME Points, NEW g \in Goroutines, NEW r \in Goroutine, Fits(r), Becoming(g, r),
           pool' = pool,
           go[g].at \in Seek \/ r.at # "status", SaneInv'
    PROVE  Kept
  <1>1. Points'  BY PointsKept
  <1>2. Advances(g)  BY Turns DEF Advances
  <1> QED  BY <1>1, <1>2, OthersAdvance DEF Kept

LEMMA EvictKeeps ==
    ASSUME DataTypes, Points, SaneInv, NEW g \in Goroutines, Evict(g)
    PROVE  DataTypes' /\ Kept
  <1> DEFINE a == go[g].who
  <1>1. /\ go[g].at = "evict" /\ a \in Indices /\ go[g] \in Goroutine /\ Fits(go[g])
        /\ go[g].req = "play"
    BY Places, Acting DEF Evict, At, NotChosen, Fits, Ending
  <1>2. DataTypes'
    BY DEF Evict, RemoveAssistant, SetAssistant, DataTypes, StoreType, MembershipType,
           GroupCallType,
           storeVars, memberVars, callVars, progVars
  <1>3. PICK x \in {"evicted", "not evicted"} :
          /\ Move(g, x)
          /\ x = "not evicted" => ~Sane'
          /\ x = "evicted" => /\ assigned' = Nobody
                              /\ Sane' => ~Engaged(a) /\ \A h \in Goroutines \ {g} : go[h].at \notin BeforeCache
          /\ upsets \subseteq upsets'
    BY Upsetting DEF Evict, RemoveAssistant, SetAssistant, Clash, Move, Upset
  <1>4. /\ UNCHANGED <<assignedCache, silenced, pool>>
        /\ \A b \in Indices : Engaged(b)' <=> Engaged(b)
    BY DEF Evict, RemoveAssistant, SetAssistant, storeVars, callVars, progVars, Engaged,
           Streams
  <1> DEFINE r == [go[g] EXCEPT !.at = x]
  <1>5. Becoming(g, r)  BY <1>3 DEF Becoming, Move
  <1>6. /\ r \in Goroutine /\ r.at = x /\ r.who = a /\ r.req = go[g].req
        /\ r.tried = go[g].tried
    BY <1>1 DEF Goroutine, Ending
  <1> HIDE DEF r
  <1>7. Fits(r)
    BY <1>1, <1>6 DEF Fits, Other, Seek, Entering, Calling, Ending, NotChosen
  <1>8. SaneInv'
    <2> SUFFICES ASSUME Sane' PROVE Owned'
      BY DEF SaneInv
    <2>1. Owned  BY <1>3, StillSane DEF SaneInv
    <2>2. /\ x = "evicted" /\ assigned' = Nobody /\ ~Engaged(a)
          /\ \A h \in Goroutines \ {g} : go[h].at \notin BeforeCache
      BY <1>3
    <2>3. Streaming(g)  BY <1>1 DEF Streaming
    <2>4. /\ go'[g] = r /\ \A h \in Goroutines \ {g} : go'[h] = go[h]
          /\ \A h \in Goroutines \ {g} : ~Streaming(h) /\ ~Streamer(h) /\ AttemptIsAlone(h)'
          /\ OneStreams' /\ StopIsAlone'
      BY <1>4, <1>5, <1>6, <2>1, <2>2, <2>3, Parting
    <2>5. ~Streamer(g)  BY <1>1 DEF Streamer
    <2>6. \A b \in Indices : ~Engaged(b)
      <3>1. AttemptIsAlone(g) /\ EngagedIsOwned  BY <2>1 DEF Owned
      <3>2. CASE a = assigned
        BY <2>2, <2>4, <2>5, <3>1, <3>2 DEF EngagedIsOwned
      <3>3. CASE a # assigned
        BY <1>1, <2>5, <3>1, <3>3 DEF AttemptIsAlone
      <3> QED  BY <3>2, <3>3
    <2>7. CacheFollows'  BY <1>6, <2>2, <2>4 DEF CacheFollows
    <2>8. ASSUME NEW h \in Goroutines PROVE CarriesTruth(h)'
      <3>1. CASE h = g
        BY <1>4, <1>6, <2>2, <2>4, <2>6, <3>1 DEF CarriesTruth
      <3>2. CASE h # g
        BY <2>1, <2>2, <2>4, <3>2 DEF Owned, CarriesTruth, BeforeCache
      <3> QED  BY <3>1, <3>2
    <2>9. AttemptIsAlone(g)'
      BY <1>1, <1>6, <2>2, <2>4 DEF AttemptIsAlone, Entering, Calling
    <2>10. EngagedIsOwned'  BY <1>4, <2>6 DEF EngagedIsOwned
    <2> QED  BY <2>4, <2>7, <2>8, <2>9, <2>10 DEF Owned
  <1> QED  BY <1>2, <1>4, <1>5, <1>6, <1>7, <1>8, TurnKeeps

LEMMA NextUntriedKeeps ==
    ASSUME DataTypes, Points, SaneInv, NEW g \in Goroutines, NextUntried(g)
    PROVE  DataTypes' /\ Kept
  <1>1. /\ go[g].at \in {"evicted", "not evicted"} /\ go[g].who \in pool /\ go[g].who \in Indices
        /\ go[g] \in Goroutine /\ Fits(go[g]) /\ go[g].req = "play" /\ pool \subseteq Indices
    BY Places, Acting DEF NextUntried, NotChosen, Fits, Ending, DataTypes
  <1>2. DataTypes'
    <2>1. leaving' \subseteq Indices
      BY <1>1 DEF NextUntried, LeaveAllForClient, DataTypes
    <2> QED
      BY <2>1 DEF NextUntried, UncacheAssistant, CacheAssistant, DataTypes, StoreType,
             MembershipType, GroupCallType, storeVars, memberVars, callVars
  <1>3. /\ UNCHANGED <<assigned, silenced, pool, upsets>>
        /\ go[g].at = "evicted" => assignedCache' = Nobody
        /\ \A b \in Indices : Engaged(b)' <=> Engaged(b)
    BY DEF NextUntried, At, UncacheAssistant, CacheAssistant, storeVars, callVars, ghosts,
           Engaged, Streams
  <1>4. ASSUME NEW r \in Goroutine, Becoming(g, r), r.at \in {"idle", "status"},
               r.req \in {"none", "play"}
        PROVE  SaneInv'
    <2> SUFFICES ASSUME Sane' PROVE Owned'
      BY DEF SaneInv
    <2>1. Owned  BY <1>3 DEF Sane, CallUpsets, SaneInv
    <2>2. Streaming(g)  BY <1>1 DEF Streaming
    <2>3. /\ go'[g] = r /\ \A h \in Goroutines \ {g} : go'[h] = go[h]
          /\ \A h \in Goroutines \ {g} : ~Streaming(h) /\ ~Streamer(h) /\ AttemptIsAlone(h)'
          /\ \A h \in Goroutines \ {g} : go[h].at \notin Entering \cup Calling \cup Ending
          /\ OneStreams' /\ StopIsAlone'
      BY <1>1, <1>3, <1>4, <2>1, <2>2, Parting
    <2>4. CarriesTruth(g)  BY <2>1 DEF Owned
    <2>5. /\ go[g].at = "evicted" /\ assigned = Nobody /\ \A b \in Indices : ~Engaged(b)
          /\ assignedCache' = Nobody
      BY <1>1, <1>3, <2>4 DEF CarriesTruth
    <2>6. CacheFollows'  BY <2>5 DEF CacheFollows
    <2>7. ASSUME NEW h \in Goroutines PROVE CarriesTruth(h)'
      <3>1. CASE h = g  BY <1>4, <2>3, <3>1 DEF CarriesTruth
      <3>2. CASE h # g
        BY <1>3, <2>1, <2>3, <3>2 DEF Owned, CarriesTruth
      <3> QED  BY <3>1, <3>2
    <2>8. AttemptIsAlone(g)'
      BY <1>3, <1>4, <2>3, <2>5 DEF AttemptIsAlone
    <2>9. EngagedIsOwned'  BY <1>3, <2>5 DEF EngagedIsOwned
    <2> QED  BY <2>3, <2>6, <2>7, <2>8, <2>9 DEF Owned
  <1>5. CASE Return(g)
    <2>1. /\ Points' /\ Becoming(g, Idle) /\ (\A h \in Goroutines : Advances(h))
          /\ Idle.at = "idle" /\ Idle.req = "none"
      BY <1>3, <1>5, IdleKeeps
    <2> QED  BY <1>2, <1>4, <2>1, IdleFits DEF Kept
  <1>6. ASSUME NEW i \in pool \ go[g].tried, go' = [go EXCEPT ![g] = Attempt(@, i)]
        PROVE  Kept
    <2> DEFINE r == Attempt(go[g], i)
    <2>1. Becoming(g, r)  BY <1>6 DEF Becoming
    <2>2. /\ r \in Goroutine /\ r.at = "status" /\ r.who = i /\ r.req = "play"
          /\ r.tried = go[g].tried \cup {i}
      BY <1>1, <1>6 DEF Goroutine, Attempt, Entering
    <2> HIDE DEF r
    <2>3. Fits(r)
      BY <1>1, <1>6, <2>2 DEF Fits, Other, Seek, Entering, Calling, Ending, NotChosen
    <2>4. SaneInv'  BY <1>4, <2>1, <2>2
    <2>5. Points'  BY <1>3, <2>1, <2>2, <2>3, PointsKept
    <2>6. Advances(g)
      <3>1. go'[g] = r  BY <2>1, Turns
      <3> QED  BY <1>6, <2>2, <3>1 DEF Advances
    <2> QED  BY <2>1, <2>4, <2>5, <2>6, OthersAdvance DEF Kept
  <1> QED  BY <1>2, <1>5, <1>6 DEF NextUntried

LEMMA SaveKeeps ==
    ASSUME DataTypes, Points, SaneInv, NEW g \in Goroutines, Save(g)
    PROVE  DataTypes' /\ Kept
  <1> DEFINE a == go[g].who
  <1>1. /\ go[g].at = "save" /\ a \in Indices /\ go[g] \in Goroutine /\ Fits(go[g])
        /\ go[g].req = "play"
    BY Places, Acting DEF Save, At, NotChosen, Fits, Ending
  <1>2. DataTypes'
    BY <1>1 DEF Save, SetAssistant, DataTypes, StoreType, MembershipType, GroupCallType,
           storeVars, memberVars, callVars, progVars
  <1>3. /\ UNCHANGED <<assignedCache, silenced, pool>>
        /\ upsets \subseteq upsets'
        /\ \A b \in Indices : Engaged(b)' <=> Engaged(b)
    BY DEF Save, SetAssistant, Upset, Clash, storeVars, callVars, progVars, Engaged, Streams
  <1>4. CASE Return(g) /\ ~Sane'
    <2>1. SaneInv'  BY <1>4 DEF SaneInv
    <2>2. /\ Points' /\ Becoming(g, Idle) /\ (\A h \in Goroutines : Advances(h))
      BY <1>3, <1>4, IdleKeeps
    <2> QED  BY <1>2, <2>1, <2>2 DEF Kept
  <1>5. CASE SetAssistant(a) /\ Clash(g) /\ Move(g, "saved")
    <2> DEFINE r == [go[g] EXCEPT !.at = "saved"]
    <2>1. Becoming(g, r)  BY <1>5 DEF Becoming, Move
    <2>2. /\ r \in Goroutine /\ r.at = "saved" /\ r.who = a /\ r.req = go[g].req
          /\ r.tried = go[g].tried
      BY <1>1 DEF Goroutine, Ending
    <2> HIDE DEF r
    <2>3. Fits(r)
      BY <1>1, <2>2 DEF Fits, Other, Seek, Entering, Calling, Ending, NotChosen
    <2>4. SaneInv'
      <3> SUFFICES ASSUME Sane' PROVE Owned'
        BY DEF SaneInv
      <3>1. Owned  BY <1>3, StillSane DEF SaneInv
      <3>2. /\ assigned' = a
            /\ \A h \in Goroutines \ {g} : go[h].at \notin BeforeCache
        BY <1>5, Upsetting DEF SetAssistant, Clash
      <3>3. Streaming(g)  BY <1>1 DEF Streaming
      <3>4. /\ go'[g] = r /\ \A h \in Goroutines \ {g} : go'[h] = go[h]
            /\ \A h \in Goroutines \ {g} : ~Streaming(h) /\ ~Streamer(h) /\ AttemptIsAlone(h)'
            /\ OneStreams' /\ StopIsAlone'
        BY <1>3, <2>1, <2>2, <3>1, <3>3, Parting
      <3>5. \A b \in Indices : Engaged(b) => b = a
        <4>1. AttemptIsAlone(g) /\ EngagedIsOwned  BY <3>1 DEF Owned
        <4>2. CASE a = assigned
          BY <3>4, <4>1, <4>2 DEF EngagedIsOwned
        <4>3. CASE a # assigned
          BY <1>1, <4>1, <4>3 DEF AttemptIsAlone
        <4> QED  BY <4>2, <4>3
      <3>6. CacheFollows'  BY <2>2, <3>4 DEF CacheFollows
      <3>7. ASSUME NEW h \in Goroutines PROVE CarriesTruth(h)'
        <4>1. CASE h = g
          BY <2>2, <3>2, <3>4, <4>1 DEF CarriesTruth
        <4>2. CASE h # g
          BY <3>1, <3>2, <3>4, <4>2 DEF Owned, CarriesTruth, BeforeCache
        <4> QED  BY <4>1, <4>2
      <3>8. AttemptIsAlone(g)'
        BY <1>1, <2>2, <3>4 DEF AttemptIsAlone, Entering, Calling
      <3>9. EngagedIsOwned'  BY <1>3, <3>2, <3>5 DEF EngagedIsOwned
      <3> QED  BY <3>4, <3>6, <3>7, <3>8, <3>9 DEF Owned
    <2> QED  BY <1>2, <1>3, <2>1, <2>2, <2>3, <2>4, TurnKeeps
  <1> QED  BY <1>4, <1>5, Upsetting DEF Save

LEMMA SavedKeeps ==
    ASSUME DataTypes, Points, SaneInv, NEW g \in Goroutines, Saved(g)
    PROVE  DataTypes' /\ Kept
  <1>1. /\ go[g].at = "saved" /\ go[g].who \in Indices /\ go[g].req = "play"
    BY Places, Acting DEF Saved, At, NotChosen, Fits, Ending
  <1>2. DataTypes'
    BY <1>1 DEF Saved, CacheAssistant, DataTypes, StoreType, MembershipType, GroupCallType,
           memberVars, callVars, progVars
  <1>3. /\ UNCHANGED <<assigned, silenced, pool, upsets>> /\ assignedCache' = go[g].who
        /\ Return(g)
        /\ \A b \in Indices : Engaged(b)' <=> Engaged(b)
    BY DEF Saved, CacheAssistant, callVars, progVars, ghosts, Engaged, Streams
  <1>4. /\ Points' /\ Becoming(g, Idle) /\ (\A h \in Goroutines : Advances(h))
        /\ Idle.at = "idle" /\ Idle.req = "none"
    BY <1>3, IdleKeeps
  <1>5. SaneInv'
    <2> SUFFICES ASSUME Sane' PROVE Owned'
      BY DEF SaneInv
    <2>1. Owned  BY <1>3 DEF Sane, CallUpsets, SaneInv
    <2>2. Streaming(g)  BY <1>1 DEF Streaming
    <2>3. /\ go'[g] = Idle /\ \A h \in Goroutines \ {g} : go'[h] = go[h]
          /\ \A h \in Goroutines \ {g} : ~Streaming(h) /\ ~Streamer(h) /\ AttemptIsAlone(h)'
          /\ OneStreams' /\ StopIsAlone'
      BY <1>3, <1>4, <2>1, <2>2, Parting
    <2>4. go[g].who = assigned  BY <1>1, <2>1 DEF Owned, CarriesTruth
    <2>5. CacheFollows'  BY <1>3, <2>4 DEF CacheFollows
    <2>6. ASSUME NEW h \in Goroutines PROVE CarriesTruth(h)'
      <3>1. CASE h = g  BY <1>4, <2>3, <3>1 DEF CarriesTruth
      <3>2. CASE h # g
        BY <1>3, <2>1, <2>3, <3>2 DEF Owned, CarriesTruth
      <3> QED  BY <3>1, <3>2
    <2>7. AttemptIsAlone(g)'  BY <1>4, <2>3 DEF AttemptIsAlone
    <2>8. EngagedIsOwned'
      BY <1>1, <1>3, <2>1, <2>3 DEF Owned, EngagedIsOwned, Streamer
    <2> QED  BY <2>3, <2>5, <2>6, <2>7, <2>8 DEF Owned
  <1> QED  BY <1>2, <1>4, <1>5 DEF Kept

-----------------------------------------------------------------------------
(* Which assistant. *)

\* A goroutine that looks for the assistant stays there or goes on with the
\* one it chose.
Seeks(g, r) ==
    /\ go[g].at \in Seek
    /\ r.req = go[g].req
    /\ r.at \in Seek \cup {"status", "stop", "update"}
    /\ r.at = "status" => r.req = "play"
    /\ \/ assigned' = assigned
       \/ /\ assigned = Nobody /\ r.at = "assigned"
          /\ \A h \in Goroutines \ {g} : go[h].at \notin BeforeCache
    /\ r.at \in {"fill", "refill"} => r.doc = assigned'
    /\ r.at \in {"assigned", "refill"} => r.who = assigned'
    /\ r.at \in {"status", "stop"} /\ (r.req = "play" \/ silenced = g) => r.who = assigned'

LEMMA SeekKeeps ==
    ASSUME DataTypes, Points, NEW g \in Goroutines, NEW r, Becoming(g, r),
           UNCHANGED silenced, upsets \subseteq upsets', \A b \in Indices : Engaged(b)' <=> Engaged(b),
           SaneInv, Sane' /\ Owned => Seeks(g, r) /\ CacheFollows'
    PROVE  SaneInv'
  <1> SUFFICES ASSUME Sane' PROVE Owned'
    BY DEF SaneInv
  <1>1. Owned  BY StillSane DEF SaneInv
  <1>2. Seeks(g, r) /\ CacheFollows'  BY <1>1
  <1>3. go'[g] = r /\ \A h \in Goroutines \ {g} : go'[h] = go[h]  BY Turns
  <1>4. \A h \in Goroutines : Streaming(h)' <=> Streaming(h)
    BY <1>2, <1>3 DEF Streaming, Seeks
  <1>5. OneStreams'  BY <1>1, <1>4 DEF Owned, OneStreams
  <1>6. \A h \in Goroutines : go[h].at \notin NotChosen => go[h].who # Nobody
    BY Places, Numbers
  <1>7. assigned' = assigned
        \/ (assigned = Nobody /\ \A h \in Goroutines \ {g} : go[h].at \notin BeforeCache)
    BY <1>2 DEF Seeks
  <1>8. ~Streamer(g) /\ ~Streamer(g)'
    BY <1>2, <1>3 DEF Streamer, Seeks, Seek
  <1>9. ASSUME NEW h \in Goroutines PROVE CarriesTruth(h)'
    <2>1. CASE h = g
      BY <1>2, <1>3, <2>1 DEF CarriesTruth, Seeks, Seek
    <2>2. CASE h # g
      BY <1>1, <1>3, <1>7, <2>2 DEF Owned, CarriesTruth, BeforeCache
    <2> QED  BY <2>1, <2>2
  <1>10. ASSUME NEW h \in Goroutines PROVE AttemptIsAlone(h)'
    <2>1. CASE h = g
      <3>1. r.req # "reconnect"
        BY <1>2, Acting DEF Seeks, Fits
      <3>2. r.req = "play" /\ r.at \in Entering \cup Calling \cup {"evict", "save"} => r.at = "status"
        BY <1>2 DEF Seeks, Seek, Entering, Calling
      <3> QED  BY <1>2, <1>3, <2>1, <3>1, <3>2 DEF AttemptIsAlone, Seeks
    <2>2. CASE h # g
      <3>1. AttemptIsAlone(h) /\ Fits(go[h])  BY <1>1, Acting DEF Owned
      <3>2. go[h].req = "reconnect" => go[h].at \notin NotChosen
        BY <3>1 DEF Fits, NotChosen, Seek
      <3>3. go[h].at \in Entering \cup Calling \cup {"evict", "save"} => go[h].at \notin NotChosen
        BY DEF Entering, Calling, NotChosen
      <3>4. Streamer(h)' <=> Streamer(h)  BY <1>3, <2>2 DEF Streamer
      <3> QED  BY <1>3, <1>6, <1>7, <2>2, <3>1, <3>2, <3>3, <3>4 DEF AttemptIsAlone
    <2> QED  BY <2>1, <2>2
  <1>11. EngagedIsOwned'
    <2> SUFFICES ASSUME NEW b \in Indices, Engaged(b), b # assigned'
                 PROVE  \E h \in Goroutines : b = go'[h].who /\ Streamer(h)'
      BY DEF EngagedIsOwned
    <2>1. b # assigned  BY <1>7, Numbers
    <2>2. PICK h \in Goroutines : b = go[h].who /\ Streamer(h)
      BY <1>1, <2>1 DEF Owned, EngagedIsOwned
    <2>3. h # g  BY <1>8, <2>2
    <2> QED  BY <1>3, <2>2, <2>3 DEF Streamer
  <1>12. StopIsAlone'
    <2>1. StopIsAlone  BY <1>1 DEF Owned
    <2>2. ASSUME NEW h \in Goroutines, silenced = h
          PROVE  go'[h].req = "stop" /\ (go'[h].at = "stop" => go'[h].who = assigned')
      <3>1. CASE h = g  BY <1>2, <1>3, <2>1, <2>2, <3>1 DEF StopIsAlone, Seeks
      <3>2. CASE h # g
        BY <1>3, <1>6, <1>7, <2>1, <2>2, <3>2 DEF StopIsAlone, NotChosen
      <3> QED  BY <3>1, <3>2
    <2> QED  BY <1>4, <2>1, <2>2 DEF StopIsAlone
  <1> QED  BY <1>2, <1>5, <1>9, <1>10, <1>11, <1>12 DEF Owned

\* The assistant that a request goes on with.
LEMMA Chooses ==
    ASSUME DataTypes, Points, NEW g \in Goroutines, go[g].at \in Seek, NEW i \in pool,
           Chosen(g, i)
    PROVE  \E r \in Goroutine :
              /\ Fits(r) /\ Becoming(g, r) /\ r.req = go[g].req /\ r.who = i
              /\ r.at \in {"status", "stop", "update"} /\ (r.at = "status" => r.req = "play")
  <1> DEFINE x == Entry[go[g].req]
             r == [go[g] EXCEPT !.who = i, !.tried = {i}, !.doc = Nobody, !.at = x]
  <1>1. go[g] \in Goroutine /\ Fits(go[g]) /\ go[g].req \in {"play", "stop", "update"}
    BY Acting DEF Fits
  <1>2. /\ x \in {"status", "stop", "update"}
        /\ x = "status" <=> go[g].req = "play"
        /\ x \in {"stop", "update"} => go[g].req = x
    BY <1>1 DEF Entry
  <1>3. Becoming(g, r)  BY DEF Chosen, Becoming
  <1> HIDE DEF x
  <1>4. /\ r \in Goroutine /\ r.at = x /\ r.who = i /\ r.req = go[g].req /\ r.tried = {i}
    BY <1>1, <1>2 DEF Goroutine, Entering, Other, DataTypes
  <1> HIDE DEF r
  <1>5. Fits(r)
    BY <1>1, <1>2, <1>4 DEF Fits, Other, Seek, Entering, Calling, Ending, NotChosen
  <1> QED  BY <1>2, <1>3, <1>4, <1>5

\* The step from a seeking goroutine to r, with its types.
LEMMA SeekTurns ==
    ASSUME DataTypes, Points, NEW g \in Goroutines, NEW r \in Goroutine, Fits(r), Becoming(g,
           r),
           UNCHANGED <<silenced, pool>>, upsets \subseteq upsets',
           \A b \in Indices : Engaged(b)' <=> Engaged(b),
           SaneInv, go[g].at \in Seek, Sane' /\ Owned => Seeks(g, r) /\ CacheFollows'
    PROVE  Kept
  BY SeekKeeps, TurnKeeps

LEMMA LookupHitKeeps ==
    ASSUME DataTypes, Points, SaneInv, NEW g \in Goroutines, LookupHit(g)
    PROVE  DataTypes' /\ Kept
  <1>1. /\ go[g].at = "lookup" /\ go[g].at \in Seek /\ go[g] \in Goroutine /\ Fits(go[g])
        /\ go[g].req \in {"play", "stop", "update"}
    BY Acting DEF LookupHit, At, Seek, Fits
  <1>2. DataTypes'
    BY DEF LookupHit, DataTypes, StoreType, MembershipType, GroupCallType,
           storeVars, memberVars, callVars, progVars
  <1>3. /\ UNCHANGED <<assigned, assignedCache, silenced, pool, upsets>>
        /\ \A b \in Indices : Engaged(b)' <=> Engaged(b)
    BY DEF LookupHit, storeVars, callVars, progVars, ghosts, Engaged, Streams
  <1>4. ASSUME NEW r \in Goroutine, Becoming(g, r), Owned PROVE CacheFollows'
    <2>1. \A h \in Goroutines \ {g} : go'[h] = go[h]  BY <1>4, Turns
    <2> QED  BY <1>1, <1>3, <1>4, <2>1 DEF Owned, CacheFollows
  <1>5. CASE assignedCache \in pool /\ Chosen(g, assignedCache)
    <2>1. PICK r \in Goroutine :
              /\ Fits(r) /\ Becoming(g, r) /\ r.req = go[g].req /\ r.who = assignedCache
              /\ r.at \in {"status", "stop", "update"} /\ (r.at = "status" => r.req = "play")
      BY <1>1, <1>5, Chooses
    <2>2. ASSUME Owned PROVE Seeks(g, r)
      <3>1. go[g].req = "play" \/ silenced = g => assignedCache = assigned
        <4> SUFFICES ASSUME go[g].req = "play" \/ silenced = g
                     PROVE  \A h \in Goroutines : go[h].at \notin {"evicted", "saved"}
          BY <1>5, <2>2, Numbers DEF Owned, CacheFollows, DataTypes
        <4>1. ASSUME NEW h \in Goroutines, go[h].at \in {"evicted", "saved"} PROVE FALSE
          <5>1. Streaming(h)  BY <4>1, Acting DEF Fits, Ending, Streaming
          <5>2. h # g  BY <1>1, <4>1
          <5> QED  BY <2>2, <5>1, <5>2, Names DEF Owned, OneStreams, StopIsAlone, Streaming
        <4> QED  BY <4>1
      <3> QED  BY <1>1, <1>3, <2>1, <3>1 DEF Seeks
    <2> QED  BY <1>1, <1>2, <1>3, <1>4, <2>1, <2>2, SeekTurns
  <1>6. CASE Move(g, "assign")
    <2> DEFINE r == [go[g] EXCEPT !.at = "assign"]
    <2>1. Becoming(g, r)  BY <1>6 DEF Becoming, Move
    <2>2. /\ r \in Goroutine /\ r.at = "assign" /\ r.who = go[g].who /\ r.req = go[g].req
          /\ r.tried = go[g].tried
      BY <1>1 DEF Goroutine, Seek
    <2> HIDE DEF r
    <2>3. Fits(r)
      BY <1>1, <2>2 DEF Fits, Other, Seek, Entering, Calling, Ending, NotChosen
    <2>4. Seeks(g, r)  BY <1>1, <1>3, <2>2 DEF Seeks, Seek
    <2> QED  BY <1>1, <1>2, <1>3, <1>4, <2>1, <2>2, <2>3, <2>4, SeekTurns
  <1> QED  BY <1>5, <1>6 DEF LookupHit

\* A goroutine that seeks and has nothing to say about who is assigned.
LEMMA SeekMoves ==
    ASSUME DataTypes, Points, SaneInv, NEW g \in Goroutines, go[g].at \in {"lookup", "fill"},
           NEW x \in {"assign", "fill"}, NEW d \in Indices \cup {Nobody},
           Becoming(g, [go[g] EXCEPT !.at = x, !.doc = d]),
           UNCHANGED <<assigned, silenced, pool>>, upsets \subseteq upsets',
           \A b \in Indices : Engaged(b)' <=> Engaged(b),
           assignedCache' = assignedCache \/ (assignedCache' = go[g].doc /\ go[g].at = "fill"),
           x = "fill" => d = assigned
    PROVE  Kept
  <1> DEFINE r == [go[g] EXCEPT !.at = x, !.doc = d]
  <1>1. go[g].at \in Seek /\ go[g] \in Goroutine /\ Fits(go[g])  BY Acting DEF Seek
  <1>2. Becoming(g, r)  OBVIOUS
  <1>3. /\ r \in Goroutine /\ r.at = x /\ r.who = go[g].who /\ r.req = go[g].req
        /\ r.tried = go[g].tried /\ r.doc = d
    <2>1. r \in Goroutine  BY <1>1, ZenonT(60) DEF Goroutine, Seek
    <2>2. r.at = x /\ r.doc = d  BY <1>1, ZenonT(60) DEF Goroutine
    <2>3. r.who = go[g].who /\ r.req = go[g].req /\ r.tried = go[g].tried
      BY <1>1, ZenonT(60) DEF Goroutine
    <2> QED  BY <2>1, <2>2, <2>3
  <1> HIDE DEF r
  <1>4. Fits(r)
    BY <1>1, <1>3 DEF Fits, Other, Seek, Entering, Calling, Ending, NotChosen
  <1>5. Seeks(g, r)  BY <1>1, <1>3 DEF Seeks, Seek
  <1>6. ASSUME Owned PROVE CacheFollows'
    <2>1. \A h \in Goroutines \ {g} : go'[h] = go[h]  BY <1>2, Turns
    <2>2. CASE assignedCache' = assignedCache
      BY <2>1, <2>2, <1>6 DEF Owned, CacheFollows
    <2>3. CASE assignedCache' = go[g].doc /\ go[g].at = "fill"
      BY <1>6, <2>3 DEF Owned, CarriesTruth, CacheFollows
    <2> QED  BY <2>2, <2>3
  <1> QED  BY <1>1, <1>2, <1>3, <1>4, <1>5, <1>6, SeekTurns

LEMMA LookupReadKeeps ==
    ASSUME DataTypes, Points, SaneInv, NEW g \in Goroutines, LookupRead(g)
    PROVE  DataTypes' /\ Kept
  <1>1. /\ go[g].at = "lookup" /\ go[g] \in Goroutine /\ Fits(go[g])
        /\ go[g].doc \in Indices \cup {Nobody} /\ assigned \in Indices \cup {Nobody}
    BY Acting DEF LookupRead, At, Goroutine, DataTypes, StoreType
  <1>2. DataTypes'
    BY DEF LookupRead, DataTypes, StoreType, MembershipType, GroupCallType,
           storeVars, memberVars, callVars, progVars
  <1>3. /\ UNCHANGED <<assigned, assignedCache, silenced, pool>> /\ upsets \subseteq upsets'
        /\ \A b \in Indices : Engaged(b)' <=> Engaged(b)
    BY DEF LookupRead, Upset, storeVars, callVars, progVars, Engaged, Streams
  <1>4. CASE Move(g, "assign")
    <2>1. Becoming(g, [go[g] EXCEPT !.at = "assign", !.doc = go[g].doc])
      <3>1. [go[g] EXCEPT !.at = "assign", !.doc = go[g].doc] = [go[g] EXCEPT !.at = "assign"]
        BY <1>1 DEF Goroutine
      <3> QED  BY <1>4, <3>1 DEF Becoming, Move
    <2> QED  BY <1>1, <1>2, <1>3, <2>1, SeekMoves
  <1>5. CASE go' = [go EXCEPT ![g].at = "fill", ![g].doc = assigned]
    <2>1. Becoming(g, [go[g] EXCEPT !.at = "fill", !.doc = assigned])
      BY <1>5 DEF Becoming
    <2> QED  BY <1>1, <1>2, <1>3, <2>1, SeekMoves
  <1> QED  BY <1>4, <1>5 DEF LookupRead

\* A choice that is put into the cache, or finds it right.
LEMMA ChoiceKeeps ==
    ASSUME DataTypes, Points, SaneInv, NEW g \in Goroutines, go[g].at \in Seek,
           NEW i \in pool, Chosen(g, i),
           UNCHANGED <<assigned, silenced, pool>>, upsets \subseteq upsets',
           \A b \in Indices : Engaged(b)' <=> Engaged(b),
           Sane' /\ Owned => i = assigned /\ assignedCache' \in {assignedCache, assigned}
    PROVE  Kept
  <1>1. PICK r \in Goroutine :
              /\ Fits(r) /\ Becoming(g, r) /\ r.req = go[g].req /\ r.who = i
              /\ r.at \in {"status", "stop", "update"} /\ (r.at = "status" => r.req = "play")
    BY Chooses
  <1>2. ASSUME Sane', Owned PROVE Seeks(g, r)
    BY <1>1, <1>2 DEF Seeks
  <1>3. ASSUME Sane', Owned PROVE CacheFollows'
    <2>1. \A h \in Goroutines \ {g} : go'[h] = go[h]  BY <1>1, Turns
    <2>2. assignedCache' \in {assignedCache, assigned}  BY <1>3
    <2> QED  BY <1>3, <2>1, <2>2 DEF Owned, CacheFollows, Seek
  <1> QED  BY <1>1, <1>2, <1>3, SeekTurns

LEMMA FillKeeps ==
    ASSUME DataTypes, Points, SaneInv, NEW g \in Goroutines, Fill(g)
    PROVE  DataTypes' /\ Kept
  <1>1. /\ go[g].at = "fill" /\ go[g].at \in Seek /\ go[g] \in Goroutine
        /\ go[g].doc \in Indices \cup {Nobody}
    BY Acting DEF Fill, At, Seek, Goroutine
  <1>2. DataTypes'
    BY <1>1 DEF Fill, CacheAssistant, DataTypes, StoreType, MembershipType, GroupCallType,
           memberVars, callVars, progVars
  <1>3. /\ UNCHANGED <<assigned, silenced, pool, upsets>> /\ assignedCache' = go[g].doc
        /\ \A b \in Indices : Engaged(b)' <=> Engaged(b)
    BY DEF Fill, CacheAssistant, callVars, progVars, ghosts, Engaged, Streams
  <1>4. CASE go[g].doc \in pool /\ Chosen(g, go[g].doc)
    <2>1. Owned => go[g].doc = assigned  BY <1>1 DEF Owned, CarriesTruth
    <2> QED  BY <1>1, <1>2, <1>3, <1>4, <2>1, ChoiceKeeps
  <1>5. CASE Move(g, "assign")
    <2>1. Becoming(g, [go[g] EXCEPT !.at = "assign", !.doc = go[g].doc])
      <3>1. [go[g] EXCEPT !.at = "assign", !.doc = go[g].doc] = [go[g] EXCEPT !.at = "assign"]
        BY <1>1 DEF Goroutine
      <3> QED  BY <1>5, <3>1 DEF Becoming, Move
    <2> QED  BY <1>1, <1>2, <1>3, <2>1, SeekMoves
  <1> QED  BY <1>4, <1>5 DEF Fill

LEMMA AssignKeeps ==
    ASSUME DataTypes, Points, SaneInv, NEW g \in Goroutines, Assign(g)
    PROVE  DataTypes' /\ Kept
  <1>1. /\ go[g].at = "assign" /\ go[g].at \in Seek /\ go[g] \in Goroutine /\ Fits(go[g])
        /\ assigned \in Indices \cup {Nobody} /\ pool \subseteq Indices
    BY Acting DEF Assign, At, Seek, DataTypes, StoreType
  <1>2. DataTypes'
    BY <1>1 DEF Assign, AssignAssistant, SetAssistant, DataTypes, StoreType, MembershipType,
           GroupCallType, storeVars, memberVars, callVars, progVars
  <1>3. /\ UNCHANGED <<assignedCache, silenced, pool>> /\ upsets \subseteq upsets'
        /\ \A b \in Indices : Engaged(b)' <=> Engaged(b)
    BY DEF Assign, AssignAssistant, SetAssistant, Upset, Clash, storeVars, callVars, progVars,
           Engaged, Streams
  <1>4. PICK i \in pool :
        \/ /\ AssignAssistant(i) /\ Clash(g)
           /\ go' = [go EXCEPT ![g].at = "assigned", ![g].who = i]
        \/ /\ UNCHANGED storeVars
           /\ IF assigned # i THEN Upset("outvoted") ELSE UNCHANGED upsets
           /\ Chosen(g, i)
        \/ /\ UNCHANGED storeVars
           /\ IF assigned # i THEN Upset("outvoted") ELSE UNCHANGED upsets
           /\ go' = [go EXCEPT ![g].at = "refill", ![g].who = i, ![g].doc = assigned]
        \/ UNCHANGED storeVars /\ Upset("database") /\ Chosen(g, i)
    BY DEF Assign
  <1>5. CASE /\ AssignAssistant(i) /\ Clash(g)
             /\ go' = [go EXCEPT ![g].at = "assigned", ![g].who = i]
    <2> DEFINE r == [go[g] EXCEPT !.at = "assigned", !.who = i]
    <2>1. Becoming(g, r)  BY <1>5 DEF Becoming
    <2>2. /\ r \in Goroutine /\ r.at = "assigned" /\ r.who = i /\ r.req = go[g].req
          /\ r.tried = go[g].tried
      BY <1>1 DEF Goroutine, Seek
    <2> HIDE DEF r
    <2>3. Fits(r)
      BY <1>1, <2>2 DEF Fits, Other, Seek, Entering, Calling, Ending, NotChosen
    <2>4. assigned = Nobody /\ assigned' = i
      BY <1>5 DEF AssignAssistant, Assignable, SetAssistant
    <2>5. Sane' => \A h \in Goroutines \ {g} : go[h].at \notin BeforeCache
      BY <1>5, Upsetting DEF Clash
    <2>6. Sane' => Seeks(g, r)
      BY <1>1, <2>2, <2>4, <2>5 DEF Seeks, Seek
    <2>7. ASSUME Sane', Owned PROVE CacheFollows'
      BY <1>1, <1>3, <2>4, <2>5, <2>7 DEF Owned, CacheFollows, BeforeCache
    <2> QED  BY <1>1, <1>2, <1>3, <2>1, <2>2, <2>3, <2>6, <2>7, SeekTurns
  <1>6. CASE /\ UNCHANGED storeVars
             /\ IF assigned # i THEN Upset("outvoted") ELSE UNCHANGED upsets
             /\ Chosen(g, i)
    <2>1. Sane' => i = assigned  BY <1>6, Upsetting
    <2>2. assigned' = assigned /\ assignedCache' \in {assignedCache, assigned}
      BY <1>6 DEF storeVars
    <2> QED  BY <1>1, <1>2, <1>3, <1>6, <2>1, <2>2, ChoiceKeeps
  <1>7. CASE /\ UNCHANGED storeVars
             /\ IF assigned # i THEN Upset("outvoted") ELSE UNCHANGED upsets
             /\ go' = [go EXCEPT ![g].at = "refill", ![g].who = i, ![g].doc = assigned]
    <2> DEFINE r == [go[g] EXCEPT !.at = "refill", !.who = i, !.doc = assigned]
    <2>1. Becoming(g, r)  BY <1>7 DEF Becoming
    <2>2. /\ r \in Goroutine /\ r.at = "refill" /\ r.who = i /\ r.req = go[g].req
          /\ r.tried = go[g].tried /\ r.doc = assigned
      BY <1>1 DEF Goroutine, Seek
    <2> HIDE DEF r
    <2>3. Fits(r)
      BY <1>1, <2>2 DEF Fits, Other, Seek, Entering, Calling, Ending, NotChosen
    <2>4. assigned' = assigned  BY <1>7 DEF storeVars
    <2>5. Sane' => i = assigned  BY <1>7, Upsetting
    <2>6. Sane' => Seeks(g, r)
      BY <1>1, <2>2, <2>4, <2>5 DEF Seeks, Seek
    <2>7. ASSUME Owned PROVE CacheFollows'
      <3>1. \A h \in Goroutines \ {g} : go'[h] = go[h]  BY <2>1, Turns
      <3> QED  BY <1>1, <1>3, <2>4, <2>7, <3>1 DEF Owned, CacheFollows
    <2> QED  BY <1>1, <1>2, <1>3, <2>1, <2>2, <2>3, <2>6, <2>7, SeekTurns
  <1>8. CASE UNCHANGED storeVars /\ Upset("database") /\ Chosen(g, i)
    <2>1. ~Sane'  BY <1>8, Upsetting
    <2>2. assigned' = assigned  BY <1>8 DEF storeVars
    <2> QED  BY <1>1, <1>2, <1>3, <1>8, <2>1, <2>2, ChoiceKeeps
  <1> QED  BY <1>4, <1>5, <1>6, <1>7, <1>8

LEMMA AssignedKeeps ==
    ASSUME DataTypes, Points, SaneInv, NEW g \in Goroutines, Assigned(g)
    PROVE  DataTypes' /\ Kept
  <1>1. /\ go[g].at = "assigned" /\ go[g].at \in Seek /\ go[g].who \in pool /\ go[g].who \in Indices
    BY Places DEF Assigned, At, Seek, NotChosen
  <1>2. DataTypes'
    BY <1>1 DEF Assigned, CacheAssistant, DataTypes, StoreType, MembershipType, GroupCallType,
           memberVars, callVars, progVars
  <1>3. /\ UNCHANGED <<assigned, silenced, pool, upsets>> /\ assignedCache' = go[g].who
        /\ \A b \in Indices : Engaged(b)' <=> Engaged(b)
        /\ Chosen(g, go[g].who)
    BY DEF Assigned, CacheAssistant, callVars, progVars, ghosts, Engaged, Streams
  <1>4. Owned => go[g].who = assigned  BY <1>1 DEF Owned, CarriesTruth
  <1> QED  BY <1>1, <1>2, <1>3, <1>4, ChoiceKeeps

LEMMA RefillKeeps ==
    ASSUME DataTypes, Points, SaneInv, NEW g \in Goroutines, Refill(g)
    PROVE  DataTypes' /\ Kept
  <1>1. /\ go[g].at = "refill" /\ go[g].at \in Seek /\ go[g].who \in pool
        /\ go[g].doc \in Indices \cup {Nobody}
    BY Places, Acting DEF Refill, At, Seek, NotChosen, Goroutine
  <1>2. DataTypes'
    BY <1>1 DEF Refill, CacheAssistant, DataTypes, StoreType, MembershipType, GroupCallType,
           memberVars, callVars, progVars
  <1>3. /\ UNCHANGED <<assigned, silenced, pool, upsets>> /\ assignedCache' = go[g].doc
        /\ \A b \in Indices : Engaged(b)' <=> Engaged(b)
        /\ Chosen(g, go[g].who)
    BY DEF Refill, CacheAssistant, callVars, progVars, ghosts, Engaged, Streams
  <1>4. Owned => go[g].who = assigned /\ go[g].doc = assigned
    BY <1>1 DEF Owned, CarriesTruth
  <1> QED  BY <1>1, <1>2, <1>3, <1>4, ChoiceKeeps

-----------------------------------------------------------------------------
(* Requests that start. *)

Begins(g, r) ==
    /\ r.at \in {"lookup", "create", "clear"}
    /\ r.req \in {"play", "reconnect"} =>
          silenced' = "no" /\ \A h \in Goroutines \ {g} : ~Streaming(h)
    /\ r.req = "reconnect" => r.who = assigned
    /\ r.at = "create" => r.req = "reconnect"
    /\ \/ silenced' \in {silenced, "no"}
       \/ silenced' = g /\ r.req = "stop" /\ \A h \in Goroutines : ~Streaming(h)

LEMMA BeginKeeps ==
    ASSUME Points, SaneInv, NEW g \in Goroutines, go[g].at = "idle", NEW r \in Goroutine,
           Fits(r),
           Becoming(g, r), UNCHANGED <<assigned, assignedCache, pool>>,
           upsets \subseteq upsets',
           \A b \in Indices : Engaged(b)' <=> Engaged(b),
           r.at # "status",
           Sane' /\ Owned => Begins(g, r)
    PROVE  Kept
  <1>1. SaneInv'
    <2> SUFFICES ASSUME Sane' PROVE Owned'
      BY DEF SaneInv
    <2>1. Owned  BY StillSane DEF SaneInv
    <2>2. Begins(g, r)  BY <2>1
    <2>3. go'[g] = r /\ \A h \in Goroutines \ {g} : go'[h] = go[h]  BY Turns
    <2>4. go[g].req = "none" /\ ~Streaming(g)  BY Acting DEF Fits, Streaming
    <2>5. OneStreams'
      <3>1. CASE r.req \in {"play", "reconnect"}
        BY <2>2, <2>3, <3>1 DEF OneStreams, Streaming, Begins
      <3>2. CASE r.req \notin {"play", "reconnect"}
        BY <2>1, <2>3, <3>2 DEF Owned, OneStreams, Streaming
      <3> QED  BY <3>1, <3>2
    <2>6. CacheFollows'  BY <2>1, <2>3 DEF Owned, CacheFollows
    <2>7. ASSUME NEW h \in Goroutines PROVE CarriesTruth(h)'
      BY <2>1, <2>2, <2>3 DEF Owned, CarriesTruth, Begins
    <2>8. ASSUME NEW h \in Goroutines PROVE AttemptIsAlone(h)'
      <3>1. CASE h = g
        BY <2>2, <2>3, <3>1 DEF AttemptIsAlone, Begins, Entering, Calling
      <3>2. CASE h # g
        BY <2>1, <2>3, <3>2 DEF Owned, AttemptIsAlone, Streamer
      <3> QED  BY <3>1, <3>2
    <2>9. EngagedIsOwned'
      BY <2>1, <2>3 DEF Owned, EngagedIsOwned, Streamer
    <2>10. StopIsAlone'
      <3>1. StopIsAlone  BY <2>1 DEF Owned
      <3>2. silenced # g  BY <2>4, <3>1 DEF StopIsAlone
      <3>3. CASE silenced' = "no"
        BY <3>3, Names DEF StopIsAlone
      <3>4. CASE silenced' = silenced /\ r.req \notin {"play", "reconnect"}
        <4>1. silenced # "no" => \A h \in Goroutines : ~Streaming(h)'
          BY <2>3, <3>1, <3>4 DEF StopIsAlone, Streaming
        <4>2. \A h \in Goroutines : silenced = h =>
                 go'[h].req = "stop" /\ (go'[h].at = "stop" => go'[h].who = assigned)
          BY <2>3, <3>1, <3>2 DEF StopIsAlone
        <4> QED  BY <3>1, <3>4, <4>1, <4>2 DEF StopIsAlone
      <3>5. CASE silenced' = g /\ r.req = "stop" /\ \A h \in Goroutines : ~Streaming(h)
        <4>1. r.at # "stop"  BY <2>2 DEF Begins
        <4>2. g \notin {"yes", "no"}  BY Names
        <4> QED  BY <2>3, <3>5, <4>1, <4>2 DEF StopIsAlone, Streaming
      <3> QED  BY <2>2, <3>3, <3>4, <3>5 DEF Begins
    <2> QED  BY <2>5, <2>6, <2>7, <2>8, <2>9, <2>10 DEF Owned
  <1> QED  BY <1>1, TurnKeeps

LEMMA StartPlayKeeps ==
    ASSUME DataTypes, Points, SaneInv, NEW g \in Goroutines, StartPlay(g)
    PROVE  DataTypes' /\ Kept
  <1> DEFINE r == [Idle EXCEPT !.at = "lookup", !.req = "play"]
  <1>1. go[g].at = "idle" /\ Becoming(g, r)
    BY DEF StartPlay, Start, At, Becoming
  <1>2. r \in Goroutine /\ r.at = "lookup" /\ r.req = "play" /\ r.who = Nobody /\ r.tried = {}
    BY IdleFits DEF Idle, Goroutine, Seek
  <1> HIDE DEF r
  <1>3. Fits(r)
    BY <1>2 DEF Fits, Other, Seek, Entering, Calling, Ending, NotChosen
  <1>4. DataTypes'
    BY DEF StartPlay, DataTypes, StoreType, MembershipType, GroupCallType,
           storeVars, memberVars, callVars
  <1>5. /\ UNCHANGED <<assigned, assignedCache, pool>> /\ upsets \subseteq upsets'
        /\ \A b \in Indices : Engaged(b)' <=> Engaged(b)
        /\ silenced' = "no"
    BY DEF StartPlay, Plays, Upset, storeVars, callVars, Engaged, Streams
  <1>6. Sane' => \A h \in Goroutines \ {g} : ~Streaming(h)
    BY Upsetting DEF StartPlay, Plays
  <1>7. Sane' => Begins(g, r)  BY <1>2, <1>5, <1>6 DEF Begins
  <1> QED  BY <1>1, <1>2, <1>3, <1>4, <1>5, <1>7, BeginKeeps

LEMMA StartStopKeeps ==
    ASSUME DataTypes, Points, SaneInv, NEW g \in Goroutines, StartStop(g)
    PROVE  DataTypes' /\ Kept
  <1> DEFINE r == [Idle EXCEPT !.at = "lookup", !.req = "stop"]
  <1>1. go[g].at = "idle" /\ Becoming(g, r)
    BY DEF StartStop, Start, At, Becoming
  <1>2. r \in Goroutine /\ r.at = "lookup" /\ r.req = "stop" /\ r.who = Nobody /\ r.tried = {}
    BY IdleFits DEF Idle, Goroutine, Seek
  <1> HIDE DEF r
  <1>3. Fits(r)
    BY <1>2 DEF Fits, Other, Seek, Entering, Calling, Ending, NotChosen
  <1>4. DataTypes'
    BY DEF StartStop, DataTypes, StoreType, MembershipType, GroupCallType,
           storeVars, memberVars, callVars, progVars
  <1>5. /\ UNCHANGED <<assigned, assignedCache, pool>> /\ upsets \subseteq upsets'
        /\ \A b \in Indices : Engaged(b)' <=> Engaged(b)
        /\ silenced' = IF \E h \in Goroutines : Streaming(h) THEN "no" ELSE g
    BY DEF StartStop, storeVars, callVars, progVars, Engaged, Streams
  <1>6. Begins(g, r)  BY <1>2, <1>5 DEF Begins
  <1> QED  BY <1>1, <1>2, <1>3, <1>4, <1>5, <1>6, BeginKeeps

LEMMA StartUpdateKeeps ==
    ASSUME DataTypes, Points, SaneInv, NEW g \in Goroutines, StartUpdate(g)
    PROVE  DataTypes' /\ Kept
  <1>1. PICK u \in memberUpdates :
          /\ Start(g, [Idle EXCEPT !.at = "lookup", !.req = "update", !.update = u])
          /\ memberUpdates' = memberUpdates \ {u}
          /\ UNCHANGED <<storeVars, member, statusCache, inviteCache, callVars, progVars,
                         boundVars, ghosts>>
    BY DEF StartUpdate
  <1> DEFINE r == [Idle EXCEPT !.at = "lookup", !.req = "update", !.update = u]
  <1>2. go[g].at = "idle" /\ Becoming(g, r)
    BY <1>1 DEF Start, At, Becoming
  <1>3. u \in [of : Accounts, old : Statuses, new : Statuses]
    BY DEF DataTypes, MembershipType
  <1>4. r \in Goroutine /\ r.at = "lookup" /\ r.req = "update" /\ r.who = Nobody /\ r.tried = {}
    BY <1>3, IdleFits DEF Idle, Goroutine, Seek
  <1> HIDE DEF r
  <1>5. Fits(r)
    BY <1>4 DEF Fits, Other, Seek, Entering, Calling, Ending, NotChosen
  <1>6. DataTypes'
    BY <1>1 DEF DataTypes, StoreType, MembershipType, GroupCallType,
           storeVars, callVars, progVars
  <1>7. /\ UNCHANGED <<assigned, assignedCache, pool, silenced>> /\ upsets \subseteq upsets'
        /\ \A b \in Indices : Engaged(b)' <=> Engaged(b)
    BY <1>1 DEF storeVars, callVars, progVars, ghosts, Engaged, Streams
  <1>8. Begins(g, r)  BY <1>4, <1>7 DEF Begins
  <1> QED  BY <1>2, <1>4, <1>5, <1>6, <1>7, <1>8, BeginKeeps

LEMMA StartReconnectKeeps ==
    ASSUME DataTypes, Points, SaneInv, NEW g \in Goroutines, StartReconnect(g)
    PROVE  DataTypes' /\ Kept
  <1>1. PICK a \in pool :
          /\ Streams(a)
          /\ Start(g, [Idle EXCEPT !.at = "create", !.req = "reconnect", !.who = a])
          /\ Plays(g)
          /\ UNCHANGED <<storeVars, memberVars, callVars, progVars, requests>>
    BY DEF StartReconnect
  <1> DEFINE r == [Idle EXCEPT !.at = "create", !.req = "reconnect", !.who = a]
  <1>2. go[g].at = "idle" /\ Becoming(g, r) /\ a \in Indices
    BY <1>1 DEF Start, At, Becoming, DataTypes
  <1>3. r \in Goroutine /\ r.at = "create" /\ r.req = "reconnect" /\ r.who = a /\ r.tried = {}
    BY <1>2, IdleFits DEF Idle, Goroutine, Calling
  <1> HIDE DEF r
  <1>4. Fits(r)
    BY <1>3 DEF Fits, Other, Seek, Entering, Calling, Ending, NotChosen
  <1>5. DataTypes'
    BY <1>1 DEF DataTypes, StoreType, MembershipType, GroupCallType,
           storeVars, memberVars, callVars, progVars
  <1>6. /\ UNCHANGED <<assigned, assignedCache, pool>> /\ upsets \subseteq upsets'
        /\ \A b \in Indices : Engaged(b)' <=> Engaged(b)
        /\ silenced' = "no"
    BY <1>1 DEF Plays, Upset, storeVars, callVars, progVars, Engaged, Streams
  <1>7. Sane' => \A h \in Goroutines \ {g} : ~Streaming(h)
    BY <1>1, Upsetting DEF Plays
  <1>8. ASSUME Sane', Owned PROVE Begins(g, r)
    <2>1. a = assigned
      <3>1. Engaged(a)  BY <1>1 DEF Engaged
      <3>2. \A h \in Goroutines : ~Streamer(h)
        BY <1>2, <1>7, <1>8 DEF Streamer, Streaming
      <3> QED  BY <1>2, <1>8, <3>1, <3>2 DEF Owned, EngagedIsOwned
    <2> QED  BY <1>3, <1>6, <1>7, <1>8, <2>1 DEF Begins
  <1> QED  BY <1>2, <1>3, <1>4, <1>5, <1>6, <1>8, BeginKeeps

LEMMA StartClearKeeps ==
    ASSUME DataTypes, Points, SaneInv, NEW g \in Goroutines, StartClear(g)
    PROVE  DataTypes' /\ Kept
  <1> DEFINE r == [Idle EXCEPT !.at = "clear", !.req = "clear"]
  <1>1. go[g].at = "idle" /\ Becoming(g, r)
    BY DEF StartClear, Start, At, Becoming
  <1>2. r \in Goroutine /\ r.at = "clear" /\ r.req = "clear" /\ r.who = Nobody /\ r.tried = {}
    BY IdleFits DEF Idle, Goroutine, Other
  <1> HIDE DEF r
  <1>3. Fits(r)
    BY <1>2 DEF Fits, Other, Seek, Entering, Calling, Ending, NotChosen
  <1>4. DataTypes'
    BY DEF StartClear, DataTypes, StoreType, MembershipType, GroupCallType,
           storeVars, memberVars, callVars, progVars
  <1>5. /\ UNCHANGED <<assigned, assignedCache, pool, silenced>> /\ upsets \subseteq upsets'
        /\ \A b \in Indices : Engaged(b)' <=> Engaged(b)
    BY DEF StartClear, storeVars, callVars, progVars, ghosts, Engaged, Streams
  <1>6. Begins(g, r)  BY <1>2, <1>5 DEF Begins
  <1> QED  BY <1>1, <1>2, <1>3, <1>4, <1>5, <1>6, BeginKeeps

-----------------------------------------------------------------------------
(* Stop, member updates, /clearass. *)

Finishes(g, r) ==
    /\ r.at = "idle" \/ (r.at = "lookup" /\ r.req = "stop")
    /\ assignedCache' \in {assignedCache, Nobody}
    /\ \/ silenced' = silenced /\ silenced # g
       \/ silenced = g /\ silenced' = "yes" /\ \A b \in Indices : ~Engaged(b)'

LEMMA FinishKeeps ==
    ASSUME Points, SaneInv, NEW g \in Goroutines, go[g].at \in {"stop", "update", "cleared"},
           NEW r \in Goroutine, Fits(r), Becoming(g, r), UNCHANGED <<assigned, pool>>,
           upsets \subseteq upsets', \A b \in Indices : Engaged(b)' => Engaged(b),
           r.at \in {"idle", "lookup"},
           Sane' /\ Owned => Finishes(g, r)
    PROVE  Kept
  <1>1. SaneInv'
    <2> SUFFICES ASSUME Sane' PROVE Owned'
      BY DEF SaneInv
    <2>1. Owned  BY StillSane DEF SaneInv
    <2>2. Finishes(g, r)  BY <2>1
    <2>3. go'[g] = r /\ \A h \in Goroutines \ {g} : go'[h] = go[h]  BY Turns
    <2>4. r.req \notin {"play", "reconnect"}
      BY <2>2 DEF Finishes, Fits
    <2>5. \A h \in Goroutines : Streaming(h)' => Streaming(h)
      BY <2>3, <2>4 DEF Streaming
    <2>6. OneStreams'  BY <2>1, <2>5 DEF Owned, OneStreams
    <2>7. CacheFollows'  BY <2>1, <2>2, <2>3 DEF Owned, CacheFollows, Finishes
    <2>8. ASSUME NEW h \in Goroutines PROVE CarriesTruth(h)'
      BY <2>1, <2>2, <2>3 DEF Owned, CarriesTruth, Finishes
    <2>9. ASSUME NEW h \in Goroutines PROVE AttemptIsAlone(h)'
      <3>1. CASE h = g  BY <2>3, <2>4, <3>1 DEF AttemptIsAlone
      <3>2. CASE h # g
        BY <2>1, <2>3, <3>2 DEF Owned, AttemptIsAlone, Streamer
      <3> QED  BY <3>1, <3>2
    <2>10. EngagedIsOwned'
      BY <2>1, <2>3 DEF Owned, EngagedIsOwned, Streamer
    <2>11. StopIsAlone'
      <3>1. StopIsAlone  BY <2>1 DEF Owned
      <3>2. CASE silenced' = silenced /\ silenced # g
        BY <2>3, <2>5, <3>1, <3>2 DEF StopIsAlone
      <3>3. CASE silenced = g /\ silenced' = "yes" /\ \A b \in Indices : ~Engaged(b)'
        BY <2>5, <3>1, <3>3, Names DEF StopIsAlone
      <3> QED  BY <2>2, <3>2, <3>3 DEF Finishes
    <2> QED  BY <2>6, <2>7, <2>8, <2>9, <2>10, <2>11 DEF Owned
  <1> QED  BY <1>1, TurnKeeps

LEMMA StopKeeps ==
    ASSUME DataTypes, Points, SaneInv, NEW g \in Goroutines, Stop(g)
    PROVE  DataTypes' /\ Kept
  <1> DEFINE a == go[g].who
  <1>1. go[g].at = "stop" /\ a \in Indices
    BY Places DEF Stop, At, NotChosen
  <1>2. /\ pending' = [pending EXCEPT ![a] = FALSE] /\ Stopped(a)
        /\ UNCHANGED <<videoChat, groupCall, groupUpdates, mutedByAdmin, waiting>>
    BY DEF Stop, StopCall
  <1>3. pending' \in [Indices -> BOOLEAN] /\ \A b \in Indices : pending'[b] => pending[b] /\ b # a
    BY <1>1, <1>2 DEF DataTypes, GroupCallType
  <1>4. /\ binding' \in [Indices -> {"none", "created", "connecting", "connected"}]
        /\ mode' \in [Indices -> {"rtc", "stream"}]
        /\ signals' \in [Indices -> SUBSET {"ok", "failed"}]
        /\ \A b \in Indices : Engaged(b)' => Engaged(b)
    BY <1>1, <1>2, <1>3, Stops
  <1>5. DataTypes'
    BY <1>2, <1>3, <1>4 DEF Stop, DataTypes, StoreType, MembershipType, GroupCallType,
           storeVars, memberVars
  <1>6. \A b \in Indices : b = a => ~Engaged(b)'
    <2>1. binding' = [binding EXCEPT ![a] = "none"]  BY <1>2 DEF Stopped
    <2>2. binding'[a] = "none"  BY <1>1, <2>1 DEF DataTypes, GroupCallType
    <2>3. ~pending'[a]  BY <1>1, <1>3
    <2> QED  BY <1>1, <2>2, <2>3 DEF Engaged, Streams
  <1>7. /\ UNCHANGED <<assigned, assignedCache, pool, upsets>>
        /\ Becoming(g, Idle)
        /\ silenced' = IF silenced = g THEN "yes" ELSE silenced
    BY DEF Stop, Return, Becoming, storeVars
  <1>8. Idle \in Goroutine /\ Fits(Idle) /\ Idle.at = "idle"  BY IdleFits DEF Idle
  <1>9. ASSUME Owned PROVE Finishes(g, Idle)
    <2>1. CASE silenced # g
      <3>1. silenced' = silenced /\ assignedCache' \in {assignedCache, Nobody}
        BY <1>7, <2>1
      <3> QED  BY <1>8, <2>1, <3>1 DEF Finishes
    <2>2. CASE silenced = g
      <3>1. a = assigned /\ \A h \in Goroutines : ~Streaming(h)
        BY <1>1, <1>9, <2>2, Names DEF Owned, StopIsAlone
      <3>2. \A b \in Indices : Engaged(b) => b = a
        BY <1>9, <3>1 DEF Owned, EngagedIsOwned, Streamer, Streaming
      <3>3. \A b \in Indices : ~Engaged(b)'  BY <1>4, <1>6, <3>2
      <3>4. silenced' = "yes" /\ assignedCache' \in {assignedCache, Nobody}
        BY <1>7, <2>2
      <3> QED  BY <1>8, <2>2, <3>3, <3>4 DEF Finishes
    <2> QED  BY <2>1, <2>2
  <1> QED  BY <1>1, <1>4, <1>5, <1>7, <1>8, <1>9, FinishKeeps

LEMMA UpdateKeeps ==
    ASSUME DataTypes, Points, SaneInv, NEW g \in Goroutines, Update(g)
    PROVE  DataTypes' /\ Kept
  <1> DEFINE u == go[g].update
  <1>1. /\ go[g].at = "update" /\ go[g].req = "update"
        /\ u \in [of : Accounts, old : Statuses, new : Statuses]
    BY Acting DEF Update, At, Fits, Goroutine
  <1>2. /\ UNCHANGED <<assigned, assignedCache, pool, upsets, silenced>>
        /\ \A b \in Indices : Engaged(b)' <=> Engaged(b)
    BY DEF Update, storeVars, callVars, progVars, ghosts, Engaged, Streams
  <1>3. Stored(u) \in Statuses \cup {"none"}
    BY <1>1 DEF Stored, Statuses, DataTypes, MembershipType
  <1>4. /\ statusCache' \in {statusCache, [statusCache EXCEPT ![u.of] = Stored(u)]}
        /\ inviteCache' \in {inviteCache, "good"}
        /\ UNCHANGED <<member, memberUpdates>>
        /\ active' \in BOOLEAN
    BY DEF Update, UpdateMembership, UpdateInviteLink, memberVars, progVars, DataTypes
  <1>5. MembershipType(Accounts, Indices)'
    BY <1>1, <1>3, <1>4 DEF DataTypes, MembershipType
  <1>6. DataTypes'
    BY <1>4, <1>5 DEF Update, DataTypes, StoreType, GroupCallType, storeVars, callVars,
                      progVars
  <1> DEFINE s == [Idle EXCEPT !.at = "lookup", !.req = "stop"]
  <1>7. Becoming(g, Idle) \/ Becoming(g, s)
    BY DEF Update, Return, Becoming
  <1>8. s \in Goroutine /\ s.at = "lookup" /\ s.req = "stop" /\ s.who = Nobody /\ s.tried = {}
    BY IdleFits DEF Idle, Goroutine, Seek
  <1> HIDE DEF s
  <1>9. Fits(s)
    BY <1>8 DEF Fits, Other, Seek, Entering, Calling, Ending, NotChosen
  <1>10. Idle \in Goroutine /\ Fits(Idle) /\ Idle.at = "idle"  BY IdleFits DEF Idle
  <1>11. Owned => silenced # g  BY <1>1 DEF Owned, StopIsAlone
  <1>12. Owned => Finishes(g, Idle) /\ Finishes(g, s)
    BY <1>2, <1>8, <1>10, <1>11 DEF Finishes
  <1> QED  BY <1>1, <1>2, <1>6, <1>7, <1>8, <1>9, <1>10, <1>12, FinishKeeps

LEMMA ClearKeeps ==
    ASSUME DataTypes, Points, SaneInv, NEW g \in Goroutines, Clear(g)
    PROVE  DataTypes' /\ Kept
  <1>1. go[g].at = "clear" /\ go[g] \in Goroutine /\ Fits(go[g])
    BY Acting DEF Clear, At
  <1>2. DataTypes'
    BY DEF Clear, RemoveAssistant, SetAssistant, DataTypes, StoreType, MembershipType,
           GroupCallType,
           storeVars, memberVars, callVars, progVars
  <1>3. SaneInv'  BY DEF Clear, SaneInv, Sane, CallUpsets
  <1> DEFINE r == [go[g] EXCEPT !.at = "cleared"]
  <1>4. Becoming(g, r) /\ pool' = pool  BY DEF Clear, Becoming, Move, progVars
  <1>5. /\ r \in Goroutine /\ r.at = "cleared" /\ r.who = go[g].who /\ r.req = go[g].req
        /\ r.tried = go[g].tried
    BY <1>1 DEF Goroutine, Other
  <1> HIDE DEF r
  <1>6. Fits(r)
    BY <1>1, <1>5 DEF Fits, Other, Seek, Entering, Calling, Ending, NotChosen
  <1> QED  BY <1>2, <1>3, <1>4, <1>5, <1>6, TurnKeeps

LEMMA ClearedKeeps ==
    ASSUME DataTypes, Points, SaneInv, NEW g \in Goroutines, Cleared(g)
    PROVE  DataTypes' /\ Kept
  <1>1. go[g].at = "cleared" /\ go[g].req = "clear"
    BY Acting DEF Cleared, At, Fits
  <1>2. DataTypes'
    BY DEF Cleared, UncacheAssistant, CacheAssistant, DataTypes, StoreType, MembershipType,
           GroupCallType, storeVars, memberVars, callVars, progVars
  <1>3. /\ UNCHANGED <<assigned, pool, upsets, silenced>> /\ assignedCache' = Nobody
        /\ \A b \in Indices : Engaged(b)' <=> Engaged(b)
        /\ Becoming(g, Idle)
    BY DEF Cleared, UncacheAssistant, CacheAssistant, Return, Becoming, callVars, progVars,
           ghosts,
           Engaged, Streams
  <1>4. Idle \in Goroutine /\ Fits(Idle) /\ Idle.at = "idle"  BY IdleFits DEF Idle
  <1>5. Owned => silenced # g  BY <1>1 DEF Owned, StopIsAlone
  <1>6. Owned => Finishes(g, Idle)  BY <1>3, <1>4, <1>5 DEF Finishes
  <1> QED  BY <1>1, <1>2, <1>3, <1>4, <1>6, FinishKeeps

-----------------------------------------------------------------------------
(* The environment. *)

LEMMA NobodyMovesKeeps ==
    ASSUME Points, SaneInv, Calm, UNCHANGED go
    PROVE  Kept
  <1>1. NobodyMoves  BY DEF NobodyMoves
  <1>2. SaneInv'  BY <1>1, EnvironmentKeeps
  <1>3. Points'  BY DEF Points, Fits, Calm
  <1> QED  BY <1>2, <1>3 DEF Kept, Advances

LEMMA LeavesAndTimeKeep ==
    ASSUME DataTypes, Points, SaneInv, LeaveAll \/ RemoveBot \/ Revoke
    PROVE  DataTypes' /\ Kept
  <1>1. /\ UNCHANGED <<assigned, assignedCache, silenced, pool, binding, pending, upsets, go>>
    BY DEF LeaveAll, RemoveBot, Revoke, storeVars, callVars, progVars, ghosts
  <1>2. Calm  BY <1>1, CalmSteps
  <1>3. /\ memberUpdates' \subseteq [of : Accounts, old : Statuses, new : Statuses]
        /\ inviteCache' \in {"none", "good", "expired"}
        /\ leaving' \subseteq Indices
        /\ UNCHANGED <<member, statusCache>>
        /\ UNCHANGED <<callVars, active>>
    BY Numbers DEF LeaveAll, RemoveBot, Revoke, UpdateInviteLink, MemberUpdate, Statuses,
                   memberVars,
                   progVars, DataTypes, MembershipType
  <1>4. DataTypes'
    BY <1>1, <1>3 DEF DataTypes, StoreType, MembershipType, GroupCallType, callVars
  <1> QED  BY <1>1, <1>2, <1>4, NobodyMovesKeeps

LEMMA VideoChatKeeps ==
    ASSUME DataTypes, Points, SaneInv, VideoChat
    PROVE  DataTypes' /\ Kept
  <1>1. /\ UNCHANGED <<assigned, assignedCache, silenced, pool, binding, pending, go>>
        /\ upsets \subseteq upsets'
    BY DEF VideoChat, storeVars, progVars
  <1>2. videoChat' \in CallIds  BY Bounds DEF VideoChat, CallIds, NoCall
  <1>3. groupUpdates' \in [Indices -> SUBSET [id : CallIds, over : BOOLEAN]]
    <2> PICK u : u = IF videoChat = NoCall THEN Started(videoChat') ELSE Discarded(videoChat)
      OBVIOUS
    <2>1. u \in [id : CallIds, over : BOOLEAN]
      BY <1>2 DEF Started, Discarded, DataTypes, GroupCallType
    <2>2. groupUpdates' = [a \in Indices |-> groupUpdates[a] \cup (IF InChat(a) THEN {u} ELSE {})]
      BY DEF VideoChat
    <2> QED  BY <2>1, <2>2 DEF DataTypes, GroupCallType
  <1>4. DataTypes'
    BY <1>2, <1>3 DEF VideoChat, DataTypes, StoreType, MembershipType, GroupCallType,
                      storeVars,
                      memberVars, progVars
  <1> QED  BY <1>1, <1>4, CalmSteps, NobodyMovesKeeps

LEMMA ExpireKeeps ==
    ASSUME DataTypes, Points, SaneInv, Expire
    PROVE  DataTypes' /\ Kept
  <1>1. /\ UNCHANGED <<assigned, silenced, pool, binding, pending, upsets, go>>
        /\ assignedCache' \in {assignedCache, Nobody}
    BY DEF Expire, UncacheAssistant, CacheAssistant, storeVars, callVars, progVars, ghosts
  <1>2. DataTypes'
    <2>1. /\ statusCache' \in [Accounts -> Statuses \cup {"none"}]
          /\ inviteCache' \in {"none", "good", "expired"}
      BY Numbers DEF Expire, UpdateMembership, UpdateInviteLink, DataTypes, MembershipType
    <2> QED
      BY <1>1, <2>1 DEF Expire, DataTypes, StoreType, MembershipType, GroupCallType,
                        callVars, progVars
  <1>3. CASE assignedCache' = assignedCache
    BY <1>1, <1>2, <1>3, CalmSteps, NobodyMovesKeeps
  <1>4. CASE assignedCache' = Nobody
    <2>1. Points'  BY <1>1 DEF Points, Fits
    <2>2. SaneInv'
      <3> SUFFICES ASSUME Sane' PROVE Owned'
        BY DEF SaneInv
      <3>1. Owned  BY <1>1 DEF Sane, CallUpsets, SaneInv
      <3>2. \A b \in Indices : Engaged(b)' <=> Engaged(b)  BY <1>1 DEF Engaged, Streams
      <3>3. OneStreams'  BY <1>1, <3>1 DEF Owned, OneStreams, Streaming
      <3>4. CacheFollows'  BY <1>4 DEF CacheFollows
      <3>5. ASSUME NEW h \in Goroutines PROVE CarriesTruth(h)' /\ AttemptIsAlone(h)'
        BY <1>1, <3>1, <3>2 DEF Owned, CarriesTruth, AttemptIsAlone, Streamer
      <3>6. EngagedIsOwned'  BY <1>1, <3>1, <3>2 DEF Owned, EngagedIsOwned, Streamer
      <3>7. StopIsAlone'  BY <1>1, <3>1, <3>2 DEF Owned, StopIsAlone, Streaming
      <3> QED  BY <3>3, <3>4, <3>5, <3>6, <3>7 DEF Owned
    <2> QED  BY <1>1, <1>2, <2>1, <2>2 DEF Kept, Advances
  <1> QED  BY <1>1, <1>3, <1>4

LEMMA MemberKeeps ==
    ASSUME DataTypes, Points, SaneInv, NEW a \in Indices, LeaveDialog(a) \/ Moderate(a)
    PROVE  DataTypes' /\ Kept
  <1>1. /\ UNCHANGED <<assigned, assignedCache, silenced, pool, binding, pending, go>>
        /\ upsets \subseteq upsets'
    BY DEF LeaveDialog, Moderate, Strays, Upset, storeVars, callVars, progVars
  <1>2. \/ UNCHANGED <<member, memberUpdates>>
        \/ \E s \in Statuses : Becomes(a, s)
    BY DEF LeaveDialog, Moderate, Statuses
  <1>3. MembershipType(Accounts, Indices)'
    <2>1. UNCHANGED <<statusCache, inviteCache>>  BY DEF LeaveDialog, Moderate
    <2>2. a \in Accounts  BY Numbers
    <2>3. /\ member' \in [Indices -> Statuses]
          /\ memberUpdates' \subseteq [of : Accounts, old : Statuses, new : Statuses]
      BY <1>2, <2>2 DEF Becomes, MemberUpdate, DataTypes, MembershipType
    <2> QED  BY <2>1, <2>3 DEF DataTypes, MembershipType
  <1>4. leaving' \subseteq Indices /\ active' = active
    BY DEF LeaveDialog, Moderate, progVars, DataTypes
  <1>5. DataTypes'
    BY <1>1, <1>3, <1>4 DEF LeaveDialog, Moderate, DataTypes, StoreType, GroupCallType,
                            callVars
  <1> QED  BY <1>1, <1>5, CalmSteps, NobodyMovesKeeps

LEMMA OnConnectionChangeKeeps ==
    ASSUME DataTypes, Points, SaneInv, NEW a \in Indices, OnConnectionChange(a)
    PROVE  DataTypes' /\ Kept
  <1>1. PICK s \in signals[a] :
        /\ signals' = [signals EXCEPT ![a] = @ \ {s}]
        /\ IF waiting[a] # NoOne /\ go[waiting[a]].answer = "none"
           THEN go' = [go EXCEPT ![waiting[a]].answer = s]
           ELSE UNCHANGED go
        /\ UNCHANGED <<storeVars, memberVars, videoChat, groupCall, groupUpdates, binding,
                       mode,
                       pending, mutedByAdmin, waiting, progVars, boundVars, ghosts>>
    BY DEF OnConnectionChange
  <1>2. /\ s \in {"ok", "failed"} /\ waiting[a] \in Goroutines \cup {NoOne}
        /\ signals' \in [Indices -> SUBSET {"ok", "failed"}]
    BY <1>1 DEF DataTypes, GroupCallType
  <1>3. DataTypes'
    BY <1>1, <1>2 DEF DataTypes, StoreType, MembershipType, GroupCallType, storeVars,
                      memberVars, progVars
  <1>4. Calm  BY <1>1, CalmSteps DEF storeVars, progVars, ghosts
  <1>5. CASE UNCHANGED go
    BY <1>3, <1>4, <1>5, NobodyMovesKeeps
  <1>6. ASSUME NEW w \in Goroutines, go' = [go EXCEPT ![w].answer = s]
        PROVE  Kept
    <2> DEFINE r == [go[w] EXCEPT !.answer = s]
    <2>1. Becoming(w, r)  BY <1>6 DEF Becoming
    <2>2. go[w] \in Goroutine /\ Fits(go[w])  BY Acting
    <2>3. /\ r \in Goroutine /\ r.at = go[w].at /\ r.who = go[w].who /\ r.req = go[w].req
          /\ r.tried = go[w].tried /\ r.doc = go[w].doc
      BY <1>2, <2>2 DEF Goroutine
    <2> HIDE DEF r
    <2>4. Fits(r)  BY <2>2, <2>3 DEF Fits
    <2>5. go'[w] = r /\ \A h \in Goroutines \ {w} : go'[h] = go[h]  BY <2>1, Turns
    <2>6. NobodyMoves  BY <2>3, <2>5 DEF NobodyMoves
    <2>7. SaneInv'  BY <1>4, <2>6, EnvironmentKeeps
    <2>8. Points'  BY <1>4, <2>1, <2>3, <2>4, PointsKept DEF Calm
    <2>9. \A h \in Goroutines : Advances(h)  BY <2>6 DEF Advances, NobodyMoves
    <2> QED  BY <2>7, <2>8, <2>9 DEF Kept
  <1> QED  BY <1>1, <1>2, <1>3, <1>5, <1>6

LEMMA CallKeepsEngaged ==
    ASSUME DataTypes, NEW a \in Indices,
           Muted(a) \/ Unmuted(a) \/ Down(a) \/ Up(a) \/ CallUpdate(a)
    PROVE  /\ GroupCallType(Indices, Goroutines, CallIds)'
           /\ \A b \in Indices : Engaged(b)' => Engaged(b)
  <1> USE DEF DataTypes, GroupCallType
  <1>1. CASE Muted(a) \/ Unmuted(a)
    BY <1>1 DEF Muted, Unmuted, OnMuted, OnUnmuted, Engaged, Streams
  <1>2. CASE Down(a)
    BY <1>2 DEF Down, ConnectionDown, Engaged, Streams
  <1>3. CASE Up(a)
    BY <1>3 DEF Up, ConnectionUp, Engaged, Streams
  <1>4. CASE CallUpdate(a)
    <2>1. PICK u \in groupUpdates[a] : OnGroupCall(a, u)  BY <1>4 DEF CallUpdate
    <2>2. /\ UNCHANGED <<videoChat, pending, mutedByAdmin, waiting>>
          /\ groupUpdates' \in [Indices -> SUBSET [id : CallIds, over : BOOLEAN]]
          /\ groupCall' \in [Indices -> CallIds \cup {Unknown}]
      <3>1. u.id \in CallIds
        OBVIOUS
      <3> QED  BY <2>1, <3>1 DEF OnGroupCall, Received
    <2>3. CASE UNCHANGED <<binding, mode, signals>>
      BY <2>2, <2>3 DEF Engaged, Streams
    <2>4. CASE Stopped(a)
      <3>1. /\ pending' \in [Indices -> BOOLEAN]
            /\ \A b \in Indices : pending'[b] => pending[b]
        BY <2>2
      <3>2. /\ binding' \in [Indices -> {"none", "created", "connecting", "connected"}]
            /\ mode' \in [Indices -> {"rtc", "stream"}]
            /\ signals' \in [Indices -> SUBSET {"ok", "failed"}]
            /\ \A b \in Indices : Engaged(b)' => Engaged(b)
        BY <2>4, <3>1, Stops
      <3> QED  BY <2>2, <3>2
    <2> QED  BY <2>1, <2>3, <2>4 DEF OnGroupCall
  <1> QED  BY <1>1, <1>2, <1>3, <1>4

LEMMA OfCallKeeps ==
    ASSUME DataTypes, Points, SaneInv, NEW a \in Indices,
           \/ OfCall(Muted(a)) \/ OfCall(Unmuted(a)) \/ OfCall(Down(a)) \/ OfCall(Up(a))
           \/ OfCall(CallUpdate(a))
    PROVE  DataTypes' /\ Kept
  <1>1. /\ Muted(a) \/ Unmuted(a) \/ Down(a) \/ Up(a) \/ CallUpdate(a)
        /\ UNCHANGED <<storeVars, memberVars, progVars, go, requests, ghosts>>
    BY DEF OfCall
  <1>2. /\ GroupCallType(Indices, Goroutines, CallIds)'
        /\ \A b \in Indices : Engaged(b)' => Engaged(b)
    BY <1>1, CallKeepsEngaged
  <1>3. DataTypes'
    BY <1>1, <1>2 DEF DataTypes, StoreType, MembershipType, storeVars, memberVars, progVars
  <1>4. Calm  BY <1>1, <1>2 DEF Calm, storeVars, progVars, ghosts
  <1> QED  BY <1>1, <1>3, <1>4, NobodyMovesKeeps

LEMMA DropUpdateKeeps ==
    ASSUME DataTypes, Points, SaneInv, NEW a \in Indices, DropUpdate(a)
    PROVE  DataTypes' /\ Kept
  <1>1. /\ UNCHANGED <<storeVars, memberVars, progVars, go, silenced>>
        /\ UNCHANGED <<videoChat, groupCall, binding, mode, pending, mutedByAdmin, waiting, signals>>
        /\ groupUpdates' \in [Indices -> SUBSET [id : CallIds, over : BOOLEAN]]
        /\ upsets \subseteq upsets'
    BY DEF DropUpdate, OnUnmatchedCall, Received, Upset, DataTypes, GroupCallType
  <1>2. DataTypes'
    BY <1>1 DEF DataTypes, StoreType, MembershipType, GroupCallType, storeVars, memberVars, progVars
  <1>3. Calm  BY <1>1 DEF Calm, Engaged, Streams, storeVars, progVars
  <1> QED  BY <1>1, <1>2, <1>3, NobodyMovesKeeps

-----------------------------------------------------------------------------
(* What is known of the call. *)

\* The steps that change neither the call nor what is known of it.
SameCall == UNCHANGED <<videoChat, groupCall, groupUpdates>> /\ upsets \subseteq upsets'

LEMMA StepsKnow ==
    ASSUME NEW g \in Goroutines, Step(g) \/ StartSome(g)
    PROVE  SameCall \/ Keep(g)
  <1> USE DEF SameCall, callVars, ghosts
  <1>1. CASE LookupHit(g) \/ LookupRead(g) \/ Fill(g) \/ Assign(g) \/ Assigned(g)
             \/ Refill(g) \/ CheckStatus(g)
    <2>1. LookupHit(g) => SameCall  BY DEF LookupHit
    <2>2. LookupRead(g) => SameCall  BY DEF LookupRead, Upset
    <2>3. Fill(g) => SameCall  BY DEF Fill
    <2>4. Assign(g) => SameCall  BY DEF Assign, Upset, Clash
    <2>5. Assigned(g) => SameCall  BY DEF Assigned
    <2>6. Refill(g) => SameCall  BY DEF Refill
    <2>7. CheckStatus(g) => SameCall  BY DEF CheckStatus
    <2> QED  BY <1>1, <2>1, <2>2, <2>3, <2>4, <2>5, <2>6, <2>7
  <1>2. CASE Recover(g) \/ Invite(g) \/ JoinChannel(g) \/ Calls(g) \/ Create(g)
             \/ Call(g) \/ Join(g)
    <2>1. Recover(g) => SameCall  BY DEF Recover
    <2>2. Invite(g) => SameCall  BY DEF Invite
    <2>3. JoinChannel(g) => SameCall  BY DEF JoinChannel
    <2>4. Calls(g) => SameCall  BY DEF Calls
    <2>5. Create(g) => SameCall  BY DEF Create
    <2>6. Call(g) => SameCall  BY DEF Call
    <2>7. Join(g) => SameCall  BY DEF Join
    <2> QED  BY <1>2, <2>1, <2>2, <2>3, <2>4, <2>5, <2>6, <2>7
  <1>3. CASE Connect(g) \/ Answered(g) \/ TimesOut(g) \/ Unpend(g) \/ Evict(g)
             \/ NextUntried(g)
    <2>1. Connect(g) => SameCall  BY DEF Connect
    <2>2. Answered(g) => SameCall  BY DEF Answered, GiveUp, Upset
    <2>3. TimesOut(g) => SameCall  BY DEF TimesOut, GiveUp, Upset
    <2>4. Unpend(g) => SameCall  BY DEF Unpend
    <2>5. Evict(g) => SameCall  BY DEF Evict, Upset, Clash
    <2>6. NextUntried(g) => SameCall  BY DEF NextUntried
    <2> QED  BY <1>3, <2>1, <2>2, <2>3, <2>4, <2>5, <2>6
  <1>4. CASE Save(g) \/ Saved(g) \/ Stop(g) \/ Update(g) \/ Clear(g) \/ Cleared(g)
    <2>1. Save(g) => SameCall  BY DEF Save, Upset, Clash
    <2>2. Saved(g) => SameCall  BY DEF Saved
    <2>3. Stop(g) => SameCall  BY DEF Stop, StopCall
    <2>4. Update(g) => SameCall  BY DEF Update
    <2>5. Clear(g) => SameCall  BY DEF Clear
    <2>6. Cleared(g) => SameCall  BY DEF Cleared
    <2> QED  BY <1>4, <2>1, <2>2, <2>3, <2>4, <2>5, <2>6
  <1>5. CASE StartPlay(g) \/ StartStop(g) \/ StartUpdate(g) \/ StartReconnect(g)
             \/ StartClear(g)
    <2>1. StartPlay(g) => SameCall  BY DEF StartPlay, Plays, Upset
    <2>2. StartStop(g) => SameCall  BY DEF StartStop
    <2>3. StartUpdate(g) => SameCall  BY DEF StartUpdate
    <2>4. StartReconnect(g) => SameCall  BY DEF StartReconnect, Plays, Upset
    <2>5. StartClear(g) => SameCall  BY DEF StartClear
    <2> QED  BY <1>5, <2>1, <2>2, <2>3, <2>4, <2>5
  <1> QED  BY <1>1, <1>2, <1>3, <1>4, <1>5 DEF Step, StartSome

LEMMA EnvironmentKnows ==
    ASSUME Environment
    PROVE  \/ SameCall \/ VideoChat
           \/ \E a \in Indices : \/ OnConnectionChange(a) /\ SameCall
                                 \/ OfCall(CallUpdate(a)) \/ DropUpdate(a)
  <1> USE DEF SameCall, callVars, ghosts
  <1>1. CASE LeaveAll \/ RemoveBot \/ Revoke \/ Expire
    BY <1>1 DEF LeaveAll, RemoveBot, Revoke, Expire
  <1>2. ASSUME NEW a \in Indices, LeaveDialog(a) \/ Moderate(a) PROVE SameCall
    BY <1>2 DEF LeaveDialog, Moderate, Strays, Upset
  <1>3. ASSUME NEW a \in Indices, OnConnectionChange(a) PROVE SameCall
    BY <1>3 DEF OnConnectionChange
  <1>4. ASSUME NEW a \in Indices,
               OfCall(Muted(a)) \/ OfCall(Unmuted(a)) \/ OfCall(Down(a)) \/ OfCall(Up(a))
        PROVE  SameCall
    BY <1>4 DEF OfCall, Muted, Unmuted, Down, Up, OnMuted, OnUnmuted, ConnectionDown,
                ConnectionUp
  <1> QED  BY <1>1, <1>2, <1>3, <1>4 DEF Environment

LEMMA KnownKeeps ==
    ASSUME DataTypes, Points, KnownInv, Next
    PROVE  KnownInv'
  <1>1. CASE SameCall
    BY <1>1 DEF SameCall, KnownInv
  <1>2. ASSUME NEW g \in Goroutines, Keep(g) PROVE KnownInv'
    <2>1. go[g].who \in Indices  BY <1>2, Places DEF Keep, At, NotChosen
    <2>2. /\ groupCall' = [groupCall EXCEPT ![go[g].who] = go[g].call]
          /\ UNCHANGED <<videoChat, groupUpdates>>
          /\ upsets \subseteq upsets'
          /\ go[g].call # videoChat => "late answer" \in upsets'
      BY <1>2 DEF Keep, Upset
    <2> QED  BY <2>1, <2>2 DEF KnownInv, CallUpsets, DataTypes, GroupCallType
  <1>3. CASE VideoChat
    <2> SUFFICES ASSUME upsets' \cap CallUpsets = {}, NEW a \in Indices
                 PROVE  /\ \A u \in groupUpdates'[a] : Says(u) = videoChat'
                        /\ groupUpdates'[a] = {} => groupCall'[a] \in {Unknown, videoChat'}
      BY DEF KnownInv
    <2> PICK u : u = IF videoChat = NoCall THEN Started(videoChat') ELSE Discarded(videoChat)
      OBVIOUS
    <2>0. Says(u) = videoChat'
      BY <1>3, NoCall \notin 2 .. MaxCalls DEF VideoChat, Says, Started, Discarded, NoCall
    <2>1. /\ groupUpdates' = [b \in Indices |-> groupUpdates[b] \cup (IF InChat(b) THEN {u} ELSE {})]
          /\ upsets \subseteq upsets' /\ groupCall' = groupCall
          /\ "untold" \notin upsets' /\ "crossed" \notin upsets'
      BY <1>3 DEF VideoChat, CallUpsets
    <2>2. /\ ~(\E b \in Indices : ~InChat(b) /\ groupCall[b] # Unknown)
          /\ ~(\E b \in Indices : groupUpdates[b] # {})
      BY <1>3, <2>1 DEF VideoChat
    <2> QED  BY <2>0, <2>1, <2>2
  <1>4. ASSUME NEW a \in Indices, OfCall(CallUpdate(a)) PROVE KnownInv'
    <2>1. PICK u \in groupUpdates[a] : OnGroupCall(a, u)  BY <1>4 DEF OfCall, CallUpdate
    <2>2. /\ groupUpdates' = [groupUpdates EXCEPT ![a] = @ \ {u}]
          /\ groupCall' \in {[groupCall EXCEPT ![a] = Says(u)], [groupCall EXCEPT ![a] = Unknown]}
          /\ videoChat' = videoChat /\ upsets' = upsets
      BY <1>4, <2>1 DEF OnGroupCall, Received, OfCall, ghosts, Says
    <2> QED  BY <2>1, <2>2 DEF KnownInv, DataTypes, GroupCallType
  <1>5. ASSUME NEW a \in Indices, DropUpdate(a) PROVE KnownInv'
    <2>1. PICK u \in groupUpdates[a] : OnUnmatchedCall(a, u)  BY <1>5 DEF DropUpdate
    <2>2. /\ groupUpdates' = [groupUpdates EXCEPT ![a] = @ \ {u}]
          /\ groupCall' = groupCall /\ videoChat' = videoChat
          /\ upsets \subseteq upsets' /\ (groupCall[a] # Unknown => "unmatched" \in upsets')
      BY <1>5, <2>1 DEF DropUpdate, OnUnmatchedCall, Received, Upset
    <2> QED  BY <2>2 DEF KnownInv, CallUpsets, DataTypes, GroupCallType
  <1> QED  BY <1>1, <1>2, <1>3, <1>4, <1>5, StepsKnow, EnvironmentKnows DEF Next

-----------------------------------------------------------------------------
(* The theorems. *)

LEMMA Initially == Init => IInv
  <1> SUFFICES ASSUME Init PROVE IInv
    OBVIOUS
  <1>1. pool \subseteq Indices  BY SomeAssistants DEF Init, Indices
  <1>2. DataTypes
    BY <1>1, Numbers DEF Init, DataTypes, StoreType, MembershipType, GroupCallType, Statuses
  <1>3. \A g \in Goroutines : go[g] = Idle  BY DEF Init
  <1>4. Points  BY IdleFits DEF Init, Points
  <1>5. Idle.at = "idle" /\ Idle.req = "none" /\ Idle.who = Nobody  BY DEF Idle
  <1>6. SaneInv
    <2>1. \A a \in Indices : ~Engaged(a)  BY DEF Init, Engaged, Streams
    <2>2. OneStreams /\ CacheFollows
      BY <1>3, <1>5 DEF Init, OneStreams, CacheFollows, Streaming
    <2>3. \A g \in Goroutines : CarriesTruth(g) /\ AttemptIsAlone(g)
      BY <1>3, <1>5 DEF CarriesTruth, AttemptIsAlone
    <2>4. EngagedIsOwned  BY <2>1 DEF EngagedIsOwned
    <2>5. StopIsAlone  BY Names DEF Init, StopIsAlone
    <2> QED  BY <2>2, <2>3, <2>4, <2>5 DEF SaneInv, Owned
  <1>7. KnownInv  BY DEF Init, KnownInv
  <1> QED  BY <1>2, <1>4, <1>6, <1>7 DEF IInv, TInv

LEMMA EnvironmentActs ==
    ASSUME DataTypes, Points, SaneInv, Environment
    PROVE  DataTypes' /\ Kept
  BY LeavesAndTimeKeep, VideoChatKeeps, ExpireKeeps, MemberKeeps, OnConnectionChangeKeeps,
     OfCallKeeps, DropUpdateKeeps
     DEF Environment

LEMMA GoroutineActs ==
    ASSUME DataTypes, Points, SaneInv, NEW g \in Goroutines, Step(g) \/ StartSome(g)
    PROVE  DataTypes' /\ Kept
  <1>1. CASE LookupHit(g) \/ LookupRead(g) \/ Fill(g) \/ Assign(g) \/ Assigned(g)
             \/ Refill(g)
    BY <1>1, LookupHitKeeps, LookupReadKeeps, FillKeeps, AssignKeeps, AssignedKeeps,
       RefillKeeps
  <1>2. CASE CheckStatus(g) \/ Recover(g) \/ Invite(g) \/ JoinChannel(g)
    BY <1>2, CheckStatusKeeps, RecoverKeeps, InviteKeeps, JoinChannelKeeps
  <1>3. CASE Calls(g) \/ Create(g) \/ Call(g) \/ Keep(g) \/ Join(g) \/ Connect(g)
             \/ Answered(g) \/ TimesOut(g) \/ Unpend(g)
    BY <1>3, CallsKeeps, CreateKeeps, CallKeeps, KeepKeeps, JoinKeeps, ConnectKeeps,
       AnsweredKeeps, TimesOutKeeps, UnpendKeeps
  <1>4. CASE Evict(g) \/ NextUntried(g) \/ Save(g) \/ Saved(g)
    BY <1>4, EvictKeeps, NextUntriedKeeps, SaveKeeps, SavedKeeps
  <1>5. CASE Stop(g) \/ Update(g) \/ Clear(g) \/ Cleared(g)
    BY <1>5, StopKeeps, UpdateKeeps, ClearKeeps, ClearedKeeps
  <1>6. CASE StartPlay(g) \/ StartStop(g) \/ StartUpdate(g) \/ StartReconnect(g)
             \/ StartClear(g)
    BY <1>6, StartPlayKeeps, StartStopKeeps, StartUpdateKeeps, StartReconnectKeeps,
       StartClearKeeps
  <1> QED  BY <1>1, <1>2, <1>3, <1>4, <1>5, <1>6 DEF Step, StartSome

LEMMA Inductive == IInv /\ [Next]_vars => IInv' /\ [\A h \in Goroutines : Advances(h)]_vars
  <1> SUFFICES ASSUME IInv, [Next]_vars PROVE IInv' /\ [\A h \in Goroutines : Advances(h)]_vars
    OBVIOUS
  <1> USE DEF IInv, TInv
  <1>1. CASE Next
    <2>1. DataTypes' /\ Kept
      BY <1>1, EnvironmentActs, GoroutineActs DEF Next
    <2>2. KnownInv'  BY <1>1, KnownKeeps
    <2> QED  BY <2>1, <2>2 DEF Kept
  <1>2. CASE UNCHANGED vars
    <2> USE <1>2 DEF vars, storeVars, memberVars, callVars, progVars, boundVars, ghosts
    <2>1. DataTypes'
      BY DEF DataTypes, StoreType, MembershipType, GroupCallType
    <2>2. Calm /\ UNCHANGED go  BY CalmSteps
    <2>3. Points' /\ SaneInv'  BY <2>2, NobodyMovesKeeps DEF Kept
    <2>4. KnownInv'  BY DEF KnownInv
    <2> QED  BY <2>1, <2>3, <2>4
  <1> QED  BY <1>1, <1>2

\* In every state the data have their types, the goroutines are where their
\* requests take them, who is engaged is owned, and what is known is current.
THEOREM Invariance == Spec => []IInv
  BY Initially, Inductive, PTL DEF Spec

\* The cache and the database name assistants that exist, a goroutine has an
\* assistant of the pool whenever it uses one, and a play has marked its own as
\* tried (getClientIndex refuses an index beyond the pool).
THEOREM TypeCorrect == Spec => []TypeOK
  <1>1. IInv => TypeOK
    BY DEF IInv, TInv, DataTypes, Points, TypeOK, Fits, Goroutine, Seek
  <1> QED  BY <1>1, Invariance, PTL

\* A rotation takes an assistant it did not try, or repeats one attempt once.
THEOREM RotationsAdvance == Spec => RotationAdvances
  <1>1. (\A h \in Goroutines : Advances(h)) =>
          \A g \in Goroutines :
            go[g].at \notin {"lookup", "fill", "assign", "assigned", "refill"}
            /\ ~At(g, "status") /\ go'[g].at = "status"
                => \/ go[g].tried \subseteq go'[g].tried /\ go[g].tried # go'[g].tried
                   \/ ~go[g].again /\ go'[g].again /\ go[g].who = go'[g].who
    BY DEF Advances, At, Seek
  <1> QED  BY <1>1, Invariance, Inductive, PTL DEF Spec, RotationAdvances

\* Without an upset, a Stop that ran alone leaves nobody connected and no
\* connection pending.
THEOREM StopsSilence == Spec => []StopSilences
  <1>1. IInv => StopSilences
    BY DEF IInv, SaneInv, Owned, StopIsAlone, StopSilences
  <1> QED  BY <1>1, Invariance, PTL

\* Whoever has no update on its way knows nothing of the call, or the truth.
THEOREM KnownCallsAreCurrent == Spec => []KnownCallIsCurrent
  <1>1. IInv => KnownCallIsCurrent
    BY DEF IInv, KnownInv, CallUpsets, KnownCallIsCurrent
  <1> QED  BY <1>1, Invariance, PTL
=============================================================================
