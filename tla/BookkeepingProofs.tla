-------------------------- MODULE BookkeepingProofs -------------------------
(***************************************************************************)
(* What the bot keeps besides its queues, for any number of people,        *)
(* goroutines, songs, targets and commands.                                *)
(*                                                                         *)
(* The parts of Bookkeeping share no state: each has its own inductive     *)
(* invariant, and a step keeps the invariants of the parts it leaves alone.*)
(***************************************************************************)
EXTENDS Bookkeeping, ListProofs

-----------------------------------------------------------------------------
(* Broadcasts.  CancelStops counts what a run sends after it was told to    *)
(* stop.  It follows from what the flag and the run know of each other:     *)
(* unless two broadcasts were begun at once, a live run was told exactly    *)
(* when the cancel flag is up.                                              *)
Places == {"check", "send", "leave", "ended"}
Runs == [at : Places, left : Int, told : BOOLEAN, more : Nat]

RunsType ==
    /\ runs \in Seq(Runs)
    /\ broadcastInProgress \in BOOLEAN /\ broadcastCancelFlag \in BOOLEAN /\ crossed \in BOOLEAN

\* The two flags tell of the one live run.
FlagsTell ==
    /\ broadcastInProgress = (\E i \in DOMAIN runs : Live(runs[i]))
    /\ \A i, j \in DOMAIN runs : Live(runs[i]) /\ Live(runs[j]) => i = j
    /\ \A i \in DOMAIN runs : Live(runs[i]) => runs[i].told = broadcastCancelFlag

\* A run sends after it was told only what it had decided to send before.
RunStops(run) ==
    /\ run.more <= 1
    /\ ~run.told \/ run.at = "send" => run.more = 0
    /\ run.at \in {"leave", "ended"} /\ run.left > 0 => run.told
RunsStop == \A i \in DOMAIN runs : RunStops(runs[i])

Orderly == FlagsTell /\ RunsStop
BroadcastsInv == RunsType /\ (crossed \/ Orderly)

LEMMA BroadcastsInvImplies == BroadcastsInv => CancelStops
  BY DEF BroadcastsInv, Orderly, FlagsTell, RunsStop, RunStops, CancelStops

LEMMA BroadcastsInitInv == BroadcastsInit => BroadcastsInv
  <1> SUFFICES ASSUME BroadcastsInit PROVE BroadcastsInv
    OBVIOUS
  <1>1. runs = <<>> /\ DOMAIN runs = {}
    BY DEF BroadcastsInit
  <1>2. RunsType
    <2>1. runs \in Seq(Runs)
      BY <1>1
    <2> QED
      BY <2>1 DEF BroadcastsInit, RunsType
  <1>3. Orderly
    BY <1>1 DEF BroadcastsInit, Orderly, FlagsTell, RunsStop
  <1> QED
    BY <1>2, <1>3 DEF BroadcastsInv

\* Once two broadcasts were begun at once nothing is claimed.
LEMMA CrossedStays ==
  ASSUME RunsType, BroadcastsNext, crossed
  PROVE  crossed'
  BY DEF BroadcastsNext, Order, NothingToSend, List, ClearCancel, StartRun, Cancel, Check, Send,
         Leave, RunsType

\* Commands that only move.
LEMMA NothingChanges ==
  ASSUME BroadcastsInv, UNCHANGED <<flags, runs, crossed>>
  PROVE  BroadcastsInv'
  BY DEF BroadcastsInv, RunsType, Orderly, FlagsTell, RunsStop, RunStops, Live, flags

LEMMA ClearCancelInv ==
  ASSUME BroadcastsInv, NEW d \in Developers, ClearCancel(d)
  PROVE  BroadcastsInv'
  <1>1. RunsType'
    BY DEF BroadcastsInv, RunsType, ClearCancel
  <1>2. ASSUME ~crossed' PROVE Orderly'
    <2>1. ~crossed /\ \A i \in DOMAIN runs : ~Live(runs[i])
      BY <1>2 DEF ClearCancel
    <2> QED
      BY <2>1 DEF BroadcastsInv, RunsType, Orderly, FlagsTell, RunsStop, RunStops, Live, ClearCancel
  <1> QED
    BY <1>1, <1>2 DEF BroadcastsInv

LEMMA StartRunInv ==
  ASSUME BroadcastsInv, NEW d \in Developers, StartRun(d)
  PROVE  BroadcastsInv'
  <1> DEFINE n == Len(runs) + 1
  <1>1. NewRun \in Runs
    BY BroadcastBounds DEF BroadcastsInv, RunsType, NewRun, Runs, Places
  <1>2. RunsType'
    BY <1>1 DEF BroadcastsInv, RunsType, StartRun
  <1>3. /\ DOMAIN runs = 1 .. Len(runs) /\ DOMAIN runs' = 1 .. n /\ Len(runs) \in Nat
        /\ runs'[n] = NewRun /\ \A i \in DOMAIN runs : runs'[i] = runs[i]
    BY <1>1 DEF BroadcastsInv, RunsType, StartRun
  <1>4. ASSUME ~crossed' PROVE Orderly'
    <2>1. ~crossed /\ \A i \in DOMAIN runs : ~Live(runs[i])
      BY <1>4 DEF StartRun
    <2>2. /\ Live(NewRun) /\ NewRun.told = broadcastCancelFlag
          /\ NewRun.more = 0 /\ NewRun.at = "check"
      BY DEF Live, NewRun
    <2>3. \A i \in DOMAIN runs' : Live(runs'[i]) <=> i = n
      BY <1>3, <2>1, <2>2 DEF Live
    <2>4. FlagsTell'
      BY <1>3, <2>2, <2>3 DEF FlagsTell, Live, StartRun
    <2>5. RunsStop'
      BY <1>3, <2>1, <2>2 DEF BroadcastsInv, Orderly, RunsStop, RunStops
    <2> QED
      BY <2>4, <2>5 DEF Orderly
  <1> QED
    BY <1>2, <1>4 DEF BroadcastsInv

LEMMA CancelInv ==
  ASSUME BroadcastsInv, NEW d \in Developers, Cancel(d)
  PROVE  BroadcastsInv'
  <1>1. /\ DOMAIN runs' = DOMAIN runs
        /\ \A i \in DOMAIN runs :
               runs'[i] = [runs[i] EXCEPT !.told = runs[i].told \/ Live(runs[i])]
    BY DEF BroadcastsInv, RunsType, Cancel
  <1>2. \A i \in DOMAIN runs : runs[i] \in Runs
    BY DEF BroadcastsInv, RunsType
  <1>3. \A i \in DOMAIN runs :
            /\ runs'[i] \in Runs
            /\ runs'[i].at = runs[i].at /\ runs'[i].more = runs[i].more /\ runs'[i].left = runs[i].left
            /\ runs'[i].told = (runs[i].told \/ Live(runs[i]))
    BY <1>1, <1>2 DEF Runs
  <1>4. RunsType'
    <2>1. DOMAIN runs = 1 .. Len(runs) /\ Len(runs) \in Nat
      BY DEF BroadcastsInv, RunsType
    <2>2. runs' \in [1 .. Len(runs) -> Runs]
      BY <1>1, <1>3, <2>1 DEF Cancel
    <2> QED
      BY <2>1, <2>2 DEF BroadcastsInv, RunsType, Cancel
  <1>5. ASSUME Orderly PROVE Orderly'
    <2>1. \A i \in DOMAIN runs : Live(runs'[i]) <=> Live(runs[i])
      BY <1>3 DEF Live
    <2>2. \A i \in DOMAIN runs : Live(runs[i]) => runs'[i].told = TRUE
      BY <1>3
    <2>3. FlagsTell'
      BY <1>1, <1>5, <2>1, <2>2 DEF Orderly, FlagsTell, Live, Cancel
    <2>4. RunsStop'
      BY <1>1, <1>2, <1>3, <1>5 DEF Orderly, RunsStop, RunStops, Live, Runs
    <2> QED
      BY <2>3, <2>4 DEF Orderly
  <1> QED
    BY <1>4, <1>5 DEF BroadcastsInv, Cancel

\* What a step of the sending goroutine has to show for its own run.
LEMMA RunStep ==
  ASSUME BroadcastsInv, NEW i \in DOMAIN runs, NEW run \in Runs,
         runs' = [runs EXCEPT ![i] = run],
         crossed' = crossed, broadcastCancelFlag' = broadcastCancelFlag,
         Live(runs[i]), run.told = runs[i].told,
         broadcastInProgress' = (broadcastInProgress /\ Live(run)),
         Orderly => RunStops(run)
  PROVE  BroadcastsInv'
  <1>1. /\ DOMAIN runs' = DOMAIN runs /\ runs'[i] = run
        /\ \A j \in DOMAIN runs : j # i => runs'[j] = runs[j]
    BY DEF BroadcastsInv, RunsType
  <1>2. RunsType'
    BY DEF BroadcastsInv, RunsType
  <1>3. ASSUME Orderly PROVE Orderly'
    <2>1. broadcastInProgress /\ \A j \in DOMAIN runs : Live(runs[j]) <=> j = i
      BY <1>3 DEF Orderly, FlagsTell
    <2>2. \A j \in DOMAIN runs' : Live(runs'[j]) <=> j = i /\ Live(run)
      BY <1>1, <2>1
    <2>3. FlagsTell'
      BY <1>1, <1>3, <2>1, <2>2 DEF Orderly, FlagsTell, Live
    <2>4. RunsStop'
      BY <1>1, <1>3 DEF Orderly, RunsStop, RunStops
    <2> QED
      BY <2>3, <2>4 DEF Orderly
  <1> QED
    BY <1>2, <1>3 DEF BroadcastsInv

LEMMA RunTyped ==
  ASSUME RunsType, NEW i \in DOMAIN runs
  PROVE  runs[i] \in Runs
  BY DEF RunsType

LEMMA CheckInv ==
  ASSUME BroadcastsInv, NEW i \in DOMAIN runs, Check(i)
  PROVE  BroadcastsInv'
  <1> DEFINE to == IF runs[i].left = 0 \/ broadcastCancelFlag THEN "leave" ELSE "send"
             run == [runs[i] EXCEPT !.at = to]
  <1>1. runs[i] \in Runs
    BY RunTyped DEF BroadcastsInv
  <1>2. /\ run \in Runs /\ run.at = to /\ run.told = runs[i].told
        /\ run.more = runs[i].more /\ run.left = runs[i].left
    BY <1>1 DEF Runs, Places
  <1>3. Live(runs[i]) /\ Live(run)
    BY <1>2 DEF Live, Check
  <1>4. Orderly => RunStops(run)
    BY <1>1, <1>2, <1>3 DEF Orderly, FlagsTell, RunsStop, RunStops, Check, Runs
  <1>5. runs' = [runs EXCEPT ![i] = run] /\ UNCHANGED <<flags, crossed>>
    BY DEF Check
  <1> QED
    BY <1>2, <1>3, <1>4, <1>5, RunStep DEF BroadcastsInv, RunsType, flags

LEMMA SendInv ==
  ASSUME BroadcastsInv, NEW i \in DOMAIN runs, Send(i)
  PROVE  BroadcastsInv'
  <1> DEFINE sent == IF runs[i].told THEN runs[i].more + 1 ELSE runs[i].more
             run == [runs[i] EXCEPT !.at = "check", !.left = runs[i].left - 1, !.more = sent]
  <1>1. runs[i] \in Runs
    BY RunTyped DEF BroadcastsInv
  <1>2. /\ run \in Runs /\ run.at = "check" /\ run.told = runs[i].told /\ run.more = sent
    <2>1. sent \in Nat /\ runs[i].left - 1 \in Int
      BY <1>1 DEF Runs
    <2> HIDE DEF sent
    <2> QED
      BY <1>1, <2>1 DEF Runs, Places
  <1>3. Live(runs[i]) /\ Live(run)
    BY <1>2 DEF Live, Send
  <1>4. Orderly => RunStops(run)
    BY <1>1, <1>2 DEF Orderly, RunsStop, RunStops, Send, Runs
  <1>5. runs' = [runs EXCEPT ![i] = run] /\ UNCHANGED <<flags, crossed>>
    BY <1>1 DEF Send, Runs
  <1> QED
    BY <1>2, <1>3, <1>4, <1>5, RunStep DEF BroadcastsInv, RunsType, flags

LEMMA LeaveInv ==
  ASSUME BroadcastsInv, NEW i \in DOMAIN runs, Leave(i)
  PROVE  BroadcastsInv'
  <1> DEFINE run == [runs[i] EXCEPT !.at = "ended"]
  <1>1. runs[i] \in Runs
    BY RunTyped DEF BroadcastsInv
  <1>2. /\ run \in Runs /\ run.at = "ended" /\ run.told = runs[i].told
        /\ run.more = runs[i].more /\ run.left = runs[i].left
    BY <1>1 DEF Runs, Places
  <1>3. Live(runs[i]) /\ ~Live(run)
    BY <1>2 DEF Live, Leave
  <1>4. Orderly => RunStops(run)
    BY <1>1, <1>2 DEF Orderly, RunsStop, RunStops, Leave, Runs
  <1>5. runs' = [runs EXCEPT ![i] = run] /\ UNCHANGED <<broadcastCancelFlag, crossed>>
        /\ broadcastInProgress' = FALSE
    BY DEF Leave
  <1> QED
    BY <1>2, <1>3, <1>4, <1>5, RunStep

LEMMA BroadcastsNextInv ==
  ASSUME BroadcastsInv, [BroadcastsNext]_broadcastVars
  PROVE  BroadcastsInv'
  <1>1. CASE UNCHANGED broadcastVars
    BY <1>1, NothingChanges DEF broadcastVars, flags
  <1>2. ASSUME NEW d \in Developers, Order(d) \/ NothingToSend(d) \/ List(d) PROVE BroadcastsInv'
    BY <1>2, NothingChanges DEF Order, NothingToSend, List
  <1> QED
    BY <1>1, <1>2, ClearCancelInv, StartRunInv, CancelInv, CheckInv, SendInv, LeaveInv
    DEF BroadcastsNext

-----------------------------------------------------------------------------
(* Playlists: their number, and the copies of a song in one, are bounded by *)
(* the limit and by how many commands may overlap, for any number of        *)
(* editors, songs and commands.  Whoever is about to insert or to push has  *)
(* looked before; all that he did not see is what others, who had looked as *)
(* well, were about to insert or to push.                                   *)

EditPlaces == {"idle", "count", "find", "insert", "exists", "delete", "push", "pull"}
Edits == [at : EditPlaces, does : {"none", "create", "save", "delete", "add", "remove"},
          list : Nat, song : Songs \cup {""}, index : Nat]

\* A command knows its song by the time it looks for it.
Prepared(f) ==
    /\ f.at \in {"count", "insert"} => f.does = "create" \/ (f.does = "save" /\ f.song \in Songs)
    /\ f.at = "find" => f.does \in {"delete", "remove"} \/ (f.does = "add" /\ f.song \in Songs)
    /\ f.at \in {"exists", "push", "pull"} => f.song \in Songs

PlaylistsType ==
    /\ lists \in Seq(Seq(Songs) \cup {Gone})
    /\ editing \in [Editors -> Edits] /\ \A e \in Editors : Prepared(editing[e])
    /\ edits \in Nat /\ dbErrors \in Nat

PlaylistsInv == PlaylistsType /\ ListsAreLimited

LEMMA ListTypes ==
  ASSUME PlaylistsType
  PROVE  /\ Len(lists) \in Nat /\ DOMAIN lists = 1 .. Len(lists)
         /\ Existing \in SUBSET (1 .. Len(lists))
         /\ IsFiniteSet(Existing) /\ Cardinality(Existing) \in Nat
         /\ \A id \in Existing : lists[id] \in Seq(Songs)
         /\ \A id \in DOMAIN lists : lists[id] \in Seq(Songs) \cup {Gone}
<1>1. Len(lists) \in Nat /\ DOMAIN lists = 1 .. Len(lists)
  BY DEF PlaylistsType
<1>2. Existing \in SUBSET (1 .. Len(lists))
  BY <1>1 DEF Existing
<1>3. IsFiniteSet(Existing) /\ Cardinality(Existing) \in Nat
  BY <1>1, <1>2, Ranks
<1> QED
  BY <1>1, <1>2, <1>3 DEF PlaylistsType, Existing

LEMMA EditorsAreFew ==
  ASSUME NEW E \in SUBSET Editors
  PROVE  /\ IsFiniteSet(E) /\ Cardinality(E) \in Nat /\ Cardinality(Editors) \in Nat
         /\ Cardinality(E) <= Cardinality(Editors) /\ Cardinality(Editors) > 0
<1>1. IsFiniteSet(Editors) /\ Cardinality(Editors) \in Nat /\ Cardinality(Editors) # 0
  BY PlaylistAssumption, FS_CardinalityType, FS_EmptySet
<1> QED
  BY <1>1, FS_Subset, FS_CardinalityType

\* Copies in a list, and what a list gains or loses.
LEMMA CountedCopies ==
  ASSUME NEW q \in Seq(Songs), NEW s
  PROVE  /\ KeptAt(q, {s}) \in SUBSET (1 .. Len(q)) /\ Len(q) \in Nat
         /\ IsFiniteSet(KeptAt(q, {s})) /\ Cardinality(KeptAt(q, {s})) \in Nat
<1>1. Len(q) \in Nat /\ KeptAt(q, {s}) \in SUBSET (1 .. Len(q))
  BY DEF KeptAt
<1> QED
  BY <1>1, Ranks

LEMMA CopiesAppended ==
  ASSUME NEW q \in Seq(Songs), NEW x \in Songs, NEW s
  PROVE  Cardinality(KeptAt(Append(q, x), {s})) =
             Cardinality(KeptAt(q, {s})) + (IF s = x THEN 1 ELSE 0)
<1> DEFINE n == Len(q) + 1
<1>1. /\ n \in Nat /\ n \notin KeptAt(q, {s})
      /\ IsFiniteSet(KeptAt(q, {s})) /\ Cardinality(KeptAt(q, {s})) \in Nat
  <2>1. n \in Nat /\ n \notin 1 .. Len(q)
    OBVIOUS
  <2> QED
    BY <2>1, CountedCopies
<1>2. CASE s = x
  <2>1. KeptAt(Append(q, x), {s}) = KeptAt(q, {s}) \cup {n}
    BY <1>2 DEF KeptAt
  <2> QED
    BY <1>1, <1>2, <2>1, FS_AddElement
<1>3. CASE s # x
  <2>1. KeptAt(Append(q, x), {s}) = KeptAt(q, {s})
    BY <1>3 DEF KeptAt
  <2> QED
    BY <1>1, <1>3, <2>1
<1> QED
  BY <1>2, <1>3

LEMMA CopiesPulled ==
  ASSUME NEW q \in Seq(Songs), NEW x, NEW s
  PROVE  LET t == Keep(q, Songs \ {x}) IN
         /\ t \in Seq(Songs)
         /\ Cardinality(KeptAt(t, {s})) <= Cardinality(KeptAt(q, {s}))
         /\ s = x => Cardinality(KeptAt(t, {s})) = 0
<1> DEFINE K == Songs \ {x}
           t == Keep(q, K)
           P == KeptAt(q, K)
           from == [n \in DOMAIN t |-> Nth(P, n)]
<1>1. /\ t \in Seq(Songs) /\ from \in [DOMAIN t -> P]
      /\ \A n \in DOMAIN t : t[n] = q[from[n]] /\ t[n] \in K
      /\ \A n, l \in DOMAIN t : n < l => from[n] < from[l]
  BY Kept
<1>2. P = {i \in DOMAIN q : q[i] \in K} /\ \A i \in P : i \in Nat
  BY DEF KeptAt
<1> HIDE DEF t, P, from
<1> DEFINE A == KeptAt(t, {s})
           B == KeptAt(q, {s})
           h == [n \in A |-> from[n]]
<1>3. A \subseteq DOMAIN t /\ \A n \in A : t[n] = s /\ n \in Int
  BY <1>1 DEF KeptAt
<1>4. h \in [A -> B]
  BY <1>1, <1>2, <1>3 DEF KeptAt
<1>5. \A n, l \in A : h[n] = h[l] => n = l
  <2> SUFFICES ASSUME NEW n \in A, NEW l \in A, h[n] = h[l], n # l PROVE FALSE
    OBVIOUS
  <2>1. n < l \/ l < n
    <3>1. n \in Int /\ l \in Int
      BY <1>3
    <3> HIDE DEF A, h
    <3> QED
      BY <3>1
  <2>2. from[n] < from[l] \/ from[l] < from[n]
    BY <1>1, <1>3, <2>1
  <2>3. from[n] \in Nat /\ from[l] \in Nat /\ from[n] = from[l]
    BY <1>1, <1>2, <1>3
  <2> QED
    BY <2>2, <2>3
<1>6. h \in Injection(A, B)
  BY <1>4, <1>5 DEF Injection, IsInjective
<1>7. Cardinality(A) <= Cardinality(B)
  BY <1>6, CountedCopies, FS_Injection
<1>8. s = x => A = {}
  BY <1>1, <1>3
<1> QED
  BY <1>1, <1>7, <1>8, FS_EmptySet DEF t

\* What an editor's own step makes of who is about to insert or to push.
LEMMA EditorMoves ==
  ASSUME PlaylistsType, NEW e \in Editors, NEW f \in Edits, editing' = [editing EXCEPT ![e] = f]
  PROVE  /\ Inserting' = IF f.at = "insert" THEN Inserting \cup {e} ELSE Inserting \ {e}
         /\ \A id, s : Pushing(id, s)' = IF f.at = "push" /\ f.list = id /\ f.song = s
                                       THEN Pushing(id, s) \cup {e} ELSE Pushing(id, s) \ {e}
         /\ editing' \in [Editors -> Edits]
         /\ Prepared(f) => \A a \in Editors : Prepared(editing'[a])
BY DEF PlaylistsType, Inserting, Pushing, EditorIs

LEMMA Pushers == \A id, s : Pushing(id, s) \in SUBSET Editors
BY DEF Pushing

\* The limit is kept by a step after which nobody else is about to insert, by
\* one that takes a playlist away, and by a look that finds room.
LEMMA LimitKept ==
  ASSUME PlaylistsInv, PlaylistsType', Existing' \subseteq Existing,
         Inserting' \subseteq Inserting \/ Cardinality(Existing) < PlaylistLimit
  PROVE  Cardinality(Existing') + Cardinality(Inserting') < PlaylistLimit + Cardinality(Editors)
<1>1. /\ IsFiniteSet(Existing) /\ Cardinality(Existing) \in Nat /\ Cardinality(Existing') \in Nat
      /\ Cardinality(Existing') <= Cardinality(Existing)
  <2>1. IsFiniteSet(Existing) /\ Cardinality(Existing) \in Nat
    BY ListTypes DEF PlaylistsInv
  <2> QED
    BY <2>1, FS_Subset, FS_CardinalityType
<1>2. Inserting \in SUBSET Editors /\ Inserting' \in SUBSET Editors
  BY DEF Inserting
<1>3. /\ Cardinality(Inserting) \in Nat /\ Cardinality(Inserting') \in Nat /\ Cardinality(Editors) \in Nat
      /\ Cardinality(Inserting') <= Cardinality(Editors)
      /\ IsFiniteSet(Inserting)
  BY <1>2, EditorsAreFew
<1>4. CASE Inserting' \subseteq Inserting
  <2>1. Cardinality(Inserting') <= Cardinality(Inserting)
    BY <1>3, <1>4, FS_Subset
  <2>2. Cardinality(Existing) + Cardinality(Inserting) < PlaylistLimit + Cardinality(Editors)
    BY DEF PlaylistsInv, ListsAreLimited
  <2> QED
    BY <1>1, <1>3, <2>1, <2>2, PlaylistAssumption
<1>5. CASE Cardinality(Existing) < PlaylistLimit
  BY <1>1, <1>3, <1>5, PlaylistAssumption
<1> QED
  BY <1>4, <1>5

\* The copies of a song stay within their bound when none is added and nobody
\* else is about to push one, and when there is none.
LEMMA CopiesKept ==
  ASSUME PlaylistsInv, PlaylistsType', dbErrors' >= dbErrors, NEW id \in Existing', NEW s \in Songs,
         \/ /\ id \in Existing /\ Copies(id, s)' <= Copies(id, s)
            /\ Pushing(id, s)' \subseteq Pushing(id, s)
         \/ Copies(id, s)' = 0
  PROVE  Copies(id, s)' + Cardinality(Pushing(id, s)') <= Cardinality(Editors) + dbErrors'
<1>1. /\ IsFiniteSet(Pushing(id, s)) /\ Cardinality(Pushing(id, s)) \in Nat
      /\ Cardinality(Pushing(id, s)') \in Nat
      /\ Cardinality(Editors) \in Nat /\ Cardinality(Pushing(id, s)') <= Cardinality(Editors)
  <2>1. Pushing(id, s) \in SUBSET Editors /\ Pushing(id, s)' \in SUBSET Editors
    BY DEF Pushing
  <2> QED
    BY <2>1, EditorsAreFew
<1>2. dbErrors \in Nat /\ dbErrors' \in Nat
  BY DEF PlaylistsInv, PlaylistsType
<1>3. CASE Copies(id, s)' = 0
  BY <1>1, <1>2, <1>3
<1>4. CASE /\ id \in Existing /\ Copies(id, s)' <= Copies(id, s)
           /\ Pushing(id, s)' \subseteq Pushing(id, s)
  <2>1. Copies(id, s) + Cardinality(Pushing(id, s)) <= Cardinality(Editors) + dbErrors
    BY <1>4 DEF PlaylistsInv, ListsAreLimited
  <2>2. Cardinality(Pushing(id, s)') <= Cardinality(Pushing(id, s))
    BY <1>1, <1>4, FS_Subset
  <2>3. Copies(id, s) \in Nat /\ Copies(id, s)' \in Nat
    <3>1. lists[id] \in Seq(Songs) /\ lists'[id] \in Seq(Songs)
      BY <1>4, ListTypes DEF PlaylistsInv, PlaylistsType, Existing
    <3>2. Cardinality(KeptAt(lists[id], {s})) \in Nat /\ Cardinality(KeptAt(lists[id], {s})') \in Nat
      BY <3>1, CountedCopies
    <3> QED
      BY <1>4, <3>2 DEF Copies
  <2> QED
    BY <1>1, <1>2, <1>4, <2>1, <2>2, <2>3
<1> QED
  BY <1>3, <1>4

LEMMA PlaylistsInitInv == PlaylistsInit => PlaylistsInv
<1> SUFFICES ASSUME PlaylistsInit PROVE PlaylistsInv
  OBVIOUS
<1> DEFINE all == SetToSeq(Songs)
<1>1. all \in Seq(Songs) /\ \A i, j \in DOMAIN all : all[i] = all[j] => i = j
  <2>1. Cardinality(Songs) \in Nat /\ ExistsBijection(1 .. Cardinality(Songs), Songs)
    BY PlaylistAssumption, FS_CardinalityType
  <2>2. \E f \in [1 .. Cardinality(Songs) -> Songs] : IsInjective(f)
    BY <2>1 DEF ExistsBijection, Bijection, Injection, IsInjective
  <2>3. all \in [1 .. Cardinality(Songs) -> Songs] /\ IsInjective(all)
    BY <2>2 DEF SetToSeq
  <2>4. all \in Seq(Songs)
    BY <2>1, <2>3
  <2> QED
    BY <2>3, <2>4 DEF IsInjective
<1> HIDE DEF all
<1>2. lists \in {<<>>, <<Gone>>, <<all>>}
  BY DEF PlaylistsInit, all
<1>3. PlaylistsType
  <2>1. lists \in Seq(Seq(Songs) \cup {Gone})
    <3> DEFINE X == Seq(Songs) \cup {Gone}
    <3>1. Gone \in X /\ all \in X
      BY <1>1
    <3> HIDE DEF X
    <3>2. <<>> \in Seq(X) /\ \A x \in X : <<x>> \in Seq(X)
      OBVIOUS
    <3>3. lists \in Seq(X)
      BY <1>2, <3>1, <3>2
    <3> QED
      BY <3>3 DEF X
  <2>2. Resting \in Edits /\ Prepared(Resting)
    BY DEF Resting, Edits, EditPlaces, Prepared
  <2> QED
    BY <2>1, <2>2 DEF PlaylistsInit, PlaylistsType
<1>4. Inserting = {} /\ \A id, s : Pushing(id, s) = {}
  BY DEF PlaylistsInit, Inserting, Pushing, EditorIs, Resting
<1>5. Existing \subseteq {1} /\ \A id \in Existing : lists[id] = all
  BY <1>2 DEF Existing
<1>6. Cardinality(Editors) \in Nat /\ Cardinality(Editors) > 0
  BY EditorsAreFew
<1>7. Cardinality(Existing) \in Nat /\ Cardinality(Existing) <= 1
  <2>1. IsFiniteSet({1}) /\ Cardinality({1}) = 1
    BY FS_Singleton
  <2> QED
    BY <1>5, <2>1, FS_Subset, FS_CardinalityType
<1>8. ASSUME NEW id \in Existing, NEW s \in Songs PROVE Copies(id, s) \in {0, 1}
  <2>1. Copies(id, s) = Cardinality(KeptAt(all, {s}))
    BY <1>5 DEF Copies
  <2>2. CASE KeptAt(all, {s}) = {}
    BY <2>1, <2>2, FS_EmptySet
  <2>3. ASSUME NEW i \in KeptAt(all, {s}) PROVE KeptAt(all, {s}) = {i}
    BY <1>1 DEF KeptAt
  <2> QED
    BY <2>1, <2>2, <2>3, FS_Singleton
<1>9. ListsAreLimited
  <2>1. Cardinality({}) = 0 /\ dbErrors = 0
    BY FS_EmptySet DEF PlaylistsInit
  <2>2. Cardinality(Existing) + Cardinality(Inserting) < PlaylistLimit + Cardinality(Editors)
    BY <1>4, <1>6, <1>7, <2>1, PlaylistAssumption
  <2>3. \A id \in Existing, s \in Songs :
           Copies(id, s) + Cardinality(Pushing(id, s)) <= Cardinality(Editors) + dbErrors
    BY <1>4, <1>6, <1>8, <2>1
  <2> QED
    BY <2>2, <2>3 DEF ListsAreLimited
<1> QED
  BY <1>3, <1>9 DEF PlaylistsInv

\* A step that leaves the lists alone: its editor is about to insert after it
\* found room, and about to push after it saw no copy or failed to look.
MovesTo(e, f) ==
    /\ f \in Edits /\ Prepared(f)
    /\ editing' = [editing EXCEPT ![e] = f] /\ lists' = lists
    /\ edits' \in Nat /\ dbErrors' \in {dbErrors, dbErrors + 1}
    /\ f.at = "insert" => Cardinality(Existing) < PlaylistLimit
    /\ f.at = "push" => Copies(f.list, f.song) = 0 \/ dbErrors' = dbErrors + 1

LEMMA MovesOnly ==
  ASSUME PlaylistsInv, NEW e \in Editors, NEW f, MovesTo(e, f)
  PROVE  PlaylistsInv'
<1>0. /\ f \in Edits /\ Prepared(f)
      /\ editing' = [editing EXCEPT ![e] = f] /\ lists' = lists
      /\ edits' \in Nat /\ dbErrors' \in Nat /\ dbErrors' >= dbErrors
      /\ f.at = "insert" => Cardinality(Existing) < PlaylistLimit
      /\ f.at = "push" => Copies(f.list, f.song) = 0 \/ dbErrors' = dbErrors + 1
  BY DEF MovesTo, PlaylistsInv, PlaylistsType
<1>1. PlaylistsType
  BY DEF PlaylistsInv
<1>2. /\ Inserting' = IF f.at = "insert" THEN Inserting \cup {e} ELSE Inserting \ {e}
      /\ \A id, s : Pushing(id, s)' = IF f.at = "push" /\ f.list = id /\ f.song = s
                                    THEN Pushing(id, s) \cup {e} ELSE Pushing(id, s) \ {e}
      /\ editing' \in [Editors -> Edits] /\ \A a \in Editors : Prepared(editing'[a])
  BY <1>0, <1>1, EditorMoves
<1>3. PlaylistsType'
  BY <1>0, <1>1, <1>2 DEF PlaylistsType
<1>4. Existing' = Existing /\ \A id, s : Copies(id, s)' = Copies(id, s)
  BY <1>0 DEF Existing, Copies
<1>5. Cardinality(Existing') + Cardinality(Inserting') < PlaylistLimit + Cardinality(Editors)
  BY <1>0, <1>2, <1>3, <1>4, LimitKept
<1>6. ASSUME NEW id \in Existing', NEW s \in Songs
      PROVE  Copies(id, s)' + Cardinality(Pushing(id, s)') <= Cardinality(Editors) + dbErrors'
  <2>1. Copies(id, s) \in Nat
    BY <1>1, <1>4, ListTypes, CountedCopies DEF Copies
  <2>2. CASE ~(f.at = "push" /\ f.list = id /\ f.song = s)
    BY <1>0, <1>2, <1>3, <1>4, <2>1, <2>2, CopiesKept
  <2>3. CASE f.at = "push" /\ f.list = id /\ f.song = s /\ Copies(id, s) = 0
    BY <1>0, <1>3, <1>4, <2>3, CopiesKept
  <2>4. CASE f.at = "push" /\ f.list = id /\ f.song = s /\ dbErrors' = dbErrors + 1
    <3>1. Pushing(id, s)' = Pushing(id, s) \cup {e}
      BY <1>2, <2>4
    <3>2. /\ IsFiniteSet(Pushing(id, s)) /\ Cardinality(Pushing(id, s)) \in Nat
          /\ Cardinality(Editors) \in Nat
      BY Pushers, EditorsAreFew
    <3>3. Cardinality(Pushing(id, s)') <= Cardinality(Pushing(id, s)) + 1 /\ Cardinality(Pushing(id, s)') \in Nat
      <4>1. /\ IsFiniteSet(Pushing(id, s) \cup {e})
            /\ Cardinality(Pushing(id, s) \cup {e}) =
                   IF e \in Pushing(id, s) THEN Cardinality(Pushing(id, s)) ELSE Cardinality(Pushing(id, s)) + 1
        BY <3>2, FS_AddElement
      <4> QED
        BY <3>1, <3>2, <4>1
    <3>4. Copies(id, s) + Cardinality(Pushing(id, s)) <= Cardinality(Editors) + dbErrors
      BY <1>4 DEF PlaylistsInv, ListsAreLimited
    <3> QED
      BY <1>1, <1>4, <2>1, <2>4, <3>2, <3>3, <3>4 DEF PlaylistsType
  <2> QED
    BY <1>0, <2>2, <2>3, <2>4
<1> QED
  BY <1>3, <1>5, <1>6 DEF PlaylistsInv, ListsAreLimited

LEMMA RestsOnly ==
  ASSUME PlaylistsInv, NEW e \in Editors, EditorRests(e), lists' = lists,
         edits' \in Nat, dbErrors' \in {dbErrors, dbErrors + 1}
  PROVE  PlaylistsInv'
<1>1. MovesTo(e, Resting)
  BY DEF EditorRests, MovesTo, Resting, Edits, EditPlaces, Prepared
<1> QED
  BY <1>1, MovesOnly

LEMMA RestingIsPrepared == Resting \in Edits /\ Prepared(Resting) /\ Resting.at = "idle"
BY DEF Resting, Edits, EditPlaces, Prepared

\* A new playlist was accounted for by its editor, who was about to insert it.
LEMMA ListInserted ==
  ASSUME PlaylistsInv, NEW e \in Editors, EditorIs(e, "insert"), NEW f \in Edits, Prepared(f),
         editing' = [editing EXCEPT ![e] = f], lists' = Append(lists, <<>>),
         f.at \notin {"insert", "push"},
         edits' \in Nat, dbErrors' \in Nat, dbErrors' >= dbErrors
  PROVE  PlaylistsInv'
<1> DEFINE n == Len(lists) + 1
<1>1. PlaylistsType
  BY DEF PlaylistsInv
<1>2. /\ Inserting' = Inserting \ {e} /\ e \in Inserting
      /\ \A id, s : Pushing(id, s)' = Pushing(id, s) \ {e}
      /\ editing' \in [Editors -> Edits] /\ \A a \in Editors : Prepared(editing'[a])
  <2>1. e \in Inserting
    BY DEF Inserting
  <2>2. /\ Inserting' = IF f.at = "insert" THEN Inserting \cup {e} ELSE Inserting \ {e}
        /\ \A id, s : Pushing(id, s)' = IF f.at = "push" /\ f.list = id /\ f.song = s
                                      THEN Pushing(id, s) \cup {e} ELSE Pushing(id, s) \ {e}
        /\ editing' \in [Editors -> Edits] /\ \A a \in Editors : Prepared(editing'[a])
    BY <1>1, EditorMoves
  <2> QED
    BY <2>1, <2>2
<1>3. <<>> \in Seq(Songs) /\ <<>> # Gone /\ DOMAIN <<>> = {}
  BY DEF Gone
<1>4. lists' \in Seq(Seq(Songs) \cup {Gone})
  BY <1>1, <1>3 DEF PlaylistsType
<1>5. PlaylistsType'
  BY <1>1, <1>2, <1>4 DEF PlaylistsType
<1>6. /\ n \in Nat /\ n \notin Existing /\ lists'[n] = <<>> /\ Existing' = Existing \cup {n}
      /\ \A id \in Existing : lists'[id] = lists[id]
  BY <1>1, <1>3 DEF PlaylistsType, Existing
<1>7. Cardinality(Existing') + Cardinality(Inserting') < PlaylistLimit + Cardinality(Editors)
  <2>1. IsFiniteSet(Existing) /\ Cardinality(Existing) \in Nat
    BY <1>1, ListTypes
  <2>2. IsFiniteSet(Inserting) /\ Cardinality(Inserting) \in Nat
    BY EditorsAreFew DEF Inserting
  <2>3. Cardinality(Existing') = Cardinality(Existing) + 1
    BY <1>6, <2>1, FS_AddElement
  <2>4. Cardinality(Inserting') = Cardinality(Inserting) - 1
    BY <1>2, <2>2, FS_RemoveElement
  <2> QED
    BY <2>1, <2>2, <2>3, <2>4 DEF PlaylistsInv, ListsAreLimited
<1>8. ASSUME NEW id \in Existing', NEW s \in Songs
      PROVE  Copies(id, s)' + Cardinality(Pushing(id, s)') <= Cardinality(Editors) + dbErrors'
  <2>1. CASE id = n
    <3>1. KeptAt(lists'[id], {s}) = {}
      BY <1>3, <1>6, <2>1 DEF KeptAt
    <3>2. Copies(id, s)' = 0
      BY <3>1, FS_EmptySet DEF Copies
    <3> QED
      BY <1>5, <3>2, CopiesKept
  <2>2. CASE id \in Existing
    <3>1. Copies(id, s)' = Copies(id, s) /\ Copies(id, s) \in Nat
      BY <1>1, <1>6, <2>2, ListTypes, CountedCopies DEF Copies
    <3> QED
      BY <1>2, <1>5, <2>2, <3>1, CopiesKept
  <2> QED
    BY <1>6, <2>1, <2>2
<1> QED
  BY <1>5, <1>7, <1>8 DEF PlaylistsInv, ListsAreLimited

LEMMA BeginEditKeeps ==
  ASSUME PlaylistsInv, NEW e \in Editors, BeginEdit(e)
  PROVE  PlaylistsInv'
<1>1. PICK c \in Commands : editing' = [editing EXCEPT ![e] = c]
  BY DEF BeginEdit
<1>2. c \in Edits /\ Prepared(c) /\ c.at \in {"count", "find"}
  <2>1. DOMAIN lists \in SUBSET Nat
    BY DEF PlaylistsInv, PlaylistsType
  <2>2. CASE c = Create
    BY <2>2 DEF Create, Resting, Edits, EditPlaces, Prepared
  <2>3. ASSUME NEW s \in Songs, c = Save(s) PROVE c \in Edits /\ Prepared(c) /\ c.at = "count"
    BY <2>3 DEF Save, Resting, Edits, EditPlaces, Prepared
  <2>4. ASSUME NEW id \in DOMAIN lists, c = DeleteList(id)
        PROVE  c \in Edits /\ Prepared(c) /\ c.at = "find"
    BY <2>1, <2>4 DEF DeleteList, Resting, Edits, EditPlaces, Prepared
  <2>5. ASSUME NEW id \in DOMAIN lists, NEW s \in Songs, c = AddTo(id, s)
        PROVE  c \in Edits /\ Prepared(c) /\ c.at = "find"
    BY <2>1, <2>5 DEF AddTo, Resting, Edits, EditPlaces, Prepared
  <2>6. ASSUME NEW id \in DOMAIN lists, NEW i \in 1 .. 2, c = RemoveFrom(id, i)
        PROVE  c \in Edits /\ Prepared(c) /\ c.at = "find"
    <3>1. i \in Nat /\ id \in Nat
      BY <2>1
    <3>2. c = [at |-> "find", does |-> "remove", list |-> id, song |-> "", index |-> i]
      BY <2>6 DEF RemoveFrom, Resting
    <3> QED
      BY <3>1, <3>2 DEF Edits, EditPlaces, Prepared
  <2> QED
    BY <2>2, <2>3, <2>4, <2>5, <2>6 DEF Commands
<1>3. lists' = lists /\ dbErrors' = dbErrors /\ dbErrors \in Nat /\ edits' \in Nat
  BY DEF BeginEdit, PlaylistsInv, PlaylistsType
<1>4. MovesTo(e, c)
  BY <1>1, <1>2, <1>3 DEF MovesTo
<1> QED
  BY <1>4, MovesOnly

LEMMA CountKeeps ==
  ASSUME PlaylistsInv, NEW e \in Editors, Count(e)
  PROVE  PlaylistsInv'
<1>1. /\ lists' = lists /\ edits' = edits /\ dbErrors' = dbErrors /\ edits \in Nat /\ dbErrors \in Nat
      /\ editing[e] \in Edits /\ Prepared(editing[e]) /\ editing[e].at = "count"
  BY DEF Count, sameEdits, EditorIs, PlaylistsInv, PlaylistsType
<1>2. Cardinality(Existing) \in Nat /\ Existing \in SUBSET Nat
  BY ListTypes DEF PlaylistsInv
<1>3. CASE EditorRests(e)
  BY <1>1, <1>3, RestsOnly
<1>4. CASE EditorGoes(e, "insert") /\ Cardinality(Existing) < PlaylistLimit
  <2> DEFINE f == [editing[e] EXCEPT !.at = "insert"]
  <2>1. f \in Edits /\ Prepared(f) /\ f.at = "insert"
    BY <1>1 DEF Edits, EditPlaces, Prepared
  <2>2. editing' = [editing EXCEPT ![e] = f]
    BY <1>1, <1>4 DEF EditorGoes, PlaylistsInv, PlaylistsType
  <2> HIDE DEF f
  <2>9. MovesTo(e, f)
    BY <1>1, <1>4, <2>1, <2>2 DEF MovesTo
  <2> QED
    BY <2>9, MovesOnly
<1>5. ASSUME NEW id \in Existing, editing[e].does # "create",
             editing' = [editing EXCEPT ![e].at = "exists", ![e].list = id]
      PROVE  PlaylistsInv'
  <2> DEFINE f == [editing[e] EXCEPT !.at = "exists", !.list = id]
  <2>1. f \in Edits /\ Prepared(f) /\ f.at = "exists"
    BY <1>1, <1>2, <1>5 DEF Edits, EditPlaces, Prepared
  <2>2. editing' = [editing EXCEPT ![e] = f]
    BY <1>1, <1>5 DEF PlaylistsInv, PlaylistsType
  <2> HIDE DEF f
  <2>9. MovesTo(e, f)
    BY <1>1, <2>1, <2>2 DEF MovesTo
  <2> QED
    BY <2>9, MovesOnly
<1>6. \/ EditorRests(e)
      \/ EditorGoes(e, "insert") /\ Cardinality(Existing) < PlaylistLimit
      \/ /\ editing[e].does # "create"
         /\ \E id \in Existing : editing' = [editing EXCEPT ![e].at = "exists", ![e].list = id]
  <2>1. Existing = {} => Cardinality(Existing) < PlaylistLimit
    BY FS_EmptySet, PlaylistAssumption
  <2>2. Cardinality(Existing) >= PlaylistLimit \/ Cardinality(Existing) < PlaylistLimit
    BY <1>2, PlaylistAssumption
  <2> QED
    BY <2>1, <2>2 DEF Count
<1> QED
  BY <1>3, <1>4, <1>5, <1>6

LEMMA FindKeeps ==
  ASSUME PlaylistsInv, NEW e \in Editors, Find(e)
  PROVE  PlaylistsInv'
<1>1. /\ lists' = lists /\ edits' = edits /\ dbErrors' = dbErrors /\ edits \in Nat /\ dbErrors \in Nat
      /\ editing[e] \in Edits /\ Prepared(editing[e]) /\ editing[e].at = "find"
      /\ editing \in [Editors -> Edits]
  BY DEF Find, sameEdits, EditorIs, PlaylistsInv, PlaylistsType
<1>2. CASE EditorRests(e)
  BY <1>1, <1>2, RestsOnly
<1>3. CASE EditorGoes(e, "delete") \/ (editing[e].does = "add" /\ EditorGoes(e, "exists"))
  <2>1. PICK place \in {"delete", "exists"} :
           EditorGoes(e, place) /\ (place = "exists" => editing[e].does = "add")
    BY <1>3
  <2> DEFINE f == [editing[e] EXCEPT !.at = place]
  <2>2. f \in Edits /\ Prepared(f) /\ f.at = place
    BY <1>1, <2>1 DEF Edits, EditPlaces, Prepared
  <2>3. editing' = [editing EXCEPT ![e] = f]
    BY <1>1, <2>1 DEF EditorGoes
  <2> HIDE DEF f
  <2>9. MovesTo(e, f)
    BY <1>1, <2>1, <2>2, <2>3 DEF MovesTo
  <2> QED
    BY <2>9, MovesOnly
<1>4. ASSUME NEW s \in Songs, editing' = [editing EXCEPT ![e].at = "exists", ![e].song = s]
      PROVE  PlaylistsInv'
  <2> DEFINE f == [editing[e] EXCEPT !.at = "exists", !.song = s]
  <2>1. f \in Edits /\ Prepared(f) /\ f.at = "exists"
    BY <1>1 DEF Edits, EditPlaces, Prepared
  <2>2. editing' = [editing EXCEPT ![e] = f]
    BY <1>1, <1>4
  <2> HIDE DEF f
  <2>9. MovesTo(e, f)
    BY <1>1, <2>1, <2>2 DEF MovesTo
  <2> QED
    BY <2>9, MovesOnly
<1>5. \/ EditorRests(e)
      \/ EditorGoes(e, "delete") \/ (editing[e].does = "add" /\ EditorGoes(e, "exists"))
      \/ \E s \in Songs : editing' = [editing EXCEPT ![e].at = "exists", ![e].song = s]
  <2>1. editing[e].does \in {"delete", "remove", "add"}
    BY <1>1 DEF Prepared
  <2>2. ASSUME editing[e].list \in Existing, editing[e].index \in DOMAIN lists[editing[e].list]
        PROVE  lists[editing[e].list][editing[e].index] \in Songs
    <3>1. lists[editing[e].list] \in Seq(Songs)
      BY <2>2, ListTypes DEF PlaylistsInv
    <3> QED
      BY <2>2, <3>1
  <2>3. CASE editing[e].list \notin Existing
    BY <2>3 DEF Find
  <2>4. CASE editing[e].list \in Existing /\ editing[e].does = "delete"
    BY <2>4 DEF Find
  <2>5. CASE editing[e].list \in Existing /\ editing[e].does = "add"
    BY <2>5 DEF Find
  <2>6. CASE editing[e].list \in Existing /\ editing[e].does = "remove"
    BY <2>2, <2>6 DEF Find
  <2> QED
    BY <2>1, <2>3, <2>4, <2>5, <2>6
<1> QED
  BY <1>2, <1>3, <1>4, <1>5

LEMMA ExistsKeeps ==
  ASSUME PlaylistsInv, NEW e \in Editors, Exists(e)
  PROVE  PlaylistsInv'
<1>1. /\ lists' = lists /\ edits' = edits /\ edits \in Nat /\ dbErrors \in Nat
      /\ dbErrors' \in {dbErrors, dbErrors + 1}
      /\ editing[e] \in Edits /\ Prepared(editing[e]) /\ editing[e].at = "exists"
      /\ editing \in [Editors -> Edits]
  BY DEF Exists, sameEdits, EditorIs, PlaylistsInv, PlaylistsType
<1>2. CASE EditorRests(e)
  BY <1>1, <1>2, RestsOnly
<1>3. ASSUME NEW place \in {"pull", "push"}, EditorGoes(e, place),
             place = "push" => Copies(editing[e].list, editing[e].song) = 0 \/ dbErrors' = dbErrors + 1
      PROVE  PlaylistsInv'
  <2> DEFINE f == [editing[e] EXCEPT !.at = place]
  <2>1. /\ f \in Edits /\ Prepared(f) /\ f.at = place
        /\ f.list = editing[e].list /\ f.song = editing[e].song
    BY <1>1 DEF Edits, EditPlaces, Prepared
  <2>2. editing' = [editing EXCEPT ![e] = f]
    BY <1>1, <1>3 DEF EditorGoes
  <2> HIDE DEF f
  <2>9. MovesTo(e, f)
    BY <1>1, <1>3, <2>1, <2>2 DEF MovesTo
  <2> QED
    BY <2>9, MovesOnly
<1>4. \/ EditorRests(e) \/ EditorGoes(e, "pull")
      \/ /\ EditorGoes(e, "push")
         /\ Copies(editing[e].list, editing[e].song) = 0 \/ dbErrors' = dbErrors + 1
  <2> DEFINE c == Copies(editing[e].list, editing[e].song)
  <2>1. c \in Nat
    BY ListTypes, CountedCopies DEF Copies, PlaylistsInv
  <2>2. c = 0 \/ c > 0
    BY <2>1
  <2> QED
    BY <2>2 DEF Exists
<1> QED
  BY <1>2, <1>3, <1>4

LEMMA InsertKeeps ==
  ASSUME PlaylistsInv, NEW e \in Editors, Insert(e)
  PROVE  PlaylistsInv'
<1>1. /\ edits' \in Nat /\ dbErrors' \in Nat /\ dbErrors' >= dbErrors
      /\ EditorIs(e, "insert") /\ lists' = Append(lists, <<>>)
      /\ editing[e] \in Edits /\ Prepared(editing[e]) /\ editing[e].at = "insert"
      /\ editing \in [Editors -> Edits] /\ Len(lists) \in Nat
  BY DEF Insert, sameEdits, EditorIs, PlaylistsInv, PlaylistsType
<1>2. CASE editing[e].does = "create"
  <2>1. editing' = [editing EXCEPT ![e] = Resting]
    BY <1>2 DEF Insert, EditorRests
  <2> QED
    BY <1>1, <2>1, RestingIsPrepared, ListInserted
<1>3. CASE editing[e].does # "create"
  <2> DEFINE n == Len(lists) + 1
             f == [editing[e] EXCEPT !.at = "exists", !.list = n]
  <2>0. n \in Nat
    BY <1>1
  <2>2. editing' = [editing EXCEPT ![e] = f]
    BY <1>1, <1>3 DEF Insert
  <2> HIDE DEF n
  <2>1. f \in Edits /\ Prepared(f) /\ f.at = "exists"
    BY <1>1, <1>3, <2>0 DEF Edits, EditPlaces, Prepared
  <2> HIDE DEF f
  <2>3. f.at \notin {"insert", "push"}
    BY <2>1
  <2> QED
    BY <1>1, <2>1, <2>2, <2>3, ListInserted
<1> QED
  BY <1>2, <1>3

LEMMA EditFailsKeeps ==
  ASSUME PlaylistsInv, NEW e \in Editors, EditFails(e)
  PROVE  PlaylistsInv'
<1>1. /\ edits' \in Nat /\ dbErrors' \in Nat /\ dbErrors' >= dbErrors
      /\ dbErrors' \in {dbErrors, dbErrors + 1} /\ EditorRests(e)
  BY DEF EditFails, PlaylistsInv, PlaylistsType
<1>2. CASE lists' = lists
  BY <1>1, <1>2, RestsOnly
<1>3. CASE EditorIs(e, "insert") /\ lists' = Append(lists, <<>>)
  <2>1. editing' = [editing EXCEPT ![e] = Resting] /\ Resting.at \notin {"insert", "push"}
    BY <1>1, RestingIsPrepared DEF EditorRests
  <2> QED
    BY <1>1, <1>3, <2>1, RestingIsPrepared, ListInserted
<1> QED
  BY <1>2, <1>3 DEF EditFails

\* What a step shows that changes one list, or takes it away, and ends its
\* editor's command: no song gains copies but the one that the editor pushes.
LEMMA ListChanged ==
  ASSUME PlaylistsInv, NEW e \in Editors, EditorRests(e), UNCHANGED <<edits, dbErrors>>,
         NEW list \in Seq(Songs) \cup {Gone}, NEW id \in Existing,
         lists' = [lists EXCEPT ![id] = list],
         list # Gone => \A s \in Songs :
             Cardinality(KeptAt(list, {s})) <= Cardinality(KeptAt(lists[id], {s}))
                 + IF e \in Pushing(id, s) THEN 1 ELSE 0
  PROVE  PlaylistsInv'
<1>1. PlaylistsType /\ id \in DOMAIN lists /\ lists[id] \in Seq(Songs) /\ dbErrors \in Nat
  BY ListTypes DEF PlaylistsInv, Existing, PlaylistsType
<1>2. Resting \in Edits /\ Prepared(Resting) /\ Resting.at = "idle"
      /\ editing' = [editing EXCEPT ![e] = Resting]
  BY RestingIsPrepared DEF EditorRests
<1>3. /\ Inserting' = IF Resting.at = "insert" THEN Inserting \cup {e} ELSE Inserting \ {e}
      /\ \A i, s : Pushing(i, s)' = IF Resting.at = "push" /\ Resting.list = i /\ Resting.song = s
                                   THEN Pushing(i, s) \cup {e} ELSE Pushing(i, s) \ {e}
      /\ editing' \in [Editors -> Edits] /\ \A a \in Editors : Prepared(editing'[a])
  BY <1>1, <1>2, EditorMoves
<1>4. Inserting' = Inserting \ {e} /\ \A i, s : Pushing(i, s)' = Pushing(i, s) \ {e}
  BY <1>2, <1>3
<1>5. lists' \in Seq(Seq(Songs) \cup {Gone}) /\ DOMAIN lists' = DOMAIN lists
      /\ lists'[id] = list /\ \A i \in DOMAIN lists \ {id} : lists'[i] = lists[i]
  BY <1>1 DEF PlaylistsType
<1>6. PlaylistsType'
  BY <1>1, <1>3, <1>5 DEF PlaylistsType
<1>7. Existing' \subseteq Existing
  BY <1>5 DEF Existing
<1>8. Cardinality(Existing') + Cardinality(Inserting') < PlaylistLimit + Cardinality(Editors)
  BY <1>4, <1>6, <1>7, LimitKept
<1>9. ASSUME NEW i \in Existing', NEW s \in Songs
      PROVE  Copies(i, s)' + Cardinality(Pushing(i, s)') <= Cardinality(Editors) + dbErrors'
  <2>1. CASE i # id
    <3>1. Copies(i, s)' = Copies(i, s) /\ Copies(i, s) \in Nat /\ i \in Existing
      BY <1>1, <1>5, <1>7, <2>1, ListTypes, CountedCopies DEF Copies, Existing
    <3> QED
      BY <1>1, <1>4, <1>6, <3>1, CopiesKept
  <2>2. CASE i = id
    <3>1. /\ list # Gone /\ list \in Seq(Songs)
          /\ Copies(i, s)' = Cardinality(KeptAt(list, {s}))
          /\ Copies(i, s) = Cardinality(KeptAt(lists[id], {s}))
          /\ Cardinality(KeptAt(list, {s})) \in Nat /\ Cardinality(KeptAt(lists[id], {s})) \in Nat
      <4>1. list # Gone
        BY <1>5, <2>2 DEF Existing
      <4> QED
        BY <1>1, <1>5, <2>2, <4>1, CountedCopies DEF Copies
    <3>2. CASE e \notin Pushing(i, s)
      <4>1. Copies(i, s)' <= Copies(i, s)
        BY <2>2, <3>1, <3>2
      <4> QED
        BY <1>1, <1>4, <1>6, <2>2, <4>1, CopiesKept
    <3>3. CASE e \in Pushing(i, s)
      <4>1. /\ IsFiniteSet(Pushing(i, s)) /\ Cardinality(Pushing(i, s)) \in Nat
            /\ Cardinality(Editors) \in Nat
        BY Pushers, EditorsAreFew
      <4>2. Cardinality(Pushing(i, s)') = Cardinality(Pushing(i, s)) - 1
        BY <1>4, <3>3, <4>1, FS_RemoveElement
      <4>3. Copies(i, s)' <= Copies(i, s) + 1
        BY <2>2, <3>1, <3>3
      <4>4. Copies(i, s) + Cardinality(Pushing(i, s)) <= Cardinality(Editors) + dbErrors
        BY <2>2 DEF PlaylistsInv, ListsAreLimited
      <4> QED
        BY <1>1, <3>1, <4>1, <4>2, <4>3, <4>4
    <3> QED
      BY <3>2, <3>3
  <2> QED
    BY <2>1, <2>2
<1> QED
  BY <1>6, <1>8, <1>9 DEF PlaylistsInv, ListsAreLimited

LEMMA DeleteKeeps ==
  ASSUME PlaylistsInv, NEW e \in Editors, Delete(e)
  PROVE  PlaylistsInv'
<1> DEFINE id == editing[e].list
<1>1. /\ EditorRests(e) /\ UNCHANGED <<edits, dbErrors>> /\ edits \in Nat /\ dbErrors \in Nat
      /\ lists' = [lists EXCEPT ![id] = Gone]
  BY DEF Delete, sameEdits, PlaylistsInv, PlaylistsType
<1>2. CASE id \in Existing
  <2> HIDE DEF id
  <2> QED
    BY <1>1, <1>2, ListChanged
<1>3. CASE id \notin Existing
  <2>1. lists' = lists
    BY <1>1, <1>3 DEF Existing, PlaylistsInv, PlaylistsType
  <2> QED
    BY <1>1, <2>1, RestsOnly
<1> QED
  BY <1>2, <1>3

LEMMA PushKeeps ==
  ASSUME PlaylistsInv, NEW e \in Editors, Push(e)
  PROVE  PlaylistsInv'
<1> DEFINE id == editing[e].list
           song == editing[e].song
           list == Append(lists[id], song)
<1>1. /\ EditorRests(e) /\ UNCHANGED <<edits, dbErrors>> /\ edits \in Nat /\ dbErrors \in Nat
      /\ song \in Songs /\ \A s : s = song => e \in Pushing(id, s)
  BY DEF Push, sameEdits, PlaylistsInv, PlaylistsType, EditorIs, Prepared, Pushing
<1>2. CASE id \in Existing
  <2>1. lists' = [lists EXCEPT ![id] = list]
    BY <1>2 DEF Push
  <2>2. lists[id] \in Seq(Songs)
    BY <1>2, ListTypes DEF PlaylistsInv
  <2>3. list \in Seq(Songs)
    BY <1>1, <2>2
  <2>4. ASSUME NEW s \in Songs
        PROVE  Cardinality(KeptAt(list, {s})) <= Cardinality(KeptAt(lists[id], {s}))
                   + IF e \in Pushing(id, s) THEN 1 ELSE 0
    <3> HIDE DEF id, song
    <3>1. /\ Cardinality(KeptAt(list, {s})) =
                 Cardinality(KeptAt(lists[id], {s})) + (IF s = song THEN 1 ELSE 0)
          /\ Cardinality(KeptAt(lists[id], {s})) \in Nat
      BY <1>1, <2>2, CopiesAppended, CountedCopies
    <3> HIDE DEF list
    <3> QED
      BY <1>1, <3>1
  <2> HIDE DEF list, id, song
  <2> QED
    BY <1>1, <1>2, <2>1, <2>3, <2>4, ListChanged
<1>3. CASE id \notin Existing
  BY <1>1, <1>3, RestsOnly DEF Push
<1> QED
  BY <1>2, <1>3

LEMMA PullKeeps ==
  ASSUME PlaylistsInv, NEW e \in Editors, Pull(e)
  PROVE  PlaylistsInv'
<1> DEFINE id == editing[e].list
           list == Keep(lists[id], Songs \ {editing[e].song})
<1>1. EditorRests(e) /\ UNCHANGED <<edits, dbErrors>> /\ edits \in Nat /\ dbErrors \in Nat
  BY DEF Pull, sameEdits, PlaylistsInv, PlaylistsType
<1>2. CASE id \in Existing
  <2>1. lists' = [lists EXCEPT ![id] = list]
    BY <1>2 DEF Pull
  <2>2. lists[id] \in Seq(Songs)
    BY <1>2, ListTypes DEF PlaylistsInv
  <2>3. list \in Seq(Songs)
    BY <2>2, CopiesPulled
  <2>4. ASSUME NEW s \in Songs
        PROVE  Cardinality(KeptAt(list, {s})) <= Cardinality(KeptAt(lists[id], {s}))
                   + IF e \in Pushing(id, s) THEN 1 ELSE 0
    <3> HIDE DEF id
    <3>1. /\ Cardinality(KeptAt(list, {s})) <= Cardinality(KeptAt(lists[id], {s}))
          /\ Cardinality(KeptAt(lists[id], {s})) \in Nat /\ Cardinality(KeptAt(list, {s})) \in Nat
      BY <2>2, <2>3, CopiesPulled, CountedCopies
    <3> HIDE DEF list
    <3> QED
      BY <3>1
  <2> HIDE DEF list, id
  <2> QED
    BY <1>1, <1>2, <2>1, <2>3, <2>4, ListChanged
<1>3. CASE id \notin Existing
  BY <1>1, <1>3, RestsOnly DEF Pull
<1> QED
  BY <1>2, <1>3

LEMMA PlaylistsNextInv ==
  ASSUME PlaylistsInv, [PlaylistsNext]_playlistVars
  PROVE  PlaylistsInv'
<1>1. CASE UNCHANGED playlistVars
  BY <1>1 DEF playlistVars, PlaylistsInv, PlaylistsType, ListsAreLimited, Existing, Inserting,
     Pushing, Copies, EditorIs
<1> QED
  BY <1>1, BeginEditKeeps, CountKeeps, InsertKeeps, FindKeeps, DeleteKeeps, ExistsKeeps, PushKeeps,
     PullKeeps, EditFailsKeeps DEF PlaylistsNext

-----------------------------------------------------------------------------
(* The rights of a chat.  What a cache shows follows from what every        *)
(* goroutine holds: a value that was read and not overtaken is the source's *)
(* or the entry's, and of two updates about an account the newer one counts.*)

RightsPlaces ==
    {"idle", "get", "read", "fill", "lookup", "allowed", "denied", "target", "write", "drop", "put",
     "clear", "rebuild", "restore"}
Nexts == {"bot", "mode", "member", "authorized", "sender", "listed", "known", "write", "done"}
Things == Users \cup Tracked \cup Settings \cup {"on"}
Value == {Nothing} \cup {<<S>> : S \in SUBSET Things}
Change == [who : Tracked, is : BOOLEAN, n : Nat]
Handled == Requests \cup {Request("none", None, None)} \cup {Request("update", u.who, u) : u \in Change}
Frame == [at : RightsPlaces, req : Handled, s : Stores, next : Nexts, val : Value, old : BOOLEAN]

\* What a place, and a value that is asked for, say of the request and the cache.
Fits(f) ==
    /\ f.at \in {"rebuild", "restore"} <=> f.req.does = "update"
    /\ f.next = "sender" => f.req.does \in {"settings", "toggle", "addauth", "removeauth"}
    /\ f.next = "listed" \/ f.at = "target" => f.req.does \in {"addauth", "removeauth"}
    /\ f.next = "known" => f.req.does = "addchat"
    /\ f.next = "write" => f.req.does \in {"toggle", "logger"} /\ f.s \in {"chat", "logger"}
    /\ f.at = "write" => f.req.does \in {"addauth", "removeauth", "toggle", "logger", "addchat"}
    /\ f.at = "write" /\ f.req.does = "addchat" => f.s = "chat"
    /\ f.at \in {"write", "drop"} => f.s # "admins"
    /\ f.at = "put" => f.s = "logger"
    /\ f.at \in {"rebuild", "restore"} => f.s = "admins"

RightsType ==
    /\ source \in [Stores -> Value] /\ entry \in [Stores -> Value] /\ races \subseteq Stores
    /\ handling \in [Goroutines -> Frame] /\ \A g \in Goroutines : Fits(handling[g])
    /\ events \in Nat /\ mishaps \in Nat
    /\ updates \in SUBSET Change /\ latest \in [Tracked -> Nat]

\* Who was not overtaken holds what the source has, or what the entry makes of it.
HoldsTruth(f) ==
    /\ f.at \in Holders /\ ~f.old => f.val = source[f.s]
    /\ f.at = "restore" /\ ~f.old => /\ entry["admins"] # Nothing
                                     /\ f.val = Rebuilt(entry["admins"], f.req.what)

\* A change that has not come to be the latest, or is under way.
Unseen(u) == u \in updates \/ \E g \in Goroutines : At(g, "rebuild") /\ Req(g).what = u
UnderWay(u) == Unseen(u) \/ \E g \in Goroutines : At(g, "restore") /\ Req(g).what = u

\* A change of an administrator tells the truth unless there is a newer one.
Superseded(u) == u.n < latest[u.who] \/ \E v \in Change : Unseen(v) /\ v.who = u.who /\ u.n < v.n
NewestTellsTruth ==
    \A u \in Change : UnderWay(u) =>
        /\ u.n <= events
        /\ u.is = Has(source["admins"], u.who) \/ Superseded(u)

RightsInv ==
    /\ RightsType
    /\ \A g \in Goroutines : HoldsTruth(handling[g])
    /\ NewestTellsTruth
    /\ EntriesTellTheTruth

\* The requests that a command can make.
LEMMA RequestKinds ==
  ASSUME NEW r \in Requests
  PROVE  \/ \E d \in {"start", "authlist", "settings"}, u \in Users : r = Request(d, u, None)
         \/ \E d \in {"addauth", "removeauth"}, u \in Users, v \in Users : r = Request(d, u, v)
         \/ \E u \in Users, w \in Settings : r = Request("toggle", u, w)
         \/ \E w \in {"on", "off"} : r = Request("logger", "dev", w)
         \/ \E d \in {"reload", "addchat", "listchats"} : r = Request(d, "anyone", None)
  BY DEF Requests

LEMMA RequestFields ==
  ASSUME NEW r \in Requests
  PROVE  /\ r.does \in {"start", "authlist", "settings", "addauth", "removeauth", "toggle", "logger",
                        "reload", "addchat", "listchats"}
         /\ r.does \in {"addauth", "removeauth"} => r.what \in Users
         /\ r.does = "toggle" => r.what \in Settings
<1>1. CASE \E d \in {"start", "authlist", "settings"}, u \in Users : r = Request(d, u, None)
  BY <1>1 DEF Request
<1>2. CASE \E d \in {"addauth", "removeauth"}, u \in Users, v \in Users : r = Request(d, u, v)
  BY <1>2 DEF Request
<1>3. CASE \E u \in Users, w \in Settings : r = Request("toggle", u, w)
  BY <1>3 DEF Request
<1>4. CASE \E w \in {"on", "off"} : r = Request("logger", "dev", w)
  BY <1>4 DEF Request
<1>5. CASE \E d \in {"reload", "addchat", "listchats"} : r = Request(d, "anyone", None)
  BY <1>5 DEF Request
<1> QED
  BY <1>1, <1>2, <1>3, <1>4, <1>5, RequestKinds

LEMMA HandledFields ==
  ASSUME NEW r \in Handled
  PROVE  /\ r.does = "update" => r.what \in Change /\ r.by = r.what.who
         /\ r.does \in {"addauth", "removeauth"} => r.what \in Users
         /\ r.does = "toggle" => r.what \in Settings
<1>1. CASE r \in Requests
  BY <1>1, RequestFields
<1>2. CASE r = Request("none", None, None)
  BY <1>2 DEF Request
<1>3. CASE \E u \in Change : r = Request("update", u.who, u)
  BY <1>3 DEF Request
<1> QED
  BY <1>1, <1>2, <1>3 DEF Handled

LEMMA AskedFacts ==
  ASSUME NEW r \in Asked
  PROVE  /\ r \in Handled
         /\ r.does \in {"start", "authlist", "settings", "addauth", "removeauth", "toggle", "logger",
                        "reload", "addchat", "listchats"}
<1>1. r \in Requests
  BY AskedAssumption
<1> QED
  BY <1>1, RequestFields DEF Handled

LEMMA IdleFacts == /\ Idle \in Frame /\ Idle.at = "idle" /\ Idle.s = "chat" /\ Idle.next = "done"
                   /\ Idle.req.does = "none" /\ Fits(Idle)
  BY DEF Idle, Frame, RightsPlaces, Handled, Request, Stores, Nexts, Value, Fits

LEMMA FrameFacts ==
  ASSUME NEW f \in Frame
  PROVE  /\ f.at \in RightsPlaces /\ f.req \in Handled /\ f.s \in Stores /\ f.next \in Nexts
         /\ f.val \in Value /\ f.old \in BOOLEAN
  BY DEF Frame

LEMMA AskingFacts ==
  ASSUME NEW f \in Frame, NEW s \in Stores, NEW n \in Nexts
  PROVE  LET q == Asking(f, s, n) IN
         q \in Frame /\ q.at = "get" /\ q.req = f.req /\ q.s = s /\ q.next = n
<1>1. "get" \in RightsPlaces /\ Nothing \in Value
  BY DEF RightsPlaces, Value
<1> QED
  BY <1>1 DEF Asking, Frame

LEMMA ConcludedFacts ==
  ASSUME NEW f \in Frame, NEW p \in RightsPlaces
  PROVE  LET q == Concluded(f, p) IN
         q \in Frame /\ q.at = p /\ q.req = f.req /\ q.s = "chat" /\ q.next = "done"
<1> QED
  BY IdleFacts DEF Concluded, Frame

LEMMA ConcludedWrite ==
  ASSUME NEW f \in Frame, NEW p \in RightsPlaces, NEW s \in Stores
  PROVE  LET q == [Concluded(f, p) EXCEPT !.s = s] IN
         q \in Frame /\ q.at = p /\ q.req = f.req /\ q.s = s /\ q.next = "done"
  BY ConcludedFacts DEF Frame

\* Where a goroutine is with what it asked for.
RestPlaces == {"idle", "get", "lookup", "allowed", "denied", "target", "write"}
Rests(f) == f \in Frame /\ Fits(f) /\ f.at \in RestPlaces

LEMMA IdleRests == Rests(Idle)
  BY IdleFacts DEF Rests, RestPlaces

LEMMA AskingRests ==
  ASSUME NEW f \in Frame, NEW s \in Stores, NEW n \in Nexts, f.req.does # "update",
         n = "sender" => f.req.does \in {"settings", "toggle", "addauth", "removeauth"},
         n = "listed" => f.req.does \in {"addauth", "removeauth"},
         n = "known" => f.req.does = "addchat",
         n = "write" => f.req.does \in {"toggle", "logger"} /\ s \in {"chat", "logger"}
  PROVE  Rests(Asking(f, s, n))
  BY AskingFacts DEF Rests, RestPlaces, Fits

LEMMA ConcludedRests ==
  ASSUME NEW f \in Frame, NEW p \in RestPlaces, f.req.does # "update",
         p = "target" => f.req.does \in {"addauth", "removeauth"},
         p = "write" => f.req.does \in {"addauth", "removeauth", "toggle", "logger", "addchat"}
  PROVE  Rests(Concluded(f, p))
<1>1. p \in RightsPlaces
  BY DEF RestPlaces, RightsPlaces
<1> QED
  BY <1>1, ConcludedFacts DEF Rests, RestPlaces, Fits

LEMMA AuthWriteRests ==
  ASSUME NEW f \in Frame, f.req.does \in {"addauth", "removeauth"}
  PROVE  Rests([Concluded(f, "write") EXCEPT !.s = "auth"])
<1>1. "write" \in RightsPlaces /\ "auth" \in Stores
  BY DEF RightsPlaces, Stores
<1> QED
  BY <1>1, ConcludedWrite DEF Rests, RestPlaces, Fits

\* What is made of a value that was asked for.
LEMMA GotRests ==
  ASSUME NEW f \in Frame, Fits(f), f.at \in {"get", "read", "fill"}, NEW v \in Value
  PROVE  Rests(Got(f, v))
<1> DEFINE q == Got(f, v)
<1>1. /\ f.req.does # "update" /\ f.next \in Nexts /\ f.s \in Stores
      /\ {"chat", "admins", "auth"} \subseteq Stores
      /\ {"mode", "member", "write", "done"} \subseteq Nexts
      /\ {"denied", "allowed", "lookup", "target", "write"} \subseteq RestPlaces
  BY FrameFacts DEF Fits, Stores, Nexts, RestPlaces
<1>2. CASE f.next = "bot"
  <2>1. q \in {Asking(f, "chat", "mode"), Concluded(f, "denied")}
    BY <1>2 DEF Got
  <2> QED
    BY <1>1, <2>1, AskingRests, ConcludedRests
<1>3. CASE f.next = "mode"
  <2>1. q \in {Concluded(f, "allowed"), Asking(f, "admins", "member"), Concluded(f, "lookup")}
    BY <1>3 DEF Got
  <2> QED
    BY <1>1, <2>1, AskingRests, ConcludedRests
<1>4. CASE f.next \in {"member", "authorized"}
  <2>1. q \in {Concluded(f, "allowed"), Concluded(f, "lookup"), Concluded(f, "denied")}
    BY <1>4 DEF Got
  <2> QED
    BY <1>1, <2>1, ConcludedRests
<1>5. CASE f.next = "sender"
  <2>1. f.req.does \in {"settings", "toggle", "addauth", "removeauth"}
    BY <1>5 DEF Fits
  <2>2. \/ q = Idle
        \/ f.req.does = "settings" /\ q = Asking(f, "chat", "done")
        \/ f.req.does = "toggle" /\ q = Asking(f, "chat", "write")
        \/ f.req.does \in {"addauth", "removeauth"} /\ q = Concluded(f, "target")
    BY <1>5, <2>1 DEF Got, FromAdministrator
  <2>3. Rests(Asking(f, "chat", "done"))
    BY <1>1, AskingRests
  <2>4. CASE q = Idle
    BY <2>4, IdleRests
  <2>5. CASE f.req.does = "toggle" /\ q = Asking(f, "chat", "write")
    BY <1>1, <2>5, AskingRests
  <2>6. CASE f.req.does \in {"addauth", "removeauth"} /\ q = Concluded(f, "target")
    BY <1>1, <2>6, ConcludedRests
  <2> QED
    BY <2>2, <2>3, <2>4, <2>5, <2>6
<1>6. CASE f.next = "listed"
  <2>1. f.req.does \in {"addauth", "removeauth"}
    BY <1>6 DEF Fits
  <2>2. q \in {[Concluded(f, "write") EXCEPT !.s = "auth"], Idle}
    BY <1>6 DEF Got
  <2> QED
    BY <2>1, <2>2, AuthWriteRests, IdleRests
<1>7. CASE f.next = "known"
  <2>1. f.req.does = "addchat"
    BY <1>7 DEF Fits
  <2>2. q \in {Concluded(f, "write"), Idle}
    BY <1>7 DEF Got
  <2> QED
    BY <1>1, <2>1, <2>2, ConcludedRests, IdleRests
<1>8. CASE f.next = "write"
  <2>1. f.req.does \in {"toggle", "logger"} /\ f.s \in {"chat", "logger"}
    BY <1>8 DEF Fits
  <2>2. q = [f EXCEPT !.at = "write", !.val = v] /\ "write" \in RightsPlaces
    BY <1>8 DEF Got, RightsPlaces
  <2>3. q \in Frame /\ q.at = "write" /\ q.req = f.req /\ q.s = f.s /\ q.next = "write"
    BY <1>8, <2>2 DEF Frame
  <2> HIDE DEF q
  <2>4. q.req.does \in {"toggle", "logger"} /\ q.s \in {"chat", "logger"}
    BY <2>1, <2>3
  <2>5. Fits(q)
    BY <2>3, <2>4 DEF Fits
  <2> QED
    BY <2>3, <2>5 DEF Rests, RestPlaces, q
<1>9. CASE f.next = "done"
  BY <1>9, IdleRests DEF Got
<1> QED
  BY <1>1, <1>2, <1>3, <1>4, <1>5, <1>6, <1>7, <1>8, <1>9 DEF Nexts

-----------------------------------------------------------------------------
(* Steps of a goroutine. *)

\* Goroutine g becomes f; others may have been overtaken.
Turns(g, f) ==
    /\ handling' \in [Goroutines -> Frame] /\ handling'[g] = f
    /\ \A h \in Goroutines \ {g} :
           \/ handling'[h] = handling[h]
           \/ handling'[h] = [handling[h] EXCEPT !.old = TRUE]

LEMMA OldFacts ==
  ASSUME NEW f \in Frame
  PROVE  LET q == [f EXCEPT !.old = TRUE] IN
         /\ q \in Frame /\ q.at = f.at /\ q.req = f.req /\ q.s = f.s /\ q.next = f.next
         /\ q.val = f.val /\ q.old
  BY DEF Frame

LEMMA Turned ==
  ASSUME RightsType, NEW g \in Goroutines, NEW f \in Frame, handling' = [handling EXCEPT ![g] = f]
  PROVE  Turns(g, f) /\ \A h \in Goroutines \ {g} : handling'[h] = handling[h]
  BY DEF RightsType, Turns

LEMMA Overtaking ==
  ASSUME RightsType, NEW s, NEW places
  PROVE  LET fs == Overtaken(handling, s, places) IN
         /\ fs \in [Goroutines -> Frame]
         /\ \A h \in Goroutines : fs[h] = IF handling[h].s = s /\ handling[h].at \in places
                                          THEN [handling[h] EXCEPT !.old = TRUE] ELSE handling[h]
  BY OldFacts DEF Overtaken, RightsType

\* Of these goroutines, those who hold a value of s in these places are overtaken.
Ages(G, s, places) ==
    \A h \in G :
        handling'[h] = IF handling[h].s = s /\ handling[h].at \in places
                       THEN [handling[h] EXCEPT !.old = TRUE] ELSE handling[h]

LEMMA OvertakingTurns ==
  ASSUME RightsType, NEW s, NEW places, NEW g \in Goroutines, NEW f \in Frame,
         handling' = [Overtaken(handling, s, places) EXCEPT ![g] = f]
  PROVE  Turns(g, f) /\ Ages(Goroutines \ {g}, s, places)
<1> DEFINE fs == Overtaken(handling, s, places)
<1>1. fs \in [Goroutines -> Frame]
  BY Overtaking
<1>2. \A h \in Goroutines : fs[h] = IF handling[h].s = s /\ handling[h].at \in places
                                   THEN [handling[h] EXCEPT !.old = TRUE] ELSE handling[h]
  BY Overtaking
<1>3. handling' = [fs EXCEPT ![g] = f]
  OBVIOUS
<1> HIDE DEF fs
<1>4. /\ handling' \in [Goroutines -> Frame] /\ handling'[g] = f
      /\ \A h \in Goroutines \ {g} : handling'[h] = fs[h]
  BY <1>1, <1>3
<1> QED
  BY <1>2, <1>4 DEF Turns, Ages

\* In such a turn, places and requests of the others stay.
LEMMA OthersStay ==
  ASSUME RightsType, NEW g \in Goroutines, NEW f, Turns(g, f), NEW h \in Goroutines \ {g}
  PROVE  /\ handling'[h].at = handling[h].at /\ handling'[h].req = handling[h].req
         /\ handling'[h].s = handling[h].s /\ handling'[h].next = handling[h].next
         /\ handling'[h].val = handling[h].val
         /\ handling'[h].old = handling[h].old \/ handling'[h].old
  BY OldFacts, ZenonT(30) DEF Turns, RightsType

LEMMA TurnFits ==
  ASSUME RightsType, NEW g \in Goroutines, NEW f \in Frame, Fits(f), Turns(g, f)
  PROVE  handling' \in [Goroutines -> Frame] /\ \A h \in Goroutines : Fits(handling'[h])
<1>1. ASSUME NEW h \in Goroutines \ {g} PROVE Fits(handling'[h])
  BY <1>1, OthersStay DEF RightsType, Fits
<1> QED
  BY <1>1 DEF Turns

-----------------------------------------------------------------------------
(* What the parts of the invariant need of a step. *)

DocsTrue == \A s \in Stores \ {"admins"} : OutOfDate(s) => s \in races \/ Writing(s)
AdminsTrue == \A m \in Tracked : Misreports(m) => "admins" \in races \/ Told(m)

LEMMA EntriesParts == EntriesTellTheTruth <=> DocsTrue /\ AdminsTrue
  BY DEF EntriesTellTheTruth, DocsTrue, AdminsTrue

Updating == {"rebuild", "restore"}
Dropping == {"drop", "put"}

\* Whoever is told of an administrator, and whoever writes, goes on to do so.
StillTold == \A m \in Tracked : Told(m) => Told(m)'
StillWritten(S) == \A s \in S : Writing(s) => Writing(s)'
SameChanges == /\ \A u \in Change : (Unseen(u)' <=> Unseen(u)) /\ (UnderWay(u)' => UnderWay(u))
               /\ latest' = latest

LEMMA ChangesStay ==
  ASSUME RightsType, NEW g \in Goroutines, NEW f \in Frame, Fits(f), Turns(g, f),
         handling[g].at \notin Updating, f.at \notin Updating, UNCHANGED <<updates, latest>>
  PROVE  SameChanges /\ StillTold
<1> DEFINE rebuild(u) == \E h \in Goroutines : At(h, "rebuild") /\ Req(h).what = u
           restore(u) == \E h \in Goroutines : At(h, "restore") /\ Req(h).what = u
<1>1. \A h \in Goroutines \ {g} : handling'[h].at = handling[h].at /\ handling'[h].req = handling[h].req
  BY OthersStay
<1>2. /\ handling'[g] = f
      /\ handling[g].at \notin {"rebuild", "restore"} /\ handling'[g].at \notin {"rebuild", "restore"}
      /\ handling[g].req.does # "update"
  BY DEF Turns, Updating, RightsType, Fits
<1>3. ASSUME NEW u PROVE (rebuild(u)' <=> rebuild(u)) /\ (restore(u)' <=> restore(u))
  BY <1>1, <1>2 DEF At, Req
<1>4. SameChanges
  BY <1>3 DEF SameChanges, Unseen, UnderWay
<1>5. StillTold
  BY <1>1, <1>2 DEF StillTold, Told, Req
<1> QED
  BY <1>4, <1>5

LEMMA NewestStays ==
  ASSUME NewestTellsTruth, SameChanges, events \in Nat, events' \in Nat, events' >= events,
         \A m \in Tracked : Has(source["admins"], m)' = Has(source["admins"], m)
  PROVE  NewestTellsTruth'
<1> SUFFICES ASSUME NEW u \in Change, UnderWay(u)'
             PROVE  /\ u.n <= events'
                    /\ (u.is = Has(source["admins"], u.who) \/ Superseded(u))'
  BY DEF NewestTellsTruth
<1>1. /\ u.n <= events /\ u.n \in Nat /\ u.who \in Tracked
      /\ u.is = Has(source["admins"], u.who) \/ Superseded(u)
  BY DEF NewestTellsTruth, SameChanges, Change
<1>2. Superseded(u) => Superseded(u)'
  BY DEF Superseded, SameChanges
<1> QED
  BY <1>1, <1>2

LEMMA WritingStays ==
  ASSUME RightsType, NEW g \in Goroutines, NEW f \in Frame, Turns(g, f)
  PROVE  /\ StillWritten(Stores \ {handling[g].s})
         /\ handling[g].at \notin Dropping => StillWritten(Stores)
<1>1. \A h \in Goroutines \ {g} : handling'[h].at = handling[h].at /\ handling'[h].s = handling[h].s
  BY OthersStay
<1> QED
  BY <1>1 DEF StillWritten, Writing, Dropping

\* Nothing is read or stored: entries are as true as before.
LEMMA EntriesStay ==
  ASSUME EntriesTellTheTruth, UNCHANGED <<source, entry, races>>, StillTold, StillWritten(Stores)
  PROVE  EntriesTellTheTruth'
<1>1. DocsTrue'
  BY EntriesParts DEF DocsTrue, StillWritten, OutOfDate
<1>2. AdminsTrue'
  BY EntriesParts DEF AdminsTrue, StillTold, Misreports, Has
<1> QED
  BY <1>1, <1>2, EntriesParts, PTL

\* An entry is stored, or dropped: it is the source's, or it is known to be raced.
LEMMA EntryStored ==
  ASSUME RightsType, EntriesTellTheTruth, NEW s \in Stores, NEW v \in Value, NEW old \in BOOLEAN,
         Cache(s, v, old), old \/ v \in {Nothing, source[s]}, source' = source,
         StillTold, StillWritten(Stores \ {s})
  PROVE  EntriesTellTheTruth' /\ entry' \in [Stores -> Value] /\ races' \subseteq Stores
<1>1. /\ entry' = [entry EXCEPT ![s] = v] /\ entry' \in [Stores -> Value]
      /\ races' = IF old THEN races \cup {s} ELSE races \ {s}
  BY DEF Cache, RightsType
<1>2. /\ entry'[s] = v /\ \A t \in Stores \ {s} : entry'[t] = entry[t]
      /\ \A t \in Stores \ {s} : t \in races' <=> t \in races
      /\ old => s \in races'
  BY <1>1 DEF RightsType
<1>3. DocsTrue'
  <2> SUFFICES ASSUME NEW t \in Stores \ {"admins"}, OutOfDate(t)' PROVE t \in races' \/ Writing(t)'
    BY DEF DocsTrue
  <2>1. CASE t = s
    BY <1>2, <2>1 DEF OutOfDate
  <2>2. CASE t # s
    BY <1>2, <2>2, EntriesParts DEF OutOfDate, DocsTrue, StillWritten
  <2> QED
    BY <2>1, <2>2
<1>4. AdminsTrue'
  <2> SUFFICES ASSUME NEW m \in Tracked, Misreports(m)' PROVE "admins" \in races' \/ Told(m)'
    BY DEF AdminsTrue
  <2>1. CASE s = "admins"
    BY <1>2, <2>1 DEF Misreports
  <2>2. CASE s # "admins"
    <3>1. entry'["admins"] = entry["admins"] /\ ("admins" \in races' <=> "admins" \in races)
      BY <1>2, <2>2 DEF Stores
    <3> QED
      BY <3>1, EntriesParts DEF Misreports, AdminsTrue, StillTold
  <2> QED
    BY <2>1, <2>2
<1>5. EntriesTellTheTruth'
  BY <1>3, <1>4, EntriesParts, PTL
<1>6. races' \subseteq Stores
  BY <1>1 DEF RightsType
<1> QED
  BY <1>1, <1>5, <1>6

-----------------------------------------------------------------------------
(* The steps of a goroutine that is not handling an update. *)

\* Counts go on, and no update comes or goes.
Passes == /\ events' \in Nat /\ events' >= events /\ mishaps' \in Nat
          /\ UNCHANGED <<updates, latest>>
Free(g) == handling[g].at \notin Updating \cup Dropping

LEMMA Passing ==
  ASSUME RightsInv, events' \in {events, events + 1}, mishaps' \in {mishaps, mishaps + 1},
         UNCHANGED <<updates, latest>>
  PROVE  Passes
  BY DEF Passes, RightsInv, RightsType

\* What such a step has to show.
LEMMA RightsStep ==
  ASSUME RightsInv, NEW g \in Goroutines, NEW f \in Frame, Fits(f), Turns(g, f),
         handling[g].at \notin Updating, f.at \notin Updating,
         Passes,
         source' \in [Stores -> Value], source'["admins"] = source["admins"],
         entry' \in [Stores -> Value], races' \subseteq Stores, EntriesTellTheTruth',
         \A h \in Goroutines : HoldsTruth(handling[h])'
  PROVE  RightsInv'
<1>1. RightsType'
  BY TurnFits DEF RightsInv, RightsType, Passes
<1>2. NewestTellsTruth'
  BY ChangesStay, NewestStays DEF RightsInv, RightsType, Has, Passes
<1> QED
  BY <1>1, <1>2 DEF RightsInv

\* A step that moves the goroutine, and that is all.
LEMMA RightsMove ==
  ASSUME RightsInv, NEW g \in Goroutines, NEW f \in Frame, Fits(f), handling' = [handling EXCEPT ![g] = f],
         Free(g), f.at \notin Updating \cup Dropping,
         f.at = "fill" => f.val = source[f.s],
         Passes,
         UNCHANGED cacheVars
  PROVE  RightsInv'
<1>1. RightsType /\ EntriesTellTheTruth /\ UNCHANGED <<source, entry, races>>
  BY DEF RightsInv, cacheVars
<1>2. Turns(g, f) /\ handling'[g] = f /\ \A h \in Goroutines \ {g} : handling'[h] = handling[h]
  BY <1>1, Turned DEF Turns
<1>3. HoldsTruth(handling[g])'
  BY <1>1, <1>2 DEF HoldsTruth, Holders, Updating, Dropping
<1>4. \A h \in Goroutines \ {g} : HoldsTruth(handling[h])'
  BY <1>1, <1>2 DEF HoldsTruth, RightsInv
<1>5. StillTold /\ StillWritten(Stores)
  BY <1>1, <1>2, ChangesStay, WritingStays DEF Updating, Dropping, Free, Passes
<1>6. EntriesTellTheTruth'
  BY <1>1, <1>5, EntriesStay
<1> QED
  BY <1>1, <1>2, <1>3, <1>4, <1>6, RightsStep DEF RightsType, Updating, Free

LEMMA RestsMoves ==
  ASSUME RightsInv, NEW g \in Goroutines, NEW f, Rests(f), handling' = [handling EXCEPT ![g] = f],
         Free(g),
         Passes,
         UNCHANGED cacheVars
  PROVE  RightsInv'
<1>1. f \in Frame /\ Fits(f) /\ f.at \notin Updating \cup Dropping /\ f.at # "fill"
  BY DEF Rests, RestPlaces, Updating, Dropping
<1> QED
  BY <1>1, RightsMove

LEMMA Standing ==
  ASSUME RightsInv, NEW g \in Goroutines
  PROVE  /\ handling[g] \in Frame /\ Fits(handling[g]) /\ HoldsTruth(handling[g])
         /\ handling[g].s \in Stores /\ handling[g].val \in Value /\ handling[g].old \in BOOLEAN
         /\ source[handling[g].s] \in Value /\ entry[handling[g].s] \in Value
         /\ events \in Nat /\ mishaps \in Nat
<1>1. handling[g] \in Frame
  BY DEF RightsInv, RightsType
<1> QED
  BY <1>1, FrameFacts DEF RightsInv, RightsType

LEMMA GetKeeps ==
  ASSUME RightsInv, NEW g \in Goroutines, Get(g)
  PROVE  RightsInv'
<1> DEFINE f == IF entry[handling[g].s] = Nothing THEN [handling[g] EXCEPT !.at = "read"]
                ELSE Got(handling[g], entry[handling[g].s])
<1>1. /\ handling[g].at = "get" /\ handling' = [handling EXCEPT ![g] = f]
      /\ Free(g) /\ Passes /\ UNCHANGED cacheVars
  BY Passing DEF Free, Updating, Dropping, Get, At, Calm, sameCounts, sameUpdates
<1>2. CASE entry[handling[g].s] = Nothing
  <2>1. f = [handling[g] EXCEPT !.at = "read"] /\ "read" \in RightsPlaces
    BY <1>2 DEF RightsPlaces
  <2>2. /\ f \in Frame /\ f.at = "read" /\ f.req = handling[g].req /\ f.s = handling[g].s
        /\ f.next = handling[g].next
    BY <2>1, Standing DEF Frame
  <2> HIDE DEF f
  <2>3. Fits(f) /\ f.at \notin Updating \cup Dropping /\ f.at # "fill"
    BY <1>1, <2>2, Standing DEF Fits, Updating, Dropping
  <2> QED
    BY <1>1, <2>2, <2>3, RightsMove
<1>3. CASE entry[handling[g].s] # Nothing
  <2>1. f = Got(handling[g], entry[handling[g].s])
    BY <1>3
  <2>2. Rests(f)
    BY <1>1, <2>1, Standing, GotRests
  <2> HIDE DEF f
  <2> QED
    BY <1>1, <2>2, RestsMoves
<1> QED
  BY <1>2, <1>3

LEMMA ReadKeeps ==
  ASSUME RightsInv, NEW g \in Goroutines, Read(g)
  PROVE  RightsInv'
<1> DEFINE s == handling[g].s
           f == IF source[s] = Nothing THEN Got(handling[g], Nothing)
                ELSE [handling[g] EXCEPT !.val = source[s], !.at = "fill", !.old = FALSE]
<1>1. /\ handling[g].at = "read" /\ handling' = [handling EXCEPT ![g] = f]
      /\ Free(g) /\ Passes /\ UNCHANGED cacheVars
  BY Passing DEF Free, Updating, Dropping, Read, At, Calm, sameCounts, sameUpdates
<1>2. CASE source[s] # Nothing
  <2>1. /\ f = [handling[g] EXCEPT !.val = source[s], !.at = "fill", !.old = FALSE]
        /\ "fill" \in RightsPlaces
    BY <1>2 DEF RightsPlaces
  <2>2. /\ f \in Frame /\ f.at = "fill" /\ f.req = handling[g].req /\ f.s = handling[g].s
        /\ f.next = handling[g].next /\ f.val = source[f.s]
    BY <2>1, Standing, ZenonT(30) DEF Frame
  <2> HIDE DEF f
  <2>3. Fits(f) /\ f.at \notin Updating \cup Dropping
    BY <1>1, <2>2, Standing DEF Fits, Updating, Dropping
  <2> QED
    BY <1>1, <2>2, <2>3, RightsMove
<1>3. CASE source[s] = Nothing
  <2>1. f = Got(handling[g], Nothing) /\ Nothing \in Value
    BY <1>3 DEF Value
  <2>2. Rests(f)
    BY <1>1, <2>1, Standing, GotRests
  <2> HIDE DEF f
  <2> QED
    BY <1>1, <2>2, RestsMoves
<1> QED
  BY <1>2, <1>3

LEMMA ReadFailsKeeps ==
  ASSUME RightsInv, NEW g \in Goroutines, ReadFails(g)
  PROVE  RightsInv'
<1> DEFINE f == IF handling[g].s = "admins" THEN Idle ELSE Got(handling[g], Nothing)
<1>1. /\ handling[g].at = "read" /\ handling' = [handling EXCEPT ![g] = f]
      /\ Free(g) /\ Passes /\ UNCHANGED cacheVars
  BY Passing DEF Free, Updating, Dropping, ReadFails, At, Mishap, sameUpdates
<1>2. Rests(f)
  <2>1. Nothing \in Value
    BY DEF Value
  <2> QED
    BY <1>1, <2>1, Standing, GotRests, IdleRests
<1> HIDE DEF f
<1> QED
  BY <1>1, <1>2, RestsMoves

LEMMA LookUpKeeps ==
  ASSUME RightsInv, NEW g \in Goroutines, LookUp(g)
  PROVE  RightsInv'
<1> DEFINE f == IF IsAdmin(Req(g).by) THEN Concluded(handling[g], "allowed")
                ELSE Asking(handling[g], "auth", "authorized")
<1>1. /\ handling[g].at = "lookup" /\ handling' = [handling EXCEPT ![g] = f]
      /\ Free(g) /\ Passes /\ UNCHANGED cacheVars
  BY Passing DEF Free, Updating, Dropping, LookUp, At, Calm, sameCounts, sameUpdates, Fetch
<1>2. Rests(f)
  <2>1. /\ "auth" \in Stores /\ "authorized" \in Nexts /\ "allowed" \in RestPlaces
        /\ handling[g].req.does # "update"
    BY <1>1, Standing DEF Stores, Nexts, RestPlaces, Fits
  <2> QED
    BY <2>1, Standing, AskingRests, ConcludedRests
<1> HIDE DEF f
<1> QED
  BY <1>1, <1>2, RestsMoves

LEMMA ProceedKeeps ==
  ASSUME RightsInv, NEW g \in Goroutines, Proceed(g)
  PROVE  RightsInv'
<1>1. /\ handling[g].at \in {"allowed", "denied"}
      /\ Free(g) /\ Passes /\ UNCHANGED cacheVars
  BY Passing DEF Free, Updating, Dropping, Proceed, Calm, sameCounts, sameUpdates
<1>2. \/ handling' = [handling EXCEPT ![g] = Idle]
      \/ /\ handling[g].req.does \in {"addauth", "removeauth", "settings"}
         /\ handling' = [handling EXCEPT ![g] = Asking(handling[g], "admins", "sender")]
      \/ handling' = [handling EXCEPT ![g] = Asking(handling[g], "auth", "done")]
  BY DEF Proceed, Fetch, Finish, Req
<1>3. /\ {"auth", "admins"} \subseteq Stores /\ {"sender", "done"} \subseteq Nexts
      /\ handling[g].req.does # "update"
  BY <1>1, Standing DEF Stores, Nexts, Fits
<1>4. /\ Rests(Idle) /\ Rests(Asking(handling[g], "auth", "done"))
      /\ handling[g].req.does \in {"addauth", "removeauth", "settings"} =>
             Rests(Asking(handling[g], "admins", "sender"))
  BY <1>3, Standing, AskingRests, IdleRests
<1> QED
  BY <1>1, <1>2, <1>4, RestsMoves

LEMMA LookUpTargetKeeps ==
  ASSUME RightsInv, NEW g \in Goroutines, LookUpTarget(g)
  PROVE  RightsInv'
<1>1. /\ handling[g].at = "target" /\ handling[g].req.does \in {"addauth", "removeauth"}
      /\ Free(g) /\ Passes /\ UNCHANGED cacheVars
  BY Standing, Passing DEF Free, Updating, Dropping, LookUpTarget, At, Calm, sameCounts, sameUpdates, Fits
<1>2. \/ handling' = [handling EXCEPT ![g] = Idle]
      \/ handling' = [handling EXCEPT ![g] = Asking(handling[g], "auth", "listed")]
      \/ handling' = [handling EXCEPT ![g] = [Concluded(handling[g], "write") EXCEPT !.s = "auth"]]
  BY DEF LookUpTarget, Fetch, Finish
<1>3. "auth" \in Stores /\ "listed" \in Nexts
  BY DEF Stores, Nexts
<1>4. /\ Rests(Idle) /\ Rests(Asking(handling[g], "auth", "listed"))
      /\ Rests([Concluded(handling[g], "write") EXCEPT !.s = "auth"])
  BY <1>1, <1>3, Standing, AskingRests, AuthWriteRests, IdleRests
<1> QED
  BY <1>1, <1>2, <1>4, RestsMoves

\* A request that has begun.
LEMMA AskingBegins ==
  ASSUME NEW r \in Handled, NEW s \in Stores, NEW n \in {"bot", "sender", "known", "write"},
         r.does # "update", n = "sender" => r.does = "toggle", n = "known" => r.does = "addchat",
         n = "write" => r.does = "logger" /\ s = "logger"
  PROVE  LET f == [Asking(Idle, s, n) EXCEPT !.req = r] IN f \in Frame /\ Fits(f) /\ f.at = "get"
<1> DEFINE q == Asking(Idle, s, n)
           f == [q EXCEPT !.req = r]
<1>1. n \in Nexts
  BY DEF Nexts
<1>2. q \in Frame /\ q.at = "get" /\ q.s = s /\ q.next = n
  BY <1>1, AskingFacts, IdleFacts
<1> HIDE DEF q
<1>3. f \in Frame /\ f.at = "get" /\ f.s = s /\ f.next = n /\ f.req = r
  BY <1>2 DEF Frame
<1> HIDE DEF f
<1>4. Fits(f)
  BY <1>3 DEF Fits
<1> QED
  BY <1>3, <1>4 DEF f, q

LEMMA BegunRests ==
  ASSUME NEW r \in Asked
  PROVE  LET f == [Begun(r) EXCEPT !.req = r] IN
         f \in Frame /\ Fits(f) /\ f.at \in {"get", "read", "clear"}
<1> DEFINE q == Begun(r)
           f == [q EXCEPT !.req = r]
<1>1. {"admins", "logger", "chat"} \subseteq Stores /\ {"read", "clear"} \subseteq RightsPlaces
  BY DEF Stores, RightsPlaces
<1>2. /\ r \in Handled
      /\ r.does \in {"start", "authlist", "settings", "addauth", "removeauth", "toggle", "logger",
                     "reload", "addchat", "listchats"}
  BY AskedFacts
<1>3. CASE r.does \in {"listchats", "reload"}
  <2>1. q \in {[Idle EXCEPT !.at = "read", !.s = "chat"], [Idle EXCEPT !.at = "clear"]}
    BY <1>3 DEF Begun, GetAllChats, Reload
  <2>2. q \in Frame /\ q.at \in {"read", "clear"} /\ q.s = "chat" /\ q.next = "done"
    BY <1>1, <2>1, IdleFacts DEF Frame
  <2> HIDE DEF q
  <2>3. f \in Frame /\ f.at \in {"read", "clear"} /\ f.s = "chat" /\ f.next = "done" /\ f.req = r
    BY <1>2, <2>2 DEF Frame
  <2> HIDE DEF f
  <2>4. Fits(f) /\ f \in Frame /\ f.at \in {"get", "read", "clear"}
    BY <1>3, <2>3 DEF Fits
  <2> QED
    BY <2>4 DEF f, q
<1>4. CASE r.does \notin {"listchats", "reload"}
  <2>1. \/ /\ r.does \in {"start", "authlist", "settings", "addauth", "removeauth"}
           /\ q = Asking(Idle, "admins", "bot")
        \/ r.does = "toggle" /\ q = Asking(Idle, "admins", "sender")
        \/ r.does = "logger" /\ q = Asking(Idle, "logger", "write")
        \/ r.does = "addchat" /\ q = Asking(Idle, "chat", "known")
    BY <1>2, <1>4 DEF Begun, Command, ToggleSetting, Logger, AddChat
  <2> HIDE DEF q
  <2>2. f \in Frame /\ Fits(f) /\ f.at = "get"
    BY <1>1, <1>2, <2>1, AskingBegins, ZenonT(30)
  <2> QED
    BY <2>2 DEF q
<1> QED
  BY <1>3, <1>4

LEMMA BeginKeeps ==
  ASSUME RightsInv, NEW g \in Goroutines, Begin(g)
  PROVE  RightsInv'
<1>1. PICK r \in Asked : handling' = [handling EXCEPT ![g] = [Begun(r) EXCEPT !.req = r]]
  BY DEF Begin
<1> DEFINE f == [Begun(r) EXCEPT !.req = r]
<1>2. f \in Frame /\ Fits(f) /\ f.at \in {"get", "read", "clear"}
  BY BegunRests
<1> HIDE DEF f
<1>3. Free(g) /\ Passes /\ UNCHANGED cacheVars
  BY Passing DEF Begin, At, sameUpdates, Free, Updating, Dropping
<1>4. f.at \notin Updating \cup Dropping /\ f.at # "fill"
  BY <1>2 DEF Updating, Dropping
<1>5. handling' = [handling EXCEPT ![g] = f]
  BY <1>1 DEF f
<1> QED
  BY <1>2, <1>3, <1>4, <1>5, RightsMove

LEMMA NotOvertaken ==
  ASSUME RightsType, NEW g \in Goroutines, NEW s, NEW places, handling[g].at \notin places
  PROVE  Overtaken(handling, s, places)[g] = handling[g]
<1> DEFINE fs == Overtaken(handling, s, places)
<1>1. \A h \in Goroutines : fs[h] = IF handling[h].s = s /\ handling[h].at \in places
                                   THEN [handling[h] EXCEPT !.old = TRUE] ELSE handling[h]
  BY Overtaking
<1> HIDE DEF fs
<1>2. fs[g] = handling[g]
  BY <1>1
<1> QED
  BY <1>2 DEF fs

\* Who is not overtaken holds the truth after the entry of s was stored, if
\* those who are about to store an older list of administrators are overtaken.
LEMMA HeldAfterStore ==
  ASSUME RightsInv, NEW G \in SUBSET Goroutines, NEW h \in G, NEW s \in Stores,
         source' = source, entry' \in [Stores -> Value],
         \A t \in Stores \ {s} : entry'[t] = entry[t],
         Ages(G, s, {"restore"})
  PROVE  HoldsTruth(handling[h])'
<1>1. /\ handling[h] \in Frame /\ HoldsTruth(handling[h])
      /\ handling[h].at = "restore" => handling[h].s = "admins"
  BY Standing DEF Fits
<1> USE DEF Ages
<1>2. CASE handling[h].at = "restore" /\ s = "admins"
  BY <1>1, <1>2, OldFacts DEF HoldsTruth, Holders
<1>3. CASE handling[h].at = "restore" /\ s # "admins"
  <2>1. entry'["admins"] = entry["admins"] /\ handling'[h] = handling[h]
    BY <1>1, <1>3 DEF Stores
  <2> QED
    BY <1>1, <1>3, <2>1 DEF HoldsTruth, Holders
<1>4. CASE handling[h].at # "restore"
  BY <1>1, <1>4 DEF HoldsTruth, Holders
<1> QED
  BY <1>2, <1>3, <1>4

LEMMA FillKeeps ==
  ASSUME RightsInv, NEW g \in Goroutines, Fill(g)
  PROVE  RightsInv'
<1> DEFINE s == handling[g].s
           v == handling[g].val
           after == Overtaken(handling, s, {"restore"})
           f == Got(handling[g], v)
<1>1. /\ handling[g].at = "fill" /\ s \in Stores /\ v \in Value
      /\ handling[g].old \in BOOLEAN /\ (~handling[g].old => v = source[s])
  BY Standing DEF Fill, At, HoldsTruth, Holders
<1>2. RightsType /\ EntriesTellTheTruth
  BY DEF RightsInv
<1>3. after[g] = handling[g]
  BY <1>1, <1>2, NotOvertaken
<1>4. /\ Cache(s, v, handling[g].old) /\ source' = source /\ UNCHANGED <<events, mishaps, updates, latest>>
      /\ handling' = [after EXCEPT ![g] = Got(after[g], v)]
  BY DEF Fill, Calm, sameCounts, sameUpdates, Val
<1>5. Rests(f)
  BY <1>1, Standing, GotRests
<1>6. f \in Frame /\ Fits(f) /\ f.at \notin Updating /\ f.at \notin {"fill", "put", "restore"}
  BY <1>5 DEF Rests, RestPlaces, Updating
<1>7. handling' = [Overtaken(handling, s, {"restore"}) EXCEPT ![g] = f]
  BY <1>3, <1>4
<1> HIDE DEF f, s, v, after
<1>8. Turns(g, f) /\ Ages(Goroutines \ {g}, s, {"restore"})
  BY <1>2, <1>6, <1>7, OvertakingTurns
<1>9. Free(g) /\ handling[g].at \notin Updating /\ handling[g].at \notin Dropping /\ Passes
  BY <1>1, <1>4, Passing DEF Free, Updating, Dropping
<1>10. StillTold /\ StillWritten(Stores)
  BY <1>2, <1>4, <1>6, <1>8, <1>9, ChangesStay, WritingStays
<1>11. EntriesTellTheTruth' /\ entry' \in [Stores -> Value] /\ races' \subseteq Stores
  BY <1>1, <1>2, <1>4, <1>10, EntryStored DEF StillWritten
<1>12. \A t \in Stores \ {s} : entry'[t] = entry[t]
  BY <1>2, <1>4 DEF Cache, RightsType
<1>13. \A h \in Goroutines \ {g} : HoldsTruth(handling[h])'
  BY <1>1, <1>4, <1>8, <1>11, <1>12, HeldAfterStore
<1>14. HoldsTruth(handling[g])'
  BY <1>6, <1>8 DEF Turns, HoldsTruth, Holders
<1>15. source' \in [Stores -> Value] /\ source'["admins"] = source["admins"]
  BY <1>2, <1>4 DEF RightsType
<1> QED
  BY <1>6, <1>8, <1>9, <1>11, <1>13, <1>14, <1>15, RightsStep

\* A store of somebody who then rests, of a cache other than the administrators'.
LEMMA StoreKeeps ==
  ASSUME RightsInv, NEW g \in Goroutines, NEW f, Rests(f), NEW v \in Value, NEW old \in BOOLEAN,
         handling[g].at \in Dropping, handling[g].s # "admins",
         Cache(handling[g].s, v, old), old \/ v \in {Nothing, source[handling[g].s]},
         handling' = [handling EXCEPT ![g] = f], source' = source, Passes
  PROVE  RightsInv'
<1> DEFINE s == handling[g].s
<1>1. RightsType /\ EntriesTellTheTruth /\ s \in Stores
  BY Standing DEF RightsInv
<1>2. /\ f \in Frame /\ Fits(f) /\ f.at \notin Updating /\ f.at \notin {"fill", "put", "restore"}
      /\ handling[g].at \notin Updating
  BY DEF Rests, RestPlaces, Updating, Dropping
<1>3. Turns(g, f) /\ \A h \in Goroutines \ {g} : handling'[h] = handling[h]
  BY <1>1, <1>2, Turned
<1>4. StillTold /\ StillWritten(Stores \ {s})
  BY <1>1, <1>2, <1>3, ChangesStay, WritingStays DEF Passes
<1>5. EntriesTellTheTruth' /\ entry' \in [Stores -> Value] /\ races' \subseteq Stores
  BY <1>1, <1>4, EntryStored
<1>6. entry'["admins"] = entry["admins"]
  BY <1>1 DEF Cache, RightsType, Stores
<1>7. \A h \in Goroutines \ {g} : HoldsTruth(handling[h])'
  BY <1>3, <1>6 DEF HoldsTruth, RightsInv
<1>8. HoldsTruth(handling[g])'
  BY <1>2, <1>3 DEF Turns, HoldsTruth, Holders
<1>9. source' \in [Stores -> Value] /\ source'["admins"] = source["admins"]
  BY <1>1 DEF RightsType
<1> QED
  BY <1>2, <1>3, <1>5, <1>7, <1>8, <1>9, RightsStep

LEMMA AfterWriteRests ==
  ASSUME NEW f \in Frame, f.req.does # "update"
  PROVE  Rests(AfterWrite(f))
<1>1. "chat" \in Stores /\ "done" \in Nexts
  BY DEF Stores, Nexts
<1> QED
  BY <1>1, AskingRests, IdleRests DEF AfterWrite

LEMMA DropKeeps ==
  ASSUME RightsInv, NEW g \in Goroutines, Drop(g)
  PROVE  RightsInv'
<1> DEFINE f == AfterWrite(handling[g])
<1>1. /\ handling[g].at = "drop" /\ handling[g].s # "admins" /\ handling[g].req.does # "update"
      /\ Cache(handling[g].s, Nothing, FALSE) /\ handling' = [handling EXCEPT ![g] = f]
      /\ source' = source /\ Passes
  BY Standing, Passing DEF Drop, At, Fits, Calm, sameCounts, sameUpdates, Uncache
<1>2. Rests(f) /\ Nothing \in Value /\ handling[g].at \in Dropping
  BY <1>1, Standing, AfterWriteRests DEF Value, Dropping
<1> HIDE DEF f
<1> QED
  BY <1>1, <1>2, StoreKeeps

LEMMA PutKeeps ==
  ASSUME RightsInv, NEW g \in Goroutines, Put(g)
  PROVE  RightsInv'
<1>1. /\ handling[g].at = "put" /\ handling[g].s = "logger" /\ HoldsTruth(handling[g])
      /\ Cache("logger", handling[g].val, handling[g].old) /\ handling' = [handling EXCEPT ![g] = Idle]
      /\ source' = source /\ Passes /\ handling[g].val \in Value /\ handling[g].old \in BOOLEAN
  BY Standing, Passing DEF Put, At, Fits, Calm, sameCounts, sameUpdates, Val, Finish
<1>2. /\ handling[g].at \in Dropping
      /\ handling[g].old \/ handling[g].val \in {Nothing, source[handling[g].s]}
  BY <1>1 DEF Dropping, HoldsTruth, Holders
<1> QED
  BY <1>1, <1>2, IdleRests, StoreKeeps

LEMMA ClearAdminCacheKeeps ==
  ASSUME RightsInv, NEW g \in Goroutines, ClearAdminCache(g)
  PROVE  RightsInv'
<1> DEFINE after == Overtaken(handling, "admins", {"restore"})
           f == [after[g] EXCEPT !.at = "read", !.s = "admins", !.next = "done"]
<1>1. /\ handling[g].at = "clear" /\ Cache("admins", Nothing, FALSE) /\ source' = source /\ Passes
      /\ UNCHANGED <<updates, latest>>
      /\ handling' = [after EXCEPT ![g] = f]
  BY Passing DEF ClearAdminCache, At, Calm, sameCounts, sameUpdates, Uncache
<1>2. /\ RightsType /\ EntriesTellTheTruth /\ "admins" \in Stores /\ Nothing \in Value
      /\ "read" \in RightsPlaces /\ "done" \in Nexts
  BY DEF RightsInv, Stores, Value, RightsPlaces, Nexts
<1>3. after[g] = handling[g] /\ handling[g] \in Frame /\ Fits(handling[g])
  BY <1>1, <1>2, NotOvertaken, Standing
<1>4. /\ f \in Frame /\ f.at = "read" /\ f.s = "admins" /\ f.next = "done" /\ f.req = handling[g].req
  BY <1>2, <1>3 DEF Frame
<1> HIDE DEF f
<1>5. Fits(f) /\ f.at \notin Updating /\ f.at \notin {"fill", "put", "restore"}
  BY <1>1, <1>3, <1>4 DEF Fits, Updating
<1>6. handling' = [Overtaken(handling, "admins", {"restore"}) EXCEPT ![g] = f]
  BY <1>1
<1>7. Turns(g, f) /\ Ages(Goroutines \ {g}, "admins", {"restore"})
  BY <1>2, <1>4, <1>6, OvertakingTurns
<1>8. Free(g) /\ handling[g].at \notin Updating /\ handling[g].at \notin Dropping
  BY <1>1 DEF Free, Updating, Dropping
<1>9. StillTold /\ StillWritten(Stores)
  BY <1>1, <1>2, <1>4, <1>5, <1>7, <1>8, ChangesStay, WritingStays
<1>10. EntriesTellTheTruth' /\ entry' \in [Stores -> Value] /\ races' \subseteq Stores
  BY <1>1, <1>2, <1>9, EntryStored DEF StillWritten
<1>11. \A t \in Stores \ {"admins"} : entry'[t] = entry[t]
  BY <1>1, <1>2 DEF Cache, RightsType
<1>12. \A h \in Goroutines \ {g} : HoldsTruth(handling[h])'
  BY <1>1, <1>2, <1>7, <1>10, <1>11, HeldAfterStore
<1>13. HoldsTruth(handling[g])'
  BY <1>5, <1>7 DEF Turns, HoldsTruth, Holders
<1>14. source' \in [Stores -> Value] /\ source'["admins"] = source["admins"]
  BY <1>1, <1>2 DEF RightsType
<1> QED
  BY <1>1, <1>4, <1>5, <1>7, <1>8, <1>10, <1>12, <1>13, <1>14, RightsStep

-----------------------------------------------------------------------------
(* The steps that change a document or the list of administrators. *)

LEMMA SetOf ==
  ASSUME NEW S
  PROVE  <<S>> # Nothing /\ <<S>>[1] = S
  BY DEF Nothing

LEMMA WithAndWithout ==
  ASSUME NEW v \in Value, NEW x \in Things
  PROVE  /\ With(v, x) \in Value /\ Without(v, x) \in Value
         /\ With(v, x) # Nothing /\ Without(v, x) # Nothing
         /\ \A y : (Has(With(v, x), y) <=> Has(v, y) \/ y = x)
                   /\ (Has(Without(v, x), y) <=> Has(v, y) /\ y # x)
<1>1. Elements(v) \subseteq Things
  BY SetOf DEF Elements, Value
<1>2. \A y : Has(v, y) <=> y \in Elements(v)
  BY DEF Has, Elements
<1>3. Elements(v) \cup {x} \in SUBSET Things /\ Elements(v) \ {x} \in SUBSET Things
  BY <1>1
<1> QED
  BY <1>2, <1>3, SetOf DEF With, Without, Has, Value

LEMMA WrittenValue ==
  ASSUME RightsInv, NEW g \in Goroutines, At(g, "write")
  PROVE  Written(g) \in Value
<1>1. /\ source[handling[g].s] \in Value
      /\ Req(g).does \in {"addauth", "removeauth", "toggle", "logger", "addchat"}
      /\ Req(g).does \in {"addauth", "removeauth"} => Req(g).what \in Users
      /\ Req(g).does = "toggle" => Req(g).what \in Settings
  BY Standing, FrameFacts, HandledFields DEF At, Req, Fits
<1>2. Nothing \in Value /\ <<{}>> \in Value /\ <<{"on"}>> \in Value
  BY DEF Value, Things
<1>3. Users \subseteq Things /\ Settings \subseteq Things
  BY DEF Things
<1>4. CASE Req(g).does = "addauth"
  BY <1>1, <1>3, <1>4, WithAndWithout DEF Written
<1>5. CASE Req(g).does = "removeauth"
  BY <1>1, <1>2, <1>3, <1>5, WithAndWithout DEF Written
<1>6. CASE Req(g).does = "toggle"
  BY <1>1, <1>3, <1>6, WithAndWithout DEF Written
<1>7. CASE Req(g).does = "logger"
  BY <1>2, <1>7 DEF Written
<1>8. CASE Req(g).does = "addchat"
  BY <1>1, <1>2, <1>8 DEF Written
<1> QED
  BY <1>1, <1>4, <1>5, <1>6, <1>7, <1>8

\* A document is written: whoever holds what it was is overtaken, and an entry
\* that is out of date now is known to be raced, or its writer will drop it.
Disturbs(g, s, v) ==
    /\ v # source[s] => Ages(Goroutines \ {g}, s, Holders)
    /\ v = source[s] => \A h \in Goroutines \ {g} : handling'[h] = handling[h]

LEMMA WritingKeeps ==
  ASSUME RightsInv, NEW g \in Goroutines, At(g, "write"), NEW s, s = handling[g].s, NEW v \in Value,
         source' = [source EXCEPT ![s] = v],
         NEW f \in Frame, Fits(f), f.at \notin Updating, Turns(g, f), Disturbs(g, s, v),
         f.at \in Holders => f.s = s /\ f.val = v,
         entry' = entry, races' \subseteq Stores, races \subseteq races', Passes,
         OutOfDate(s)' => s \in races' \/ Writing(s)'
  PROVE  RightsInv'
<1>1. RightsType /\ EntriesTellTheTruth /\ s \in Stores /\ s # "admins"
  BY Standing DEF RightsInv, Fits, At
<1>2. /\ source' \in [Stores -> Value] /\ source'[s] = v
      /\ \A t \in Stores \ {s} : source'[t] = source[t]
  BY <1>1 DEF RightsType
<1>3. handling[g].at \notin Updating /\ handling[g].at \notin Dropping
  BY DEF At, Updating, Dropping
<1>4. StillTold /\ StillWritten(Stores)
  BY <1>1, <1>3, ChangesStay, WritingStays DEF Passes
<1>5. DocsTrue'
  <2> SUFFICES ASSUME NEW t \in Stores \ {"admins"}, OutOfDate(t)' PROVE t \in races' \/ Writing(t)'
    BY DEF DocsTrue
  <2>1. CASE t = s
    BY <2>1
  <2>2. CASE t # s
    BY <1>1, <1>2, <1>4, <2>2, EntriesParts DEF OutOfDate, DocsTrue, StillWritten
  <2> QED
    BY <2>1, <2>2
<1>6. source'["admins"] = source["admins"]
  BY <1>1, <1>2 DEF Stores
<1>7. AdminsTrue'
  BY <1>1, <1>4, <1>6, EntriesParts DEF Misreports, AdminsTrue, StillTold, Has
<1>8. EntriesTellTheTruth'
  BY <1>5, <1>7, EntriesParts, PTL
<1>9. ASSUME NEW h \in Goroutines \ {g} PROVE HoldsTruth(handling[h])'
  <2>1. /\ handling[h] \in Frame /\ HoldsTruth(handling[h]) /\ handling[h].s \in Stores
    BY Standing
  <2>2. CASE v = source[s]
    <3>1. handling'[h] = handling[h]
      BY <2>2 DEF Disturbs
    <3>2. source'[handling[h].s] = source[handling[h].s]
      BY <1>2, <2>1, <2>2
    <3> QED
      BY <2>1, <3>1, <3>2 DEF HoldsTruth
  <2>3. CASE v # source[s] /\ handling[h].s = s /\ handling[h].at \in Holders
    <3>1. handling'[h] = [handling[h] EXCEPT !.old = TRUE]
      BY <2>3 DEF Disturbs, Ages
    <3> QED
      BY <2>1, <2>3, <3>1, OldFacts DEF HoldsTruth, Holders
  <2>4. CASE v # source[s] /\ ~(handling[h].s = s /\ handling[h].at \in Holders)
    <3>1. handling'[h] = handling[h]
      BY <2>4 DEF Disturbs, Ages
    <3> QED
      BY <1>2, <2>1, <2>4, <3>1 DEF HoldsTruth
  <2> QED
    BY <2>2, <2>3, <2>4
<1>10. HoldsTruth(handling[g])'
  BY <1>2 DEF Turns, HoldsTruth, Updating
<1>11. entry' \in [Stores -> Value]
  BY <1>1 DEF RightsType
<1> QED
  BY <1>2, <1>3, <1>6, <1>8, <1>9, <1>10, <1>11, RightsStep

\* The others, when a document is written or stays as it is.
LEMMA Disturbing ==
  ASSUME RightsType, NEW g \in Goroutines, NEW s, NEW v, NEW f \in Frame,
         handling' = [IF v # source[s] THEN Overtaken(handling, s, Holders) ELSE handling EXCEPT ![g] = f]
  PROVE  Turns(g, f) /\ Disturbs(g, s, v)
<1>1. CASE v # source[s]
  <2>1. handling' = [Overtaken(handling, s, Holders) EXCEPT ![g] = f]
    BY <1>1
  <2> QED
    BY <1>1, <2>1, OvertakingTurns DEF Disturbs
<1>2. CASE v = source[s]
  <2>1. handling' = [handling EXCEPT ![g] = f]
    BY <1>2
  <2> QED
    BY <1>2, <2>1, Turned DEF Disturbs
<1> QED
  BY <1>1, <1>2

LEMMA WriteKeeps ==
  ASSUME RightsInv, NEW g \in Goroutines, Write(g)
  PROVE  RightsInv'
<1>0. PICK s, v : s = handling[g].s /\ v = Written(g)
  OBVIOUS
<1> DEFINE after == IF v # source[s] THEN Overtaken(handling, s, Holders) ELSE handling
           f == CASE s = "logger" -> [handling[g] EXCEPT !.at = "put", !.val = v, !.old = FALSE]
                  [] Req(g).does = "addchat" -> Idle
                  [] OTHER -> [Concluded(handling[g], "drop") EXCEPT !.s = s]
<1>1. /\ At(g, "write") /\ handling[g].at \notin Holders
      /\ source' = [source EXCEPT ![s] = v] /\ entry' = entry /\ races' = races
      /\ Passes
  BY <1>0, Passing DEF Write, At, Calm, sameCounts, sameUpdates, Holders
<1>2. /\ RightsType /\ s \in Stores /\ s # "admins" /\ v \in Value
      /\ handling[g] \in Frame /\ Fits(handling[g])
  BY <1>0, <1>1, Standing, WrittenValue DEF RightsInv, Fits, At
<1>3. after[g] = handling[g]
  BY <1>1, <1>2, NotOvertaken
<1>4. handling' = [after EXCEPT ![g] = f]
  <2>1. handling' = [after EXCEPT ![g] =
                 CASE s = "logger" -> [after[g] EXCEPT !.at = "put", !.val = v, !.old = FALSE]
                   [] Req(g).does = "addchat" -> Idle
                   [] OTHER -> [Concluded(after[g], "drop") EXCEPT !.s = s]]
    BY <1>0 DEF Write
  <2> HIDE DEF after
  <2> QED
    BY <1>3, <2>1
<1> HIDE DEF f
<1>5. CASE s = "logger"
  <2>0. Req(g).does # "addchat"
    BY <1>0, <1>1, <1>2, <1>5 DEF Fits, At, Req
  <2>1. f = [handling[g] EXCEPT !.at = "put", !.val = v, !.old = FALSE]
    BY <1>5, <2>0 DEF f
  <2>2. /\ f \in Frame /\ f.at = "put" /\ f.req = handling[g].req /\ f.s = s /\ f.next = handling[g].next
        /\ f.val = v
    <3>1. "put" \in RightsPlaces
      BY DEF RightsPlaces
    <3>2. handling[g] \in Frame /\ v \in Value /\ s = handling[g].s
      BY <1>0, <1>2
    <3> QED
      BY <2>1, <3>1, <3>2 DEF Frame
  <2>3. Fits(f) /\ f.at \notin Updating
    BY <1>1, <1>2, <1>5, <2>2 DEF At, Fits, Updating
  <2>4. Turns(g, f) /\ Disturbs(g, s, v)
    BY <1>2, <1>4, <2>2, Disturbing
  <2>5. Writing(s)'
    BY <2>2, <2>4 DEF Writing, Turns
  <2> QED
    BY <1>0, <1>1, <1>2, <2>2, <2>3, <2>4, <2>5, WritingKeeps DEF RightsType
<1>6. CASE s # "logger" /\ Req(g).does # "addchat"
  <2>1. f = [Concluded(handling[g], "drop") EXCEPT !.s = s]
    BY <1>6 DEF f
  <2>2. f \in Frame /\ f.at = "drop" /\ f.req = handling[g].req /\ f.s = s /\ f.next = "done"
    <3>1. "drop" \in RightsPlaces
      BY DEF RightsPlaces
    <3> QED
      BY <1>2, <2>1, <3>1, ConcludedWrite
  <2>3. Fits(f) /\ f.at \notin Updating /\ f.at \notin Holders
    BY <1>1, <1>2, <2>2 DEF At, Fits, Updating, Holders
  <2>4. Turns(g, f) /\ Disturbs(g, s, v)
    BY <1>2, <1>4, <2>2, Disturbing
  <2>5. Writing(s)'
    BY <2>2, <2>4 DEF Writing, Turns
  <2> QED
    BY <1>0, <1>1, <1>2, <2>2, <2>3, <2>4, <2>5, WritingKeeps DEF RightsType
<1>7. CASE s # "logger" /\ Req(g).does = "addchat"
  <2>1. f = Idle /\ v = IF source[s] = Nothing THEN <<{}>> ELSE source[s]
    BY <1>0, <1>7 DEF Written, f
  <2>2. f \in Frame /\ Fits(f) /\ f.at \notin Updating /\ f.at \notin Holders
    BY <2>1, IdleFacts DEF Updating, Holders
  <2>3. Turns(g, f) /\ Disturbs(g, s, v)
    BY <1>2, <1>4, <2>2, Disturbing
  <2>4. handling[g].at \notin Dropping
    BY <1>1 DEF At, Dropping
  <2>5. StillWritten(Stores)
    BY <1>2, <2>2, <2>3, <2>4, WritingStays
  <2>6. source'[s] = v
    BY <1>1, <1>2 DEF RightsType
  <2>7. OutOfDate(s)' => OutOfDate(s)
    BY <1>1, <2>1, <2>6 DEF OutOfDate
  <2>8. OutOfDate(s)' => s \in races' \/ Writing(s)'
    BY <1>1, <1>2, <2>5, <2>7, EntriesParts DEF RightsInv, DocsTrue, StillWritten
  <2> QED
    BY <1>0, <1>1, <1>2, <2>2, <2>3, <2>8, WritingKeeps DEF RightsType
<1> QED
  BY <1>5, <1>6, <1>7

LEMMA WriteFailsKeeps ==
  ASSUME RightsInv, NEW g \in Goroutines, WriteFails(g)
  PROVE  RightsInv'
<1>0. PICK s, v : s = handling[g].s /\ v = Written(g)
  OBVIOUS
<1> DEFINE f == AfterWrite(handling[g])
<1>1. At(g, "write") /\ Passes /\ Free(g) /\ handling[g].at \notin Holders
  BY Passing DEF WriteFails, At, Mishap, sameUpdates, Free, Updating, Dropping, Holders
<1>2. /\ RightsType /\ s \in Stores /\ v \in Value
      /\ handling[g] \in Frame /\ handling[g].req.does # "update"
  BY <1>0, <1>1, Standing, WrittenValue DEF RightsInv, Fits, At
<1>3. Rests(f)
  BY <1>2, AfterWriteRests
<1>4. CASE handling' = [handling EXCEPT ![g] = f] /\ UNCHANGED cacheVars
  <2> HIDE DEF f
  <2> QED
    BY <1>1, <1>3, <1>4, RestsMoves
<1>5. CASE /\ v # source[s] /\ source' = [source EXCEPT ![s] = v] /\ entry' = entry
           /\ races' = IF entry[s] # Nothing THEN races \cup {s} ELSE races
           /\ handling' = [Overtaken(handling, s, Holders) EXCEPT ![g] = AfterWrite(Overtaken(handling, s, Holders)[g])]
  <2>1. Overtaken(handling, s, Holders)[g] = handling[g]
    BY <1>1, <1>2, NotOvertaken
  <2>2. handling' = [Overtaken(handling, s, Holders) EXCEPT ![g] = f]
    BY <1>5, <2>1
  <2> HIDE DEF f
  <2>3. f \in Frame /\ Fits(f) /\ f.at \notin Updating /\ f.at \notin Holders
    BY <1>3 DEF Rests, RestPlaces, Updating, Holders
  <2>4. Turns(g, f) /\ Ages(Goroutines \ {g}, s, Holders)
    BY <1>2, <2>2, <2>3, OvertakingTurns
  <2>5. Disturbs(g, s, v)
    BY <1>5, <2>4 DEF Disturbs
  <2>6. OutOfDate(s)' => s \in races'
    BY <1>5 DEF OutOfDate
  <2>7. races' \subseteq Stores /\ races \subseteq races'
    BY <1>2, <1>5 DEF RightsType
  <2> QED
    BY <1>0, <1>1, <1>2, <1>5, <2>3, <2>4, <2>5, <2>6, <2>7, WritingKeeps
<1> QED
  BY <1>0, <1>4, <1>5 DEF WriteFails
-----------------------------------------------------------------------------
(* The updates about administrators. *)

\* An update is handled or lost when it counts among the latest.
LEMMA NewestKept ==
  ASSUME RightsInv, \A w \in Change : UnderWay(w)' => UnderWay(w),
         latest' \in [Tracked -> Nat], \A m \in Tracked : latest'[m] >= latest[m],
         \A w \in Change : Unseen(w) => Unseen(w)' \/ latest'[w.who] >= w.n,
         events' = events, source' = source
  PROVE  NewestTellsTruth'
<1> SUFFICES ASSUME NEW u \in Change, UnderWay(u)'
             PROVE  /\ u.n <= events'
                    /\ (u.is = Has(source["admins"], u.who) \/ Superseded(u))'
  BY DEF NewestTellsTruth
<1>1. /\ u.n <= events /\ u.n \in Nat /\ u.who \in Tracked
      /\ u.is = Has(source["admins"], u.who) \/ Superseded(u)
      /\ latest \in [Tracked -> Nat]
  BY DEF NewestTellsTruth, Change, RightsInv, RightsType
<1>2. ASSUME u.n < latest[u.who] PROVE Superseded(u)'
  <2>1. u.n < latest'[u.who]
    BY <1>1, <1>2
  <2> QED
    BY <1>1, <2>1 DEF Superseded
<1>3. ASSUME NEW v \in Change, Unseen(v), v.who = u.who, u.n < v.n
      PROVE  Superseded(u)'
  <2>1. v.n \in Nat
    BY DEF Change
  <2>2. CASE Unseen(v)'
    BY <1>3, <2>2 DEF Superseded
  <2>3. CASE latest'[v.who] >= v.n
    <3>1. u.n < latest'[u.who]
      BY <1>1, <1>3, <2>1, <2>3
    <3> QED
      BY <3>1 DEF Superseded
  <2> QED
    BY <1>3, <2>2, <2>3
<1>4. ASSUME Superseded(u) PROVE Superseded(u)'
  <2>1. u.n < latest[u.who] \/ \E v \in Change : Unseen(v) /\ v.who = u.who /\ u.n < v.n
    BY <1>4 DEF Superseded
  <2> QED
    BY <1>2, <1>3, <2>1
<1> QED
  BY <1>1, <1>4 DEF Has

\* Who handles an update.
LEMMA HandlesUpdate ==
  ASSUME RightsInv, NEW g \in Goroutines
  PROVE  /\ handling[g].at \in Updating <=> Req(g).does = "update"
         /\ Req(g).does = "update" =>
                /\ Req(g).what \in Change /\ Req(g).by = Req(g).what.who
                /\ handling[g].s = "admins" /\ Req(g).by \in Tracked /\ Req(g).what.n \in Nat
<1>1. handling[g] \in Frame /\ Fits(handling[g]) /\ handling[g].req \in Handled
  BY Standing, FrameFacts
<1>2. handling[g].at \in Updating <=> Req(g).does = "update"
  BY <1>1 DEF Fits, Updating, Req
<1>3. ASSUME Req(g).does = "update"
      PROVE  Req(g).what \in Change /\ Req(g).by = Req(g).what.who /\ handling[g].s = "admins"
  BY <1>1, <1>3, HandledFields DEF Fits, Req
<1> QED
  BY <1>2, <1>3 DEF Change

\* What a step has to show that is not about documents.
LEMMA UpdatingStep ==
  ASSUME RightsInv, handling' \in [Goroutines -> Frame], \A h \in Goroutines : Fits(handling'[h]),
         source' = source, entry' \in [Stores -> Value], races' \subseteq Stores,
         \A t \in Stores \ {"admins"} : entry'[t] = entry[t] /\ (t \in races => t \in races'),
         StillWritten(Stores), AdminsTrue',
         \A h \in Goroutines : HoldsTruth(handling[h])',
         events' = events, mishaps' \in Nat, updates' \in SUBSET Change,
         latest' \in [Tracked -> Nat], NewestTellsTruth'
  PROVE  RightsInv'
<1>1. RightsType'
  BY DEF RightsInv, RightsType
<1>2. DocsTrue'
  BY EntriesParts DEF DocsTrue, StillWritten, OutOfDate, RightsInv
<1>3. EntriesTellTheTruth'
  BY <1>2, EntriesParts, PTL
<1> QED
  BY <1>1, <1>3 DEF RightsInv

LEMMA UpdateFrame ==
  ASSUME NEW u \in Change
  PROVE  LET f == [Idle EXCEPT !.at = "rebuild", !.s = "admins", !.req = Request("update", u.who, u)] IN
         f \in Frame /\ Fits(f) /\ f.at = "rebuild" /\ f.req.what = u /\ f.req.does = "update" /\ f.req.by = u.who
<1> DEFINE r == Request("update", u.who, u)
           f == [Idle EXCEPT !.at = "rebuild", !.s = "admins", !.req = r]
<1>1. r \in Handled /\ "rebuild" \in RightsPlaces /\ "admins" \in Stores
  BY DEF Handled, RightsPlaces, Stores
<1>2. r.what = u /\ r.does = "update" /\ r.by = u.who
  BY DEF Request
<1> HIDE DEF r
<1>3. f \in Frame /\ f.at = "rebuild" /\ f.s = "admins" /\ f.req = r /\ f.next = "done"
  BY <1>1, IdleFacts DEF Frame
<1> HIDE DEF f
<1>4. Fits(f)
  BY <1>2, <1>3 DEF Fits
<1>5. f \in Frame /\ Fits(f) /\ f.at = "rebuild" /\ f.req.what = u /\ f.req.does = "update" /\ f.req.by = u.who
  BY <1>2, <1>3, <1>4
<1> QED
  BY <1>5 DEF f, r

LEMMA HandleUpdateKeeps ==
  ASSUME RightsInv, NEW g \in Goroutines, NEW u \in updates, HandleUpdate(g, u)
  PROVE  RightsInv'
<1> DEFINE f == [Idle EXCEPT !.at = "rebuild", !.s = "admins", !.req = Request("update", u.who, u)]
<1>1. /\ handling[g].at = "idle" /\ handling' = [handling EXCEPT ![g] = f]
      /\ updates' = updates \ {u} /\ UNCHANGED <<source, entry, races, events, mishaps, latest>>
  BY DEF HandleUpdate, At, sameCounts, cacheVars
<1>2. RightsType /\ u \in Change /\ updates \in SUBSET Change
  BY DEF RightsInv, RightsType
<1>3. f \in Frame /\ Fits(f) /\ f.at = "rebuild" /\ f.req.what = u /\ f.req.does = "update" /\ f.req.by = u.who
  BY <1>2, UpdateFrame
<1> HIDE DEF f
<1>4. /\ handling' \in [Goroutines -> Frame] /\ handling'[g] = f
      /\ \A h \in Goroutines \ {g} : handling'[h] = handling[h]
      /\ Turns(g, f)
  BY <1>1, <1>2, <1>3, Turned DEF Turns
<1>5. \A h \in Goroutines : Fits(handling'[h])
  BY <1>2, <1>3, <1>4, TurnFits
<1>6. StillWritten(Stores)
  BY <1>1, <1>2, <1>3, <1>4, WritingStays DEF Dropping
<1>7. \A w : (Unseen(w)' <=> Unseen(w)) /\ (UnderWay(w)' => UnderWay(w))
  <2> SUFFICES ASSUME NEW w PROVE (Unseen(w)' <=> Unseen(w)) /\ (UnderWay(w)' => UnderWay(w))
    OBVIOUS
  <2>1. (\E h \in Goroutines : At(h, "rebuild") /\ Req(h).what = w)'
        <=> w = u \/ \E h \in Goroutines : At(h, "rebuild") /\ Req(h).what = w
    BY <1>1, <1>3, <1>4 DEF At, Req
  <2>2. (\E h \in Goroutines : At(h, "restore") /\ Req(h).what = w)'
        => \E h \in Goroutines : At(h, "restore") /\ Req(h).what = w
    BY <1>1, <1>3, <1>4 DEF At, Req
  <2>3. Unseen(w)' <=> Unseen(w)
    BY <1>1, <2>1 DEF Unseen
  <2> QED
    BY <2>2, <2>3 DEF UnderWay
<1>8. Req(g).does # "update"
  BY <1>1, HandlesUpdate DEF Updating
<1>9. ASSUME NEW m \in Tracked, Told(m) PROVE Told(m)'
  <2>1. CASE \E h \in Goroutines : Req(h).does = "update" /\ Req(h).by = m
    BY <1>4, <1>8, <2>1 DEF Told, Req
  <2>2. CASE \E v \in updates : v.who = m
    <3>1. PICK v \in updates : v.who = m
      BY <2>2
    <3>2. CASE v = u
      BY <1>3, <1>4, <3>1, <3>2 DEF Told, Req
    <3>3. CASE v # u
      BY <1>1, <3>1, <3>3 DEF Told
    <3> QED
      BY <3>2, <3>3
  <2> QED
    BY <1>9, <2>1, <2>2 DEF Told
<1>10. AdminsTrue'
  BY <1>1, <1>9, EntriesParts DEF AdminsTrue, Misreports, Has, RightsInv
<1>11. \A h \in Goroutines : HoldsTruth(handling[h])'
  BY <1>1, <1>3, <1>4 DEF HoldsTruth, Holders, RightsInv
<1>12. NewestTellsTruth'
  BY <1>1, <1>2, <1>7, NewestKept DEF RightsType
<1>13. updates' \in SUBSET Change
  BY <1>1, <1>2
<1> QED
  BY <1>1, <1>2, <1>4, <1>5, <1>6, <1>10, <1>11, <1>12, <1>13, UpdatingStep DEF RightsType

\* The latest change of an account, when u is handled or lost.
LEMMA LatestFacts ==
  ASSUME RightsInv, NEW u \in Change, latest' = [latest EXCEPT ![u.who] = IF u.n > @ THEN u.n ELSE @]
  PROVE  /\ latest' \in [Tracked -> Nat] /\ \A m \in Tracked : latest'[m] >= latest[m]
         /\ latest'[u.who] >= u.n
<1>1. latest \in [Tracked -> Nat] /\ u.who \in Tracked /\ u.n \in Nat
  BY DEF RightsInv, RightsType, Change
<1>2. latest[u.who] \in Nat
  BY <1>1
<1> QED
  BY <1>1, <1>2

LEMMA UpdateLostKeeps ==
  ASSUME RightsInv, NEW u \in updates, UpdateLost(u)
  PROVE  RightsInv'
<1>1. /\ handling' = handling /\ UNCHANGED <<source, entry, events>> /\ updates' = updates \ {u}
      /\ latest' = [latest EXCEPT ![u.who] = IF u.n > @ THEN u.n ELSE @]
      /\ races' = IF entry["admins"] # Nothing THEN races \cup {"admins"} ELSE races
      /\ mishaps' = mishaps + 1
  BY DEF UpdateLost, Mishap
<1>2. RightsType /\ u \in Change /\ updates \in SUBSET Change /\ "admins" \in Stores
  BY DEF RightsInv, RightsType, Stores
<1>3. /\ latest' \in [Tracked -> Nat] /\ \A m \in Tracked : latest'[m] >= latest[m]
      /\ latest'[u.who] >= u.n
  BY <1>1, <1>2, LatestFacts
<1>4. \A w : (Unseen(w)' => Unseen(w)) /\ (UnderWay(w)' => UnderWay(w)) /\ (Unseen(w) => Unseen(w)' \/ w = u)
  BY <1>1 DEF Unseen, UnderWay, At, Req
<1>5. NewestTellsTruth'
  BY <1>1, <1>3, <1>4, NewestKept
<1>6. AdminsTrue'
  BY <1>1 DEF AdminsTrue, Misreports
<1>7. /\ races' \subseteq Stores /\ mishaps' \in Nat /\ updates' \in SUBSET Change
      /\ \A t \in Stores \ {"admins"} : entry'[t] = entry[t] /\ (t \in races => t \in races')
  BY <1>1, <1>2 DEF RightsType
<1>8. StillWritten(Stores)
  BY <1>1 DEF StillWritten, Writing
<1>9. \A h \in Goroutines : HoldsTruth(handling[h])'
  BY <1>1 DEF HoldsTruth, RightsInv
<1> QED
  BY <1>1, <1>2, <1>3, <1>5, <1>6, <1>7, <1>8, <1>9, UpdatingStep DEF RightsType

LEMMA RebuildKeeps ==
  ASSUME RightsInv, NEW g \in Goroutines, Rebuild(g)
  PROVE  RightsInv'
<1>1. PICK u : u = Req(g).what
  OBVIOUS
<1> DEFINE f == IF entry["admins"] = Nothing THEN Idle
                ELSE [handling[g] EXCEPT !.val = Rebuilt(entry["admins"], u), !.at = "restore", !.old = FALSE]
<1>2. /\ handling[g].at = "rebuild" /\ handling' = [handling EXCEPT ![g] = f]
      /\ latest' = [latest EXCEPT ![u.who] = IF u.n > @ THEN u.n ELSE @]
      /\ UNCHANGED <<source, entry, races, events, mishaps, updates>>
  BY <1>1 DEF Rebuild, At, sameCounts, cacheVars, Finish
<1>3. RightsType /\ u \in Change /\ entry["admins"] \in Value /\ u.who \in Things
  <2>1. RightsType /\ u \in Change
    BY <1>1, <1>2, HandlesUpdate DEF Updating, RightsInv
  <2> QED
    BY <2>1 DEF RightsType, Stores, Change, Things
<1>4. Rebuilt(entry["admins"], u) \in Value
  BY <1>3, WithAndWithout DEF Rebuilt
<1>5. handling[g] \in Frame /\ Fits(handling[g]) /\ handling[g].s = "admins"
  BY <1>2, Standing DEF Fits
<1>6. /\ f \in Frame /\ Fits(f) /\ f.at \in {"idle", "restore"}
      /\ entry["admins"] = Nothing => f.at = "idle"
      /\ entry["admins"] # Nothing =>
             f.at = "restore" /\ f.req = handling[g].req /\ f.val = Rebuilt(entry["admins"], u)
  <2>1. CASE entry["admins"] = Nothing
    BY <2>1, IdleFacts
  <2>2. CASE entry["admins"] # Nothing
    <3>1. /\ "restore" \in RightsPlaces
          /\ f = [handling[g] EXCEPT !.val = Rebuilt(entry["admins"], u), !.at = "restore", !.old = FALSE]
      BY <2>2 DEF RightsPlaces
    <3> HIDE DEF f
    <3>2. /\ f \in Frame /\ f.at = "restore" /\ f.req = handling[g].req /\ f.s = handling[g].s
          /\ f.next = handling[g].next /\ f.val = Rebuilt(entry["admins"], u)
      BY <1>4, <1>5, <3>1 DEF Frame
    <3>3. Fits(f)
      BY <1>2, <1>5, <3>2 DEF Fits
    <3> QED
      BY <2>2, <3>2, <3>3
  <2> QED
    BY <2>1, <2>2
<1> HIDE DEF f
<1>7. /\ handling' \in [Goroutines -> Frame] /\ handling'[g] = f
      /\ \A h \in Goroutines \ {g} : handling'[h] = handling[h]
      /\ Turns(g, f)
  BY <1>2, <1>3, <1>6, Turned DEF Turns
<1>8. \A h \in Goroutines : Fits(handling'[h])
  BY <1>3, <1>6, <1>7, TurnFits
<1>9. StillWritten(Stores)
  BY <1>2, <1>3, <1>6, <1>7, WritingStays DEF Dropping
<1>10. /\ latest' \in [Tracked -> Nat] /\ \A m \in Tracked : latest'[m] >= latest[m]
       /\ latest'[u.who] >= u.n
  BY <1>2, <1>3, LatestFacts
<1>11. \A w : Unseen(w) => Unseen(w)' \/ w = u
  BY <1>1, <1>2, <1>7 DEF Unseen, At, Req
<1>12. \A w : UnderWay(w)' => UnderWay(w)
  <2> SUFFICES ASSUME NEW w, UnderWay(w)' PROVE UnderWay(w)
    OBVIOUS
  <2>1. CASE w \in updates'
    BY <1>2, <2>1 DEF UnderWay, Unseen
  <2>2. ASSUME NEW h \in Goroutines, handling'[h].at \in {"rebuild", "restore"}, handling'[h].req.what = w
        PROVE  UnderWay(w)
    <3>1. CASE h = g
      <4>1. f.at = "restore" /\ f.req = handling[g].req
        BY <1>6, <1>7, <2>2, <3>1
      <4> QED
        BY <1>2, <1>7, <2>2, <3>1, <4>1 DEF UnderWay, Unseen, At, Req
    <3>2. CASE h # g
      BY <1>7, <2>2, <3>2 DEF UnderWay, Unseen, At, Req
    <3> QED
      BY <3>1, <3>2
  <2> QED
    BY <2>1, <2>2 DEF UnderWay, Unseen, At, Req
<1>13. NewestTellsTruth'
  BY <1>2, <1>3, <1>10, <1>11, <1>12, NewestKept
<1>14. AdminsTrue'
  <2>1. CASE entry["admins"] = Nothing
    BY <1>2, <2>1 DEF AdminsTrue, Misreports
  <2>2. CASE entry["admins"] # Nothing
    <3>1. \A h \in Goroutines : handling'[h].req = handling[h].req
      BY <1>6, <1>7, <2>2
    <3>2. \A m \in Tracked : Told(m) => Told(m)'
      BY <1>2, <3>1 DEF Told, Req
    <3> QED
      BY <1>2, <3>2, EntriesParts DEF AdminsTrue, Misreports, Has, RightsInv
  <2> QED
    BY <2>1, <2>2
<1>15. HoldsTruth(handling[g])'
  <2>1. CASE f.at = "idle"
    BY <1>7, <2>1 DEF HoldsTruth, Holders
  <2>2. CASE f.at = "restore" /\ entry["admins"] # Nothing
    BY <1>1, <1>2, <1>6, <1>7, <2>2 DEF HoldsTruth, Holders, Req
  <2> QED
    BY <1>6, <2>1, <2>2
<1>16. \A h \in Goroutines \ {g} : HoldsTruth(handling[h])'
  BY <1>2, <1>7 DEF HoldsTruth, RightsInv
<1>17. entry' \in [Stores -> Value] /\ races' \subseteq Stores /\ mishaps' \in Nat /\ updates' \in SUBSET Change
  BY <1>2, <1>3 DEF RightsType
<1> QED
  BY <1>2, <1>7, <1>8, <1>9, <1>10, <1>13, <1>14, <1>15, <1>16, <1>17, UpdatingStep

LEMMA RestoreKeeps ==
  ASSUME RightsInv, NEW g \in Goroutines, Restore(g)
  PROVE  RightsInv'
<1>1. PICK u : u = Req(g).what
  OBVIOUS
<1> DEFINE late == handling[g].old \/ u.n < latest[u.who]
<1>2. /\ handling[g].at = "restore" /\ source' = source
      /\ entry' = [entry EXCEPT !["admins"] = handling[g].val]
      /\ races' = IF late THEN races \cup {"admins"} ELSE races
      /\ handling' = [Overtaken(handling, "admins", {"restore"}) EXCEPT ![g] = Idle]
      /\ UNCHANGED <<events, mishaps, updates, latest>>
  BY <1>1 DEF Restore, At, Val, Calm, sameCounts, sameUpdates
<1>3. /\ RightsType /\ u \in Change /\ Req(g).by = u.who /\ Req(g).does = "update"
      /\ handling[g].val \in Value /\ handling[g].old \in BOOLEAN /\ "admins" \in Stores
  BY <1>1, <1>2, Standing, HandlesUpdate DEF Updating, RightsInv, Stores
<1>4. Turns(g, Idle) /\ Ages(Goroutines \ {g}, "admins", {"restore"})
  BY <1>2, <1>3, IdleFacts, OvertakingTurns
<1>5. /\ handling' \in [Goroutines -> Frame] /\ handling'[g] = Idle
      /\ \A h \in Goroutines : Fits(handling'[h])
  BY <1>3, <1>4, IdleFacts, TurnFits DEF Turns
<1>6. \A h \in Goroutines \ {g} : handling'[h].at = handling[h].at /\ handling'[h].req = handling[h].req
  BY <1>3, <1>4, OthersStay
<1>7. StillWritten(Stores)
  BY <1>2, <1>3, <1>4, IdleFacts, WritingStays DEF Dropping
<1>8. \A w : (Unseen(w)' <=> Unseen(w)) /\ (UnderWay(w)' => UnderWay(w))
  <2> SUFFICES ASSUME NEW w PROVE (Unseen(w)' <=> Unseen(w)) /\ (UnderWay(w)' => UnderWay(w))
    OBVIOUS
  <2>1. (\E h \in Goroutines : At(h, "rebuild") /\ Req(h).what = w)'
        <=> \E h \in Goroutines : At(h, "rebuild") /\ Req(h).what = w
    BY <1>2, <1>5, <1>6, IdleFacts DEF At, Req
  <2>2. (\E h \in Goroutines : At(h, "restore") /\ Req(h).what = w)'
        => \E h \in Goroutines : At(h, "restore") /\ Req(h).what = w
    BY <1>2, <1>5, <1>6, IdleFacts DEF At, Req
  <2>3. Unseen(w)' <=> Unseen(w)
    BY <1>2, <2>1 DEF Unseen
  <2> QED
    BY <2>2, <2>3 DEF UnderWay
<1>9. NewestTellsTruth'
  <2>1. latest' \in [Tracked -> Nat] /\ \A m \in Tracked : latest'[m] >= latest[m]
    BY <1>2, <1>3 DEF RightsType
  <2> QED
    BY <1>2, <1>8, <2>1, NewestKept
<1>10. /\ entry' \in [Stores -> Value] /\ entry'["admins"] = handling[g].val
       /\ \A t \in Stores \ {"admins"} : entry'[t] = entry[t] /\ (t \in races => t \in races')
       /\ races' \subseteq Stores
  BY <1>2, <1>3 DEF RightsType
<1>11. \A h \in Goroutines \ {g} : HoldsTruth(handling[h])'
  BY <1>2, <1>3, <1>4, <1>10, HeldAfterStore
<1>12. HoldsTruth(handling[g])'
  BY <1>5, IdleFacts DEF HoldsTruth, Holders
<1>13. AdminsTrue'
  <2>1. CASE late
    BY <1>2, <2>1 DEF AdminsTrue
  <2>2. CASE ~late
    <3>1. /\ entry["admins"] # Nothing /\ entry["admins"] \in Value
          /\ handling[g].val = Rebuilt(entry["admins"], u)
      BY <1>1, <1>2, <1>3, <2>2, Standing DEF HoldsTruth, Req, RightsType
    <3>2. u.is = Has(source["admins"], u.who) \/ \E v \in Change : Unseen(v) /\ v.who = u.who
      <4>1. UnderWay(u)
        BY <1>1, <1>2 DEF UnderWay, At
      <4> QED
        BY <1>3, <2>2, <4>1 DEF RightsInv, NewestTellsTruth, Superseded
    <3>3. ASSUME NEW v \in Change, Unseen(v), v.who = u.who PROVE Told(u.who)'
      <4>1. CASE v \in updates
        BY <1>2, <3>3, <4>1 DEF Told
      <4>2. ASSUME NEW h \in Goroutines, At(h, "rebuild"), Req(h).what = v
            PROVE  Told(u.who)'
        <5>1. h # g
          BY <1>2, <4>2 DEF At
        <5>2. Req(h).does = "update" /\ Req(h).by = u.who
          BY <3>3, <4>2, HandlesUpdate DEF At, Updating
        <5> QED
          BY <1>6, <5>1, <5>2 DEF Told, Req
      <4> QED
        BY <3>3, <4>1, <4>2 DEF Unseen
    <3>4. u.who \in Things /\ u.who \in Tracked /\ u.is \in BOOLEAN
      BY <1>3 DEF Change, Things
    <3>5. /\ Has(entry'["admins"], u.who) <=> u.is
          /\ \A m : m # u.who => (Has(entry'["admins"], m) <=> Has(entry["admins"], m))
      BY <1>10, <3>1, <3>4, WithAndWithout DEF Rebuilt
    <3> SUFFICES ASSUME NEW m \in Tracked, Misreports(m)' PROVE "admins" \in races' \/ Told(m)'
      BY DEF AdminsTrue
    <3>6. Has(entry'["admins"], m) # Has(source["admins"], m)
      BY <1>2 DEF Misreports
    <3>7. CASE m = u.who
      <4>1. Has(source["admins"], m) \in BOOLEAN /\ Has(entry'["admins"], m) \in BOOLEAN
        BY DEF Has
      <4>2. u.is # Has(source["admins"], u.who)
        BY <3>4, <3>5, <3>6, <3>7, <4>1
      <4> QED
        BY <3>2, <3>3, <3>7, <4>2
    <3>8. CASE m # u.who
      <4>1. Has(entry["admins"], m) \in BOOLEAN /\ Has(entry'["admins"], m) \in BOOLEAN
        BY DEF Has
      <4>2. Misreports(m)
        BY <3>1, <3>5, <3>6, <3>8, <4>1 DEF Misreports
      <4>3. "admins" \in races \/ Told(m)
        BY <4>2, EntriesParts DEF AdminsTrue, RightsInv
      <4>4. Told(m) => Told(m)'
        BY <1>2, <1>3, <1>6, <3>8 DEF Told, Req
      <4> QED
        BY <1>2, <4>3, <4>4
    <3> QED
      BY <3>7, <3>8
  <2> QED
    BY <2>1, <2>2
<1>14. mishaps' \in Nat /\ updates' \in SUBSET Change /\ latest' \in [Tracked -> Nat]
  BY <1>2, <1>3 DEF RightsType
<1> QED
  BY <1>2, <1>5, <1>7, <1>9, <1>10, <1>11, <1>12, <1>13, <1>14, UpdatingStep
-----------------------------------------------------------------------------
(* The steps of nobody's goroutine. *)

\* What such a step leaves of every goroutine.
LEMMA AllStay ==
  ASSUME RightsType, NEW s, NEW places, handling' \in [Goroutines -> Frame], Ages(Goroutines, s, places)
  PROVE  /\ \A h \in Goroutines :
                /\ handling'[h].at = handling[h].at /\ handling'[h].req = handling[h].req
                /\ handling'[h].s = handling[h].s /\ Fits(handling'[h])
         /\ StillWritten(Stores)
<1>1. ASSUME NEW h \in Goroutines
      PROVE  /\ handling'[h].at = handling[h].at /\ handling'[h].req = handling[h].req
             /\ handling'[h].s = handling[h].s /\ handling'[h].next = handling[h].next
  BY OldFacts DEF Ages, RightsType
<1>2. ASSUME NEW h \in Goroutines PROVE Fits(handling'[h])
  BY <1>1 DEF RightsType, Fits
<1>3. StillWritten(Stores)
  BY <1>1 DEF StillWritten, Writing
<1> QED
  BY <1>1, <1>2, <1>3

LEMMA AllAge ==
  ASSUME RightsType, NEW s, NEW places, handling' = Overtaken(handling, s, places)
  PROVE  handling' \in [Goroutines -> Frame] /\ Ages(Goroutines, s, places)
<1> DEFINE fs == Overtaken(handling, s, places)
<1>1. fs \in [Goroutines -> Frame]
  BY Overtaking
<1>2. \A h \in Goroutines : fs[h] = IF handling[h].s = s /\ handling[h].at \in places
                                   THEN [handling[h] EXCEPT !.old = TRUE] ELSE handling[h]
  BY Overtaking
<1>3. handling' = fs
  OBVIOUS
<1> HIDE DEF fs
<1> QED
  BY <1>1, <1>2, <1>3 DEF Ages

LEMMA ExpireKeeps ==
  ASSUME RightsInv, NEW s \in Stores, Expire(s)
  PROVE  RightsInv'
<1>1. /\ Cache(s, Nothing, FALSE) /\ source' = source
      /\ handling' = IF s = "admins" THEN Overtaken(handling, s, {"restore"}) ELSE handling
      /\ mishaps' = mishaps + 1 /\ UNCHANGED <<events, updates, latest>>
  BY DEF Expire, Uncache, Mishap, sameUpdates
<1>2. RightsType /\ EntriesTellTheTruth /\ Nothing \in Value
  BY DEF RightsInv, Value
<1>3. handling' \in [Goroutines -> Frame] /\ Ages(Goroutines, s, {"restore"})
  <2>1. CASE s = "admins"
    BY <1>1, <1>2, <2>1, AllAge
  <2>2. CASE s # "admins"
    <3>1. \A h \in Goroutines : handling[h].at = "restore" => handling[h].s # s
      BY <2>2, Standing DEF Fits
    <3>2. handling' = handling
      BY <1>1, <2>2
    <3> QED
      BY <1>2, <3>1, <3>2 DEF Ages, RightsType
  <2> QED
    BY <2>1, <2>2
<1>4. /\ \A h \in Goroutines :
             handling'[h].at = handling[h].at /\ handling'[h].req = handling[h].req /\ Fits(handling'[h])
      /\ StillWritten(Stores)
  BY <1>2, <1>3, AllStay
<1>5. StillTold
  BY <1>1, <1>4 DEF StillTold, Told, Req
<1>6. EntriesTellTheTruth' /\ entry' \in [Stores -> Value] /\ races' \subseteq Stores
  BY <1>1, <1>2, <1>4, <1>5, EntryStored DEF StillWritten
<1>7. \A t \in Stores \ {s} : entry'[t] = entry[t]
  BY <1>1, <1>2 DEF Cache, RightsType
<1>8. \A h \in Goroutines : HoldsTruth(handling[h])'
  BY <1>1, <1>3, <1>6, <1>7, HeldAfterStore
<1>9. NewestTellsTruth'
  <2>1. \A w : (Unseen(w)' <=> Unseen(w)) /\ (UnderWay(w)' => UnderWay(w))
    BY <1>1, <1>4 DEF Unseen, UnderWay, At, Req
  <2>2. latest' \in [Tracked -> Nat] /\ \A m \in Tracked : latest'[m] >= latest[m]
    BY <1>1, <1>2 DEF RightsType
  <2> QED
    BY <1>1, <2>1, <2>2, NewestKept
<1>10. RightsType'
  BY <1>1, <1>2, <1>3, <1>4, <1>6 DEF RightsType
<1> QED
  BY <1>6, <1>8, <1>9, <1>10 DEF RightsInv

LEMMA ModerateKeeps ==
  ASSUME RightsInv, NEW who \in Users \cup Tracked, Moderate(who)
  PROVE  RightsInv'
<1>1. PICK is, u : is = ~Has(source["admins"], who) /\ u = [who |-> who, is |-> is, n |-> events + 1]
  OBVIOUS
<1>2. /\ source' = [source EXCEPT !["admins"] = IF is THEN With(@, who) ELSE Without(@, who)]
      /\ updates' = IF who \in Tracked THEN updates \cup {u} ELSE updates
      /\ handling' = Overtaken(handling, "admins", {"fill"})
      /\ events' = events + 1 /\ UNCHANGED <<entry, races, mishaps, latest>>
  BY <1>1 DEF Moderate
<1>3. /\ RightsType /\ EntriesTellTheTruth /\ "admins" \in Stores /\ who \in Things
      /\ source["admins"] \in Value /\ events \in Nat
  BY DEF RightsInv, RightsType, Stores, Things
<1>4. is \in BOOLEAN /\ u.who = who /\ u.is = is /\ u.n = events + 1 /\ (who \in Tracked => u \in Change)
  BY <1>1, <1>3 DEF Has, Change
<1>5. /\ source' \in [Stores -> Value] /\ \A t \in Stores \ {"admins"} : source'[t] = source[t]
      /\ Has(source'["admins"], who) <=> is
      /\ \A m : m # who => (Has(source'["admins"], m) <=> Has(source["admins"], m))
  <2>1. CASE is
    <3>1. source' = [source EXCEPT !["admins"] = With(source["admins"], who)]
      BY <1>2, <2>1
    <3> HIDE DEF With
    <3> QED
      BY <1>3, <2>1, <3>1, WithAndWithout DEF RightsType
  <2>2. CASE ~is
    <3>1. source' = [source EXCEPT !["admins"] = Without(source["admins"], who)]
      BY <1>2, <2>2
    <3> QED
      BY <1>3, <2>2, <3>1, WithAndWithout DEF RightsType
  <2> QED
    BY <1>4, <2>1, <2>2
<1>6. handling' \in [Goroutines -> Frame] /\ Ages(Goroutines, "admins", {"fill"})
  BY <1>2, <1>3, AllAge
<1>7. /\ \A h \in Goroutines :
             /\ handling'[h].at = handling[h].at /\ handling'[h].req = handling[h].req
             /\ handling'[h].s = handling[h].s /\ Fits(handling'[h])
      /\ StillWritten(Stores)
  BY <1>3, <1>6, AllStay
<1>8. \A w : (Unseen(w) => Unseen(w)') /\ (UnderWay(w)' => UnderWay(w) \/ (w = u /\ who \in Tracked))
  BY <1>2, <1>7 DEF Unseen, UnderWay, At, Req
<1>9. NewestTellsTruth'
  <2> SUFFICES ASSUME NEW w \in Change, UnderWay(w)'
               PROVE  /\ w.n <= events'
                      /\ (w.is = Has(source["admins"], w.who) \/ Superseded(w))'
    BY DEF NewestTellsTruth
  <2>1. w.n \in Nat /\ w.is \in BOOLEAN
    BY DEF Change
  <2>2. CASE w = u
    <3>1. Has(source'["admins"], w.who) \in BOOLEAN
      BY DEF Has
    <3> QED
      BY <1>2, <1>3, <1>4, <1>5, <2>2, <3>1
  <2>3. CASE w # u /\ w.who = who
    <3>1. UnderWay(w)
      BY <1>8, <2>3
    <3>2. w.n <= events
      BY <3>1 DEF RightsInv, NewestTellsTruth
    <3>3. who \in Tracked
      BY <2>3 DEF Change
    <3>4. Unseen(u)'
      BY <1>2, <3>3 DEF Unseen
    <3>5. w.n < u.n /\ w.n <= events'
      BY <1>2, <1>3, <1>4, <2>1, <3>2
    <3> QED
      BY <1>4, <2>3, <3>3, <3>4, <3>5 DEF Superseded
  <2>4. CASE w # u /\ w.who # who
    <3>1. UnderWay(w)
      BY <1>8, <2>4
    <3>2. w.n <= events /\ (w.is = Has(source["admins"], w.who) \/ Superseded(w))
      BY <3>1 DEF RightsInv, NewestTellsTruth
    <3>3. CASE Superseded(w)
      <4>1. Superseded(w)'
        BY <1>2, <1>8, <3>3 DEF Superseded
      <4> QED
        BY <1>2, <1>3, <2>1, <3>2, <4>1
    <3>4. CASE w.is = Has(source["admins"], w.who)
      <4>1. Has(source'["admins"], w.who) \in BOOLEAN /\ Has(source["admins"], w.who) \in BOOLEAN
        BY DEF Has
      <4>2. w.is = Has(source'["admins"], w.who)
        BY <1>5, <2>4, <3>4, <4>1
      <4> QED
        BY <1>2, <1>3, <2>1, <3>2, <4>2
    <3> QED
      BY <3>2, <3>3, <3>4
  <2> QED
    BY <2>2, <2>3, <2>4
<1>10. DocsTrue'
  BY <1>2, <1>3, <1>5, <1>7, EntriesParts DEF DocsTrue, StillWritten, OutOfDate
<1>11. AdminsTrue'
  <2> SUFFICES ASSUME NEW m \in Tracked, Misreports(m)' PROVE "admins" \in races' \/ Told(m)'
    BY DEF AdminsTrue
  <2>1. CASE m = who
    BY <1>2, <1>4, <2>1 DEF Told
  <2>2. CASE m # who
    <3>1. /\ Has(source'["admins"], m) \in BOOLEAN /\ Has(source["admins"], m) \in BOOLEAN
          /\ Has(source'["admins"], m) <=> Has(source["admins"], m)
      BY <1>5, <2>2 DEF Has
    <3>2. entry'["admins"] # Nothing /\ Has(entry'["admins"], m) # Has(source'["admins"], m)
      BY DEF Misreports
    <3>3. Misreports(m)
      BY <1>2, <3>1, <3>2 DEF Misreports
    <3>4. "admins" \in races \/ Told(m)
      BY <1>3, <3>3, EntriesParts DEF AdminsTrue
    <3>5. Told(m) => Told(m)'
      BY <1>2, <1>7 DEF Told, Req
    <3> QED
      BY <1>2, <3>4, <3>5
  <2> QED
    BY <2>1, <2>2
<1>12. EntriesTellTheTruth'
  BY <1>10, <1>11, EntriesParts, PTL
<1>13. ASSUME NEW h \in Goroutines PROVE HoldsTruth(handling[h])'
  <2>1. /\ handling[h] \in Frame /\ HoldsTruth(handling[h]) /\ handling[h].s \in Stores
        /\ handling[h].at = "put" => handling[h].s = "logger"
    BY Standing DEF Fits
  <2>2. CASE handling[h].s = "admins" /\ handling[h].at = "fill"
    <3>1. handling'[h] = [handling[h] EXCEPT !.old = TRUE]
      BY <1>6, <2>2 DEF Ages
    <3> QED
      BY <2>1, <2>2, <3>1, OldFacts DEF HoldsTruth, Holders
  <2>3. CASE ~(handling[h].s = "admins" /\ handling[h].at = "fill")
    <3>1. handling'[h] = handling[h]
      BY <1>6, <2>3 DEF Ages
    <3>2. handling[h].at \in Holders => source'[handling[h].s] = source[handling[h].s]
      BY <1>5, <2>1, <2>3 DEF Holders
    <3> QED
      BY <1>2, <2>1, <3>1, <3>2 DEF HoldsTruth
  <2> QED
    BY <2>2, <2>3
<1>14. RightsType'
  <2>1. updates' \in SUBSET Change
    BY <1>2, <1>3, <1>4 DEF RightsType
  <2> QED
    BY <1>2, <1>3, <1>5, <1>6, <1>7, <2>1 DEF RightsType
<1> QED
  BY <1>9, <1>12, <1>13, <1>14 DEF RightsInv

-----------------------------------------------------------------------------
(* Every step. *)

LEMMA RightsInitInv == RightsInit => RightsInv
<1> SUFFICES ASSUME RightsInit PROVE RightsInv
  OBVIOUS
<1>1. /\ races = {} /\ handling = [g \in Goroutines |-> Idle] /\ events = 0 /\ mishaps = 0
      /\ updates = {} /\ latest = [m \in Tracked |-> 0]
  BY DEF RightsInit
<1>2. PICK c \in {Nothing, <<Settings>>} :
          source = [s \in Stores |->
              CASE s = "chat" -> c [] s = "auth" -> IF c = Nothing THEN Nothing ELSE <<Users>>
                [] s = "logger" -> Nothing [] s = "admins" -> <<Tracked \cup {CHOOSE u \in Users : TRUE}>>]
  BY DEF RightsInit
<1>3. entry \in {[s \in Stores |-> Nothing], source}
  BY DEF RightsInit
<1>4. (CHOOSE u \in Users : TRUE) \in Users
  BY SomeUsers
<1>5. {Nothing, <<Settings>>, <<Users>>, <<Tracked \cup {CHOOSE u \in Users : TRUE}>>} \subseteq Value
  BY <1>4 DEF Value, Things
<1>6. source \in [Stores -> Value]
  <2>1. \A s \in Stores : source[s] \in {Nothing, <<Settings>>, <<Users>>, <<Tracked \cup {CHOOSE u \in Users : TRUE}>>}
    BY <1>2 DEF Stores
  <2> QED
    BY <1>2, <1>5, <2>1
<1>7. entry \in [Stores -> Value]
  BY <1>3, <1>5, <1>6
<1>8. \A g \in Goroutines : handling[g] = Idle
  BY <1>1
<1>9. RightsType
  BY <1>1, <1>6, <1>7, <1>8, IdleFacts DEF RightsType
<1>10. \A g \in Goroutines : HoldsTruth(handling[g])
  BY <1>8, IdleFacts DEF HoldsTruth, Holders
<1>11. NewestTellsTruth
  BY <1>1, <1>8, IdleFacts DEF NewestTellsTruth, UnderWay, Unseen, At
<1>12. EntriesTellTheTruth
  <2>1. \A s \in Stores : ~OutOfDate(s)
    BY <1>3 DEF OutOfDate
  <2>2. \A m \in Tracked : ~Misreports(m)
    BY <1>3 DEF Misreports, Stores
  <2> QED
    BY <2>1, <2>2 DEF EntriesTellTheTruth
<1> QED
  BY <1>9, <1>10, <1>11, <1>12 DEF RightsInv

LEMMA RightsNextInv == RightsInv /\ [RightsNext]_rightsVars => RightsInv'
<1> SUFFICES ASSUME RightsInv, [RightsNext]_rightsVars PROVE RightsInv'
  OBVIOUS
<1>1. CASE UNCHANGED rightsVars
  BY <1>1 DEF rightsVars, cacheVars, RightsInv, RightsType, HoldsTruth, NewestTellsTruth, UnderWay, Unseen,
        At, Req, Superseded, EntriesTellTheTruth, OutOfDate, Writing, Misreports, Told, Rebuilt
<1>2. ASSUME NEW g \in Goroutines,
             \/ Begin(g) \/ Get(g) \/ Read(g) \/ ReadFails(g) \/ Fill(g)
             \/ LookUp(g) \/ Proceed(g) \/ LookUpTarget(g)
             \/ Write(g) \/ WriteFails(g) \/ Drop(g) \/ Put(g)
             \/ ClearAdminCache(g) \/ Rebuild(g) \/ Restore(g)
             \/ \E u \in updates : HandleUpdate(g, u)
      PROVE  RightsInv'
  BY <1>2, BeginKeeps, GetKeeps, ReadKeeps, ReadFailsKeeps, FillKeeps, LookUpKeeps, ProceedKeeps,
     LookUpTargetKeeps, WriteKeeps, WriteFailsKeeps, DropKeeps, PutKeeps, ClearAdminCacheKeeps,
     RebuildKeeps, RestoreKeeps, HandleUpdateKeeps
<1> QED
  BY <1>1, <1>2, ModerateKeeps, UpdateLostKeeps, ExpireKeeps DEF RightsNext
-----------------------------------------------------------------------------
(* The verdicts on commands.  While nothing is out of date and nothing is   *)
(* lost, what was found out so far is still so at the verdict.              *)

Deciding == {"start", "authlist", "settings"}
Asks == {"get", "read", "fill"}
Restricted(r) == Has(source["chat"], Restricts(r))
BotSits == Has(source["admins"], Bot) /\ entry["admins"] # Nothing

\* What is known where the command has got to.
Judging(f) ==
    /\ f.req.does \in Deciding
    /\ f.at \in Asks \cup {"lookup", "allowed", "denied"}
    /\ f.at \in Asks =>
           \/ f.next = "bot" /\ f.s = "admins"
           \/ f.next = "mode" /\ f.s = "chat" /\ BotSits
           \/ f.next = "member" /\ f.s = "admins" /\ BotSits /\ Restricted(f.req) /\ f.req.does = "start"
           \/ /\ f.next = "authorized" /\ f.s = "auth" /\ BotSits /\ Restricted(f.req)
              /\ ~Has(source["admins"], f.req.by)
    /\ f.at = "fill" => f.val = source[f.s]
    /\ f.at = "lookup" => BotSits /\ Restricted(f.req)
    /\ f.at = "allowed" => Due(f.req)
    /\ f.at = "denied" => ~Due(f.req)

FairlyJudged(g) == fair[g] => UpToDate /\ (~At(g, "idle") => Judging(handling[g]))
VerdictsInv == RightsInv /\ \A g \in Goroutines : FairlyJudged(g)

LEMMA VerdictsInvImplies == VerdictsInv => EntriesTellTheTruth /\ VerdictsAreDue
<1>1. VerdictsInv => EntriesTellTheTruth
  BY DEF VerdictsInv, RightsInv
<1>2. ASSUME VerdictsInv, NEW g \in Goroutines, fair[g], handling[g].at \in {"allowed", "denied"}
      PROVE  At(g, "allowed") <=> Due(Req(g))
  BY <1>2 DEF VerdictsInv, FairlyJudged, Judging, At, Req
<1> QED
  BY <1>1, <1>2 DEF VerdictsAreDue

\* What stays as it was while a command is judged fairly.
FairStep ==
    /\ \A s \in Judged : source'[s] = source[s]
    /\ entry["admins"] # Nothing => entry'["admins"] # Nothing

LEMMA JudgedSources ==
  ASSUME FairStep
  PROVE  /\ source'["chat"] = source["chat"] /\ source'["auth"] = source["auth"]
         /\ source'["admins"] = source["admins"] /\ (BotSits => BotSits')
         /\ \A r : (Restricted(r)' <=> Restricted(r)) /\ (Due(r)' <=> Due(r))
<1>1. /\ source'["chat"] = source["chat"] /\ source'["auth"] = source["auth"]
      /\ source'["admins"] = source["admins"]
  BY DEF FairStep, Judged, Stores
<1>2. BotSits => BotSits'
  BY <1>1 DEF BotSits, Has, FairStep
<1>3. ASSUME NEW r PROVE (Restricted(r)' <=> Restricted(r)) /\ (Due(r)' <=> Due(r))
  BY <1>1 DEF Restricted, Due, Has, Restricts
<1> QED
  BY <1>1, <1>2, <1>3

\* A value that is the source's leads on to the right question, or verdict.
LEMMA GotJudging ==
  ASSUME NEW f \in Frame, f.at \in Asks, Judging(f), FairStep,
         f.s = "admins" /\ source["admins"] # Nothing => entry'["admins"] # Nothing,
         NEW q, q = Got(f, source[f.s])
  PROVE  Judging(q)'
<1>1. /\ source'["chat"] = source["chat"] /\ source'["auth"] = source["auth"]
      /\ source'["admins"] = source["admins"] /\ (BotSits => BotSits')
      /\ \A r : (Restricted(r)' <=> Restricted(r)) /\ (Due(r)' <=> Due(r))
  BY JudgedSources
<1>2. /\ {"chat", "auth", "admins"} \subseteq Stores /\ {"mode", "member"} \subseteq Nexts
      /\ {"lookup", "allowed", "denied"} \subseteq RightsPlaces
  BY DEF Stores, Nexts, RightsPlaces
<1>3. f.req.does \in Deciding
  BY DEF Judging
<1>4. CASE f.next = "bot" /\ f.s = "admins"
  <2>1. CASE Has(source["admins"], Bot)
    <3>1. q = Asking(f, "chat", "mode")
      BY <1>4, <2>1 DEF Got
    <3>2. q.at = "get" /\ q.req = f.req /\ q.s = "chat" /\ q.next = "mode"
      BY <1>2, <3>1, AskingFacts
    <3>3. BotSits'
      BY <1>1, <1>4, <2>1 DEF BotSits, Has
    <3> QED
      BY <1>3, <3>2, <3>3 DEF Judging, Asks
  <2>2. CASE ~Has(source["admins"], Bot)
    <3>1. q = Concluded(f, "denied")
      BY <1>4, <2>2 DEF Got
    <3>2. q.at = "denied" /\ q.req = f.req
      BY <1>2, <3>1, ConcludedFacts
    <3>3. ~Due(q.req)'
      BY <1>1, <2>2 DEF Due, Has
    <3> QED
      BY <1>3, <3>2, <3>3 DEF Judging, Asks
  <2> QED
    BY <2>1, <2>2
<1>5. CASE f.next = "mode" /\ f.s = "chat" /\ BotSits
  <2>1. CASE ~Restricted(f.req)
    <3>1. q = Concluded(f, "allowed")
      BY <1>5, <2>1 DEF Got, Restricted
    <3>2. q.at = "allowed" /\ q.req = f.req
      BY <1>2, <3>1, ConcludedFacts
    <3>3. Due(q.req)
      BY <1>5, <2>1, <3>2 DEF Due, BotSits, Restricted
    <3> QED
      BY <1>1, <1>3, <3>2, <3>3 DEF Judging, Asks
  <2>2. CASE Restricted(f.req) /\ f.req.does = "start"
    <3>1. q = Asking(f, "admins", "member")
      BY <1>5, <2>2 DEF Got, Restricted
    <3>2. q.at = "get" /\ q.req = f.req /\ q.s = "admins" /\ q.next = "member"
      BY <1>2, <3>1, AskingFacts
    <3> QED
      BY <1>1, <1>3, <1>5, <2>2, <3>2 DEF Judging, Asks
  <2>3. CASE Restricted(f.req) /\ f.req.does # "start"
    <3>1. q = Concluded(f, "lookup")
      BY <1>5, <2>3 DEF Got, Restricted
    <3>2. q.at = "lookup" /\ q.req = f.req
      BY <1>2, <3>1, ConcludedFacts
    <3> QED
      BY <1>1, <1>3, <1>5, <2>3, <3>2 DEF Judging, Asks
  <2> QED
    BY <2>1, <2>2, <2>3
<1>6. CASE f.next = "member" /\ f.s = "admins" /\ BotSits /\ Restricted(f.req) /\ f.req.does = "start"
  <2>1. CASE Has(source["admins"], f.req.by)
    <3>1. q = Concluded(f, "allowed")
      BY <1>6, <2>1 DEF Got
    <3>2. q.at = "allowed" /\ q.req = f.req
      BY <1>2, <3>1, ConcludedFacts
    <3>3. Due(q.req)
      BY <1>6, <2>1, <3>2 DEF Due, BotSits
    <3> QED
      BY <1>1, <1>3, <3>2, <3>3 DEF Judging, Asks
  <2>2. CASE ~Has(source["admins"], f.req.by)
    <3>1. q = Concluded(f, "lookup")
      BY <1>6, <2>2 DEF Got
    <3>2. q.at = "lookup" /\ q.req = f.req
      BY <1>2, <3>1, ConcludedFacts
    <3> QED
      BY <1>1, <1>3, <1>6, <3>2 DEF Judging, Asks
  <2> QED
    BY <2>1, <2>2
<1>7. CASE /\ f.next = "authorized" /\ f.s = "auth" /\ BotSits /\ Restricted(f.req)
           /\ ~Has(source["admins"], f.req.by)
  <2>1. CASE Has(source["auth"], f.req.by)
    <3>1. q = Concluded(f, "allowed")
      BY <1>7, <2>1 DEF Got
    <3>2. q.at = "allowed" /\ q.req = f.req
      BY <1>2, <3>1, ConcludedFacts
    <3>3. Due(q.req)
      BY <1>7, <2>1, <3>2 DEF Due, BotSits
    <3> QED
      BY <1>1, <1>3, <3>2, <3>3 DEF Judging, Asks
  <2>2. CASE ~Has(source["auth"], f.req.by)
    <3>1. q = Concluded(f, "denied")
      BY <1>7, <2>2 DEF Got
    <3>2. q.at = "denied" /\ q.req = f.req
      BY <1>2, <3>1, ConcludedFacts
    <3>3. ~Due(q.req)
      BY <1>7, <2>2, <3>2 DEF Due, Restricted
    <3> QED
      BY <1>1, <1>3, <3>2, <3>3 DEF Judging, Asks
  <2> QED
    BY <2>1, <2>2
<1> QED
  BY <1>4, <1>5, <1>6, <1>7 DEF Judging

\* Nothing that it is judged by has changed.
LEMMA JudgingStays ==
  ASSUME NEW f, Judging(f), FairStep, f.at = "fill" => f.s \in Judged,
         NEW q, q.at = f.at, q.req = f.req, q.s = f.s, q.next = f.next, q.val = f.val
  PROVE  Judging(q)'
<1>1. /\ source'["chat"] = source["chat"] /\ source'["auth"] = source["auth"]
      /\ source'["admins"] = source["admins"] /\ (BotSits => BotSits')
      /\ \A r : (Restricted(r)' <=> Restricted(r)) /\ (Due(r)' <=> Due(r))
  BY JudgedSources
<1>2. f.at = "fill" => source'[f.s] = source[f.s]
  BY DEF FairStep
<1> QED
  BY <1>1, <1>2 DEF Judging, Has
\* Nobody changes what another goroutine does; he may be overtaken.
Aged(h) == handling'[h] = handling[h] \/ handling'[h] = [handling[h] EXCEPT !.old = TRUE]

LEMMA OthersAge ==
  ASSUME RightsType, NEW g \in Goroutines, NEW s, NEW places, NEW e,
         handling' = [Overtaken(handling, s, places) EXCEPT ![g] = e],
         NEW h \in Goroutines \ {g}
  PROVE  Aged(h)
<1> DEFINE fs == Overtaken(handling, s, places)
<1>1. fs \in [Goroutines -> Frame]
  BY Overtaking
<1>2. fs[h] = handling[h] \/ fs[h] = [handling[h] EXCEPT !.old = TRUE]
  <2>1. fs[h] = IF handling[h].s = s /\ handling[h].at \in places
                THEN [handling[h] EXCEPT !.old = TRUE] ELSE handling[h]
    BY Overtaking
  <2> QED
    BY <2>1
<1>3. handling' = [fs EXCEPT ![g] = e]
  OBVIOUS
<1> HIDE DEF fs
<1>4. handling'[h] = fs[h]
  BY <1>1, <1>3
<1> QED
  BY <1>2, <1>4 DEF Aged

GoroutineSteps(g) ==
    \/ Begin(g) \/ Get(g) \/ Read(g) \/ ReadFails(g) \/ Fill(g)
    \/ LookUp(g) \/ Proceed(g) \/ LookUpTarget(g)
    \/ Write(g) \/ WriteFails(g) \/ Drop(g) \/ Put(g)
    \/ ClearAdminCache(g) \/ Rebuild(g) \/ Restore(g)
    \/ \E u \in updates : HandleUpdate(g, u)

LEMMA OthersAged ==
  ASSUME RightsInv, NEW g \in Goroutines, GoroutineSteps(g), NEW h \in Goroutines \ {g}
  PROVE  Aged(h)
<1>1. RightsType /\ h \in Goroutines /\ h # g
  BY DEF RightsInv
<1>2. ASSUME NEW e, handling' = [handling EXCEPT ![g] = e] PROVE Aged(h)
  BY <1>1, <1>2 DEF Aged, RightsType
<1>3. ASSUME NEW s, NEW places, NEW e, handling' = [Overtaken(handling, s, places) EXCEPT ![g] = e]
      PROVE  Aged(h)
  BY <1>1, <1>3, OthersAge
<1>4. CASE Begin(g)
  BY <1>2, <1>4 DEF Begin
<1>5. CASE Get(g) \/ Read(g) \/ ReadFails(g)
  BY <1>2, <1>5 DEF Get, Read, ReadFails
<1>6. CASE Fill(g)
  <2>1. \E e : handling' = [Overtaken(handling, handling[g].s, {"restore"}) EXCEPT ![g] = e]
    BY <1>6 DEF Fill
  <2> QED
    BY <1>3, <2>1
<1>7. CASE LookUp(g)
  BY <1>2, <1>7 DEF LookUp, Fetch
<1>8. CASE Proceed(g)
  BY <1>2, <1>8 DEF Proceed, Fetch, Finish
<1>9. CASE LookUpTarget(g)
  BY <1>2, <1>9 DEF LookUpTarget, Fetch, Finish
<1>10. CASE Write(g)
  <2>1. CASE Written(g) # source[handling[g].s]
    <3>1. \E e : handling' = [Overtaken(handling, handling[g].s, Holders) EXCEPT ![g] = e]
      BY <1>10, <2>1 DEF Write
    <3> QED
      BY <1>3, <3>1
  <2>2. CASE Written(g) = source[handling[g].s]
    <3>1. \E e : handling' = [handling EXCEPT ![g] = e]
      BY <1>10, <2>2 DEF Write
    <3> QED
      BY <1>2, <3>1
  <2> QED
    BY <2>1, <2>2
<1>11. CASE WriteFails(g)
  <2>1. \/ \E e : handling' = [handling EXCEPT ![g] = e]
        \/ \E e : handling' = [Overtaken(handling, handling[g].s, Holders) EXCEPT ![g] = e]
    BY <1>11 DEF WriteFails
  <2> QED
    BY <1>2, <1>3, <2>1
<1>12. CASE Drop(g) \/ Put(g)
  BY <1>2, <1>12 DEF Drop, Put, Finish
<1>13. CASE ClearAdminCache(g)
  <2>1. \E e : handling' = [Overtaken(handling, "admins", {"restore"}) EXCEPT ![g] = e]
    BY <1>13 DEF ClearAdminCache
  <2> QED
    BY <1>3, <2>1
<1>14. CASE Rebuild(g)
  <2>1. \E e : handling' = [handling EXCEPT ![g] = e]
    BY <1>14 DEF Rebuild, Finish
  <2> QED
    BY <1>2, <2>1
<1>15. CASE Restore(g)
  BY <1>3, <1>15 DEF Restore
<1>16. CASE \E u \in updates : HandleUpdate(g, u)
  BY <1>2, <1>16 DEF HandleUpdate
<1> QED
  BY <1>4, <1>5, <1>6, <1>7, <1>8, <1>9, <1>10, <1>11, <1>12, <1>13, <1>14, <1>15, <1>16 DEF GoroutineSteps

\* A command is judged on.
LEMMA OwnStep ==
  ASSUME RightsInv, NEW g \in Goroutines, GoroutineSteps(g), FairStep, UpToDate, mishaps' = mishaps,
         Judging(handling[g]), handling[g].at \notin {"allowed", "denied"}
  PROVE  Judging(handling[g])'
<1> DEFINE s == handling[g].s
<1>1. /\ RightsType /\ handling[g] \in Frame /\ mishaps \in Nat /\ s \in Stores
  BY Standing DEF RightsInv
<1>2. /\ handling[g].at \in Asks \cup {"lookup"}
      /\ handling[g].at \in Asks => s \in {"chat", "auth", "admins"}
      /\ handling[g].at = "fill" => handling[g].val = source[s]
  BY DEF Judging
<1>3. handling[g].at \in Asks => s \in Judged
  BY <1>2 DEF Judged, Stores
<1>4. ASSUME handling[g].at \in Asks, s = "admins" /\ source["admins"] # Nothing => entry'["admins"] # Nothing,
             handling'[g] = Got(handling[g], source[s])
      PROVE  Judging(handling[g])'
  <2>1. PICK q : q = handling'[g]
    OBVIOUS
  <2>2. Judging(q)'
    BY <1>1, <1>4, <2>1, GotJudging
  <2> QED
    BY <2>1, <2>2 DEF Judging
<1>5. CASE Get(g)
  <2>1. /\ handling[g].at = "get" /\ entry' = entry
        /\ handling' = [handling EXCEPT ![g] =
               IF entry[s] = Nothing THEN [handling[g] EXCEPT !.at = "read"] ELSE Got(handling[g], entry[s])]
    BY <1>5 DEF Get, At, cacheVars
  <2>2. s \in Judged /\ entry[s] \in {Nothing, source[s]}
    BY <1>3, <2>1 DEF Asks, UpToDate, OutOfDate
  <2>3. CASE entry[s] = Nothing
    <3>1. handling'[g] = [handling[g] EXCEPT !.at = "read"]
      BY <1>1, <2>1, <2>3 DEF RightsType
    <3>2. /\ handling'[g].at = "read" /\ handling'[g].req = handling[g].req /\ handling'[g].s = s
          /\ handling'[g].next = handling[g].next
      BY <1>1, <3>1 DEF Frame
    <3>3. /\ BotSits => BotSits'
          /\ source'["admins"] = source["admins"]
          /\ \A r : Restricted(r)' <=> Restricted(r)
      BY JudgedSources
    <3> QED
      BY <2>1, <3>2, <3>3 DEF Judging, Asks, Has
  <2>4. CASE entry[s] # Nothing
    <3>1. handling'[g] = Got(handling[g], source[s])
      BY <1>1, <2>1, <2>2, <2>4 DEF RightsType
    <3>2. s = "admins" => entry'["admins"] # Nothing
      BY <2>1, <2>4
    <3> QED
      BY <1>4, <2>1, <3>1, <3>2 DEF Asks
  <2> QED
    BY <2>3, <2>4
<1>6. CASE Read(g)
  <2>1. /\ handling[g].at = "read"
        /\ handling' = [handling EXCEPT ![g] =
               IF source[s] = Nothing THEN Got(handling[g], Nothing)
               ELSE [handling[g] EXCEPT !.val = source[s], !.at = "fill", !.old = FALSE]]
    BY <1>6 DEF Read, At
  <2>2. CASE source[s] = Nothing
    <3>1. handling'[g] = Got(handling[g], source[s])
      BY <1>1, <2>1, <2>2 DEF RightsType
    <3>2. ~(s = "admins" /\ source["admins"] # Nothing)
      BY <2>2
    <3> QED
      BY <1>4, <2>1, <3>1, <3>2 DEF Asks
  <2>3. CASE source[s] # Nothing
    <3>1. handling'[g] = [handling[g] EXCEPT !.val = source[s], !.at = "fill", !.old = FALSE]
      BY <1>1, <2>1, <2>3 DEF RightsType
    <3>2. /\ handling'[g].at = "fill" /\ handling'[g].req = handling[g].req /\ handling'[g].s = s
          /\ handling'[g].next = handling[g].next /\ handling'[g].val = source[s]
      BY <1>1, <3>1 DEF Frame
    <3>3. /\ BotSits => BotSits'
          /\ source'["admins"] = source["admins"] /\ source'[s] = source[s]
          /\ \A r : Restricted(r)' <=> Restricted(r)
      BY <1>3, <2>1, JudgedSources DEF Asks, FairStep
    <3> QED
      BY <2>1, <3>2, <3>3 DEF Judging, Asks, Has
  <2> QED
    BY <2>2, <2>3
<1>7. CASE ReadFails(g)
  <2>1. mishaps' = mishaps + 1
    BY <1>7 DEF ReadFails, Mishap
  <2> QED
    BY <1>1, <2>1
<1>8. CASE Fill(g)
  <2>1. /\ handling[g].at = "fill" /\ Cache(s, handling[g].val, handling[g].old)
        /\ handling' = [Overtaken(handling, s, {"restore"}) EXCEPT
                            ![g] = Got(Overtaken(handling, s, {"restore"})[g], handling[g].val)]
    BY <1>8 DEF Fill, At, Val
  <2>2. Overtaken(handling, s, {"restore"})[g] = handling[g]
    BY <1>1, <2>1, NotOvertaken
  <2>3. Overtaken(handling, s, {"restore"}) \in [Goroutines -> Frame]
    BY <1>1, Overtaking
  <2>4. handling'[g] = Got(handling[g], source[s])
    BY <1>2, <2>1, <2>2, <2>3
  <2>5. s = "admins" /\ source["admins"] # Nothing => entry'["admins"] # Nothing
    BY <1>1, <1>2, <2>1 DEF Cache, RightsType
  <2> QED
    BY <1>4, <2>1, <2>4, <2>5 DEF Asks
<1>9. CASE LookUp(g)
  <2>1. /\ handling[g].at = "lookup" /\ entry' = entry
        /\ handling' = [handling EXCEPT ![g] =
               IF IsAdmin(handling[g].req.by) THEN Concluded(handling[g], "allowed")
               ELSE Asking(handling[g], "auth", "authorized")]
    BY <1>9 DEF LookUp, Fetch, At, Req, cacheVars
  <2>2. /\ BotSits /\ Restricted(handling[g].req) /\ handling[g].req.does \in Deciding
        /\ entry["admins"] = source["admins"]
    BY <2>1 DEF Judging, BotSits, UpToDate, OutOfDate, Judged, Stores
  <2>3. /\ source'["admins"] = source["admins"] /\ (BotSits => BotSits')
        /\ \A r : (Restricted(r)' <=> Restricted(r)) /\ (Due(r)' <=> Due(r))
    BY JudgedSources
  <2>4. {"allowed"} \subseteq RightsPlaces /\ "auth" \in Stores /\ "authorized" \in Nexts
    BY DEF RightsPlaces, Stores, Nexts
  <2>5. CASE Has(source["admins"], handling[g].req.by)
    <3>1. handling'[g] = Concluded(handling[g], "allowed")
      BY <1>1, <2>1, <2>2, <2>5 DEF IsAdmin, RightsType
    <3>2. handling'[g].at = "allowed" /\ handling'[g].req = handling[g].req
      BY <1>1, <2>4, <3>1, ConcludedFacts
    <3>3. Due(handling[g].req)
      BY <2>2, <2>5 DEF Due, BotSits
    <3>4. PICK r : r = handling[g].req
      OBVIOUS
    <3>5. Due(r)'
      BY <2>3, <3>3, <3>4
    <3>6. PICK q : q = handling'[g]
      OBVIOUS
    <3>7. Judging(q)'
      BY <2>2, <3>2, <3>4, <3>5, <3>6 DEF Judging, Asks
    <3> QED
      BY <3>6, <3>7 DEF Judging
  <2>6. CASE ~Has(source["admins"], handling[g].req.by)
    <3>1. handling'[g] = Asking(handling[g], "auth", "authorized")
      BY <1>1, <2>1, <2>2, <2>6 DEF IsAdmin, RightsType
    <3>2. /\ handling'[g].at = "get" /\ handling'[g].req = handling[g].req /\ handling'[g].s = "auth"
          /\ handling'[g].next = "authorized"
      BY <1>1, <2>4, <3>1, AskingFacts
    <3> QED
      BY <2>2, <2>3, <2>6, <3>2 DEF Judging, Asks, Has
  <2> QED
    BY <2>5, <2>6
<1>10. CASE Begin(g) \/ \E u \in updates : HandleUpdate(g, u)
  BY <1>2, <1>10 DEF Begin, HandleUpdate, At, Asks
<1>11. CASE Proceed(g)
  BY <1>11 DEF Proceed
<1>12. CASE LookUpTarget(g) \/ Write(g) \/ WriteFails(g) \/ Drop(g) \/ Put(g)
  BY <1>2, <1>12 DEF LookUpTarget, Write, WriteFails, Drop, Put, At, Asks
<1>13. CASE ClearAdminCache(g) \/ Rebuild(g) \/ Restore(g)
  BY <1>2, <1>13 DEF ClearAdminCache, Rebuild, Restore, At, Asks
<1> QED
  BY <1>5, <1>6, <1>7, <1>8, <1>9, <1>10, <1>11, <1>12, <1>13 DEF GoroutineSteps

\* A command begins.
LEMMA FairBegins ==
  ASSUME RightsInv, NEW g \in Goroutines, GoroutineSteps(g), At(g, "idle"), ~At(g, "idle")',
         handling'[g].req.does \in {"none", "start", "authlist", "settings"}
  PROVE  Judging(handling[g])'
<1>1. handling[g].at = "idle" /\ RightsType
  BY DEF At, RightsInv
<1>2. CASE Begin(g)
  <2>1. PICK r \in Asked : handling' = [handling EXCEPT ![g] = [Begun(r) EXCEPT !.req = r]]
    BY <1>2 DEF Begin
  <2>2. /\ r.does \in {"start", "authlist", "settings", "addauth", "removeauth", "toggle", "logger",
                       "reload", "addchat", "listchats"}
        /\ r \in Handled
    BY AskedFacts
  <2> DEFINE f == [Begun(r) EXCEPT !.req = r]
  <2>3. f \in Frame
    BY BegunRests
  <2>4. handling'[g] = f
    BY <1>1, <2>1 DEF RightsType
  <2>5. f.req = r
    <3>1. Begun(r) \in Frame \/ f.req = r
      BY <2>3 DEF Frame
    <3> QED
      BY <2>3, <3>1 DEF Frame
  <2>6. r.does \in Deciding
    BY <2>2, <2>4, <2>5 DEF Deciding
  <2>7. Begun(r) = Asking(Idle, "admins", "bot")
    BY <2>6 DEF Begun, Command, Deciding
  <2>8. "admins" \in Stores /\ "bot" \in Nexts
    BY DEF Stores, Nexts
  <2>9. /\ Begun(r) \in Frame /\ Begun(r).at = "get" /\ Begun(r).s = "admins" /\ Begun(r).next = "bot"
    BY <2>7, <2>8, IdleFacts, AskingFacts
  <2>10. handling'[g].at = "get" /\ handling'[g].s = "admins" /\ handling'[g].next = "bot" /\ handling'[g].req = r
    BY <2>4, <2>9 DEF Frame
  <2> QED
    BY <2>6, <2>10 DEF Judging, Asks
<1>3. CASE \E u \in updates : HandleUpdate(g, u)
  <2>1. PICK u \in updates : HandleUpdate(g, u)
    BY <1>3
  <2>2. u \in Change
    BY <1>1 DEF RightsType
  <2> DEFINE f == [Idle EXCEPT !.at = "rebuild", !.s = "admins", !.req = Request("update", u.who, u)]
  <2>3. handling'[g] = f
    BY <1>1, <2>1 DEF HandleUpdate, RightsType
  <2>4. f.req.does = "update"
    BY <2>2, UpdateFrame
  <2> QED
    BY <2>3, <2>4
<1>4. ~(Begin(g) \/ \E u \in updates : HandleUpdate(g, u)) => FALSE
  BY <1>1 DEF GoroutineSteps, Get, Read, ReadFails, Fill, LookUp, Proceed, LookUpTarget, Write, WriteFails,
              Drop, Put, ClearAdminCache, Rebuild, Restore, At
<1> QED
  BY <1>2, <1>3, <1>4
LEMMA NobodyAged ==
  ASSUME RightsInv, \/ \E who \in Users \cup Tracked : Moderate(who)
                    \/ \E u \in updates : UpdateLost(u)
                    \/ \E s \in Stores : Expire(s),
         NEW h \in Goroutines
  PROVE  Aged(h)
<1>1. RightsType
  BY DEF RightsInv
<1>2. ASSUME handling' = handling PROVE Aged(h)
  BY <1>2 DEF Aged
<1>3. ASSUME NEW s, NEW places, handling' = Overtaken(handling, s, places) PROVE Aged(h)
  BY <1>1, <1>3, AllAge DEF Ages, Aged
<1>4. CASE \E who \in Users \cup Tracked : Moderate(who)
  BY <1>3, <1>4 DEF Moderate
<1>5. CASE \E u \in updates : UpdateLost(u)
  BY <1>2, <1>5 DEF UpdateLost
<1>6. CASE \E s \in Stores : Expire(s)
  BY <1>2, <1>3, <1>6 DEF Expire
<1> QED
  BY <1>4, <1>5, <1>6

\* What is observed of a goroutine that is still judged fairly.
LEMMA Observed ==
  ASSUME RightsInv, Observe, NEW g \in Goroutines, fair'[g]
  PROVE  /\ UpToDate'
         /\ At(g, "idle") => handling'[g].req.does \in {"none", "start", "authlist", "settings"}
         /\ ~At(g, "idle") => /\ fair[g] /\ handling[g].at \notin {"allowed", "denied"} /\ mishaps' = mishaps
                              /\ FairStep
<1>1. fair'[g] = IF At(g, "idle")
                 THEN UpToDate' /\ handling'[g].req.does \in {"none", "start", "authlist", "settings"}
                 ELSE /\ fair[g] /\ UpToDate' /\ handling[g].at \notin {"allowed", "denied"}
                      /\ (\A s \in Judged : source'[s] = source[s]) /\ mishaps' = mishaps
                      /\ (entry["admins"] # Nothing => entry'["admins"] # Nothing)
  BY DEF Observe
<1> QED
  BY <1>1 DEF FairStep

LEMMA FairlyJudgedKept ==
  ASSUME VerdictsInv, RightsNext, NEW g \in Goroutines
  PROVE  FairlyJudged(g)'
<1>1. RightsInv /\ RightsType /\ FairlyJudged(g) /\ Observe
  BY DEF VerdictsInv, RightsInv, RightsNext
<1> SUFFICES ASSUME fair'[g], ~At(g, "idle")' PROVE Judging(handling[g])'
  BY <1>1, Observed DEF FairlyJudged
<1>2. CASE At(g, "idle")
  <2>1. ~Aged(g)
    <3>1. handling[g] \in Frame /\ handling[g].at = "idle" /\ handling'[g].at # "idle"
      BY <1>1, <1>2 DEF At, RightsType
    <3> QED
      BY <3>1, OldFacts DEF Aged
  <2>2. GoroutineSteps(g)
    BY <1>1, <2>1, OthersAged, NobodyAged DEF RightsNext, GoroutineSteps
  <2> QED
    BY <1>1, <1>2, <2>2, Observed, FairBegins
<1>3. CASE ~At(g, "idle")
  <2>1. /\ fair[g] /\ handling[g].at \notin {"allowed", "denied"} /\ mishaps' = mishaps /\ FairStep
    BY <1>1, <1>3, Observed
  <2>2. UpToDate /\ Judging(handling[g])
    BY <1>1, <1>3, <2>1 DEF FairlyJudged
  <2>3. CASE GoroutineSteps(g)
    BY <1>1, <2>1, <2>2, <2>3, OwnStep
  <2>4. CASE Aged(g)
    <3>1. PICK q : q = handling'[g]
      OBVIOUS
    <3>2. handling[g] \in Frame
      BY <1>1 DEF RightsType
    <3>3. /\ q.at = handling[g].at /\ q.req = handling[g].req /\ q.s = handling[g].s
          /\ q.next = handling[g].next /\ q.val = handling[g].val
      BY <2>4, <3>1, <3>2, OldFacts DEF Aged
    <3>4. handling[g].at = "fill" => handling[g].s \in Judged
      BY <2>2 DEF Judging, Asks, Judged, Stores
    <3>5. PICK f : f = handling[g]
      OBVIOUS
    <3>6. Judging(f)
      BY <2>2, <3>5 DEF Judging
    <3>7. Judging(q)'
      BY <2>1, <3>3, <3>4, <3>5, <3>6, JudgingStays
    <3> QED
      BY <3>1, <3>7 DEF Judging
  <2>5. GoroutineSteps(g) \/ Aged(g)
    BY <1>1, OthersAged, NobodyAged DEF RightsNext, GoroutineSteps
  <2> QED
    BY <2>3, <2>4, <2>5
<1> QED
  BY <1>2, <1>3

LEMMA VerdictsInitInv == RightsInit => VerdictsInv
<1> SUFFICES ASSUME RightsInit PROVE VerdictsInv
  OBVIOUS
<1>1. RightsInv
  BY RightsInitInv
<1>2. \A g \in Goroutines : At(g, "idle")
  BY IdleFacts DEF RightsInit, At
<1>3. UpToDate
  <2>1. entry \in {[s \in Stores |-> Nothing], source}
    BY DEF RightsInit
  <2> QED
    BY <2>1 DEF UpToDate, OutOfDate, Judged
<1> QED
  BY <1>1, <1>2, <1>3 DEF VerdictsInv, FairlyJudged

LEMMA VerdictsNextInv == VerdictsInv /\ [RightsNext]_rightsVars => VerdictsInv'
<1> SUFFICES ASSUME VerdictsInv, [RightsNext]_rightsVars PROVE VerdictsInv'
  OBVIOUS
<1>1. RightsInv'
  BY RightsNextInv DEF VerdictsInv
<1>2. CASE RightsNext
  BY <1>1, <1>2, FairlyJudgedKept DEF VerdictsInv
<1>3. CASE UNCHANGED rightsVars
  <2>1. UNCHANGED <<source, entry, handling, fair>>
    BY <1>3 DEF rightsVars, cacheVars
  <2>2. ASSUME NEW g \in Goroutines PROVE FairlyJudged(g)'
    BY <2>1 DEF VerdictsInv, FairlyJudged, UpToDate, OutOfDate, At, Judging, BotSits, Restricted, Due, Has
  <2> QED
    BY <1>1, <2>2 DEF VerdictsInv
<1> QED
  BY <1>2, <1>3

-----------------------------------------------------------------------------
(* Recommendations.  A goroutine that was not overtaken holds what the      *)
(* document says, or will say; and it appends behind whatever of its array  *)
(* the entry shows.                                                         *)
Cells == TrackKeys \cup {"spare"}
Cut == [in : Nat, first : Nat, last : Nat]
Recommender == [at : {"idle", "look", "read", "fill", "merge", "write", "set"},
                key : TrackKeys \cup {"none"}, slice : Cut, old : BOOLEAN]

\* A slice lies in its array, and shows tracks.
Lies(slice) ==
    /\ slice.in \in DOMAIN arrays /\ 1 <= slice.first /\ slice.first <= slice.last + 1
    /\ slice.last <= Len(arrays[slice.in]) /\ slice.last < slice.first + MaxHistory
    /\ \A i \in slice.first .. slice.last : arrays[slice.in][i] \in TrackKeys

\* What a goroutine's place says of it.
Placed(f) ==
    /\ f.slice = NoSlice \/ Lies(f.slice)
    /\ f.at \in {"idle", "look", "read"} => f.slice = NoSlice
    /\ f.at \in {"fill", "write", "set"} => f.slice # NoSlice
    /\ f.at \in {"merge", "write", "set"} => f.key \in TrackKeys
    /\ f.at \in {"fill", "merge", "set"} /\ f.slice # NoSlice => history # NoHistory

HistoryType ==
    /\ arrays \in Seq(Seq(Cells))
    /\ history = NoHistory \/ (history \in Seq(TrackKeys) /\ Len(history) <= MaxHistory)
    /\ historyEntry \in Cut
    /\ historyEntry = NoSlice \/ (Lies(historyEntry) /\ history # NoHistory)
    /\ recommending \in [Recommenders -> Recommender]
    /\ \A r \in Recommenders : Placed(recommending[r])
    /\ historyRaced \in BOOLEAN

\* Who was not overtaken: what he holds, and what he will write.
Current(f) ==
    ~f.old => /\ f.at \in {"fill", "set"} => Keys(f.slice) = history
              /\ f.at = "merge" => IF f.slice = NoSlice THEN history = NoHistory ELSE Keys(f.slice) = history
              /\ f.at = "write" => Keys(f.slice) = Extended(history, f.key)

\* An append does not reach into what the entry shows.
Exposed == historyEntry # NoSlice /\ ~historyRaced /\ ~Setting
Behind(f) == f.at = "merge" /\ ~f.old /\ f.slice.in = historyEntry.in => historyEntry.last <= f.slice.last
Apart ==
    \A r \in Recommenders :
        /\ RecommenderIs(r, "fill") =>
               /\ historyEntry.in # recommending[r].slice.in
               /\ \A q \in Recommenders \ {r} : recommending[q].slice.in # recommending[r].slice.in
        /\ RecommenderIs(r, "set") /\ ~recommending[r].old =>
               \A q \in Recommenders :
                   RecommenderIs(q, "merge") /\ ~recommending[q].old =>
                       recommending[q].slice.in # recommending[r].slice.in

HistoryInv ==
    /\ HistoryType
    /\ \A r \in Recommenders : Current(recommending[r])
    /\ EntryShowsHistory
    /\ Exposed => \A r \in Recommenders : Behind(recommending[r])
    /\ Apart

LEMMA AwayFacts == Away \in Recommender /\ Away.at = "idle" /\ Away.slice = NoSlice
  BY DEF Away, Recommender, Cut, NoSlice, Slice

LEMMA NoSliceFacts == NoSlice \in Cut /\ NoSlice.in = 0
  BY DEF NoSlice, Slice, Cut

LEMMA RecommenderFacts ==
  ASSUME NEW f \in Recommender
  PROVE  /\ f.slice \in Cut /\ f.slice.in \in Nat /\ f.slice.first \in Nat /\ f.slice.last \in Nat
         /\ f.old \in BOOLEAN /\ f.key \in TrackKeys \cup {"none"}
         /\ f.at \in {"idle", "look", "read", "fill", "merge", "write", "set"}
  BY DEF Recommender, Cut

LEMMA AgedRecommender ==
  ASSUME NEW f \in Recommender
  PROVE  LET q == [f EXCEPT !.old = TRUE] IN
         q \in Recommender /\ q.at = f.at /\ q.key = f.key /\ q.slice = f.slice /\ q.old
  BY DEF Recommender

-----------------------------------------------------------------------------
(* Slices and arrays. *)

Arrayed == arrays \in Seq(Seq(Cells))

LEMMA Window ==
  ASSUME NEW S, NEW s \in Seq(S), NEW m \in Nat, NEW n \in Nat, 1 <= m, m <= n + 1, n <= Len(s)
  PROVE  /\ SubSeq(s, m, n) \in Seq(S) /\ Len(SubSeq(s, m, n)) = n - m + 1
         /\ \A i \in 1 .. n - m + 1 : SubSeq(s, m, n)[i] = s[m + i - 1]
  OBVIOUS

LEMMA SameSequence ==
  ASSUME NEW S, NEW s \in Seq(S), NEW t \in Seq(S), Len(s) = Len(t), \A i \in 1 .. Len(s) : s[i] = t[i]
  PROVE  s = t
  OBVIOUS

LEMMA SameWindow ==
  ASSUME NEW S, NEW s \in Seq(S), NEW t \in Seq(S), NEW m \in Nat, NEW n \in Nat,
         1 <= m, m <= n + 1, n <= Len(s), n <= Len(t), \A i \in m .. n : s[i] = t[i]
  PROVE  SubSeq(s, m, n) = SubSeq(t, m, n)
<1> DEFINE u == SubSeq(s, m, n)
           v == SubSeq(t, m, n)
<1>1. u \in Seq(S) /\ Len(u) = n - m + 1 /\ \A i \in 1 .. n - m + 1 : u[i] = s[m + i - 1]
  BY Window
<1>2. v \in Seq(S) /\ Len(v) = n - m + 1 /\ \A i \in 1 .. n - m + 1 : v[i] = t[m + i - 1]
  BY Window
<1> HIDE DEF u, v
<1>3. ASSUME NEW i \in 1 .. Len(u) PROVE u[i] = v[i]
  <2>1. i \in 1 .. n - m + 1 /\ m + i - 1 \in m .. n
    BY <1>1
  <2> QED
    BY <1>1, <1>2, <2>1
<1>4. u = v
  BY <1>1, <1>2, <1>3, SameSequence
<1> QED
  BY <1>4 DEF u, v

LEMMA KeysFacts ==
  ASSUME Arrayed, NEW slice \in Cut, Lies(slice)
  PROVE  /\ slice # NoSlice /\ slice.in \in 1 .. Len(arrays)
         /\ Keys(slice) \in Seq(TrackKeys) /\ Len(Keys(slice)) = slice.last - slice.first + 1
         /\ \A i \in 1 .. Len(Keys(slice)) : Keys(slice)[i] = arrays[slice.in][slice.first + i - 1]
<1>1. slice.in \in Nat /\ slice.first \in Nat /\ slice.last \in Nat
  BY DEF Cut
<1>2. slice.in \in 1 .. Len(arrays) /\ arrays[slice.in] \in Seq(Cells)
  BY DEF Lies, Arrayed
<1>3. slice # NoSlice
  BY <1>2, NoSliceFacts
<1> DEFINE a == arrays[slice.in]
           k == SubSeq(a, slice.first, slice.last)
<1>4. /\ 1 <= slice.first /\ slice.first <= slice.last + 1 /\ slice.last <= Len(a)
      /\ \A i \in slice.first .. slice.last : a[i] \in TrackKeys
  BY DEF Lies
<1>5. Keys(slice) = k
  BY <1>3 DEF Keys
<1> HIDE DEF a
<1>6. /\ k \in Seq(Cells) /\ Len(k) = slice.last - slice.first + 1
      /\ \A i \in 1 .. slice.last - slice.first + 1 : k[i] = a[slice.first + i - 1]
  <2>1. a \in Seq(Cells)
    BY <1>2 DEF a
  <2> QED
    BY <1>1, <1>4, <2>1, Window, SMTT(30)
<1> HIDE DEF k
<1>7. ASSUME NEW i \in 1 .. Len(k) PROVE k[i] \in TrackKeys
  <2>1. i \in 1 .. slice.last - slice.first + 1 /\ slice.first + i - 1 \in slice.first .. slice.last
    BY <1>1, <1>6
  <2> QED
    BY <1>4, <1>6, <2>1
<1>8. k \in Seq(TrackKeys)
  BY <1>6, <1>7
<1> QED
  BY <1>2, <1>3, <1>5, <1>6, <1>8 DEF a

\* What a slice shows stays while its cells do.
LEMMA KeysStay ==
  ASSUME Arrayed, Arrayed', NEW slice \in Cut, Lies(slice), Lies(slice)',
         \A i \in slice.first .. slice.last : arrays'[slice.in][i] = arrays[slice.in][i]
  PROVE  Keys(slice)' = Keys(slice)
<1>1. /\ slice.first \in Nat /\ slice.last \in Nat /\ 1 <= slice.first /\ slice.first <= slice.last + 1
      /\ slice.in \in DOMAIN arrays /\ slice.in \in DOMAIN arrays'
      /\ slice.last <= Len(arrays[slice.in]) /\ slice.last <= Len(arrays'[slice.in])
  BY DEF Cut, Lies
<1>2. arrays[slice.in] \in Seq(Cells) /\ arrays'[slice.in] \in Seq(Cells)
  BY <1>1 DEF Arrayed
<1>3. SubSeq(arrays[slice.in], slice.first, slice.last) = SubSeq(arrays'[slice.in], slice.first, slice.last)
  BY <1>1, <1>2, SameWindow, SMTT(30)
<1> QED
  BY <1>3 DEF Keys

ArraysKept == Arrayed' /\ \A s \in Cut : Lies(s) => Lies(s)'

\* A new array: what lies in others stays.
LEMMA ArrayAdded ==
  ASSUME Arrayed, NEW a \in Seq(Cells), arrays' = Append(arrays, a)
  PROVE  /\ ArraysKept /\ \A s \in Cut : Lies(s) => Keys(s)' = Keys(s)
         /\ Len(arrays') = Len(arrays) + 1 /\ arrays'[Len(arrays) + 1] = a
<1>1. /\ arrays' \in Seq(Seq(Cells)) /\ Len(arrays') = Len(arrays) + 1 /\ arrays'[Len(arrays) + 1] = a
      /\ \A i \in 1 .. Len(arrays) : arrays'[i] = arrays[i]
  BY DEF Arrayed
<1>2. ASSUME NEW s \in Cut, Lies(s) PROVE Lies(s)' /\ Keys(s)' = Keys(s)
  <2>1. s.in \in 1 .. Len(arrays)
    BY <1>2, KeysFacts
  <2>2. s.in \in DOMAIN arrays' /\ arrays'[s.in] = arrays[s.in]
    BY <1>1, <2>1
  <2>3. Lies(s)'
    BY <1>2, <2>2 DEF Lies
  <2> QED
    BY <1>1, <1>2, <2>2, <2>3, KeysStay DEF Arrayed
<1> QED
  BY <1>1, <1>2 DEF ArraysKept, Arrayed

\* A cell behind a slice is written: what ends there, or before, stays.
LEMMA CellWritten ==
  ASSUME Arrayed, NEW slice \in Cut, Lies(slice), slice.last < Len(arrays[slice.in]), NEW key \in TrackKeys,
         arrays' = [arrays EXCEPT ![slice.in][slice.last + 1] = key]
  PROVE  /\ ArraysKept
         /\ \A s \in Cut : Lies(s) /\ (s.in = slice.in => s.last <= slice.last) => Keys(s)' = Keys(s)
         /\ arrays'[slice.in][slice.last + 1] = key
         /\ Len(arrays'[slice.in]) = Len(arrays[slice.in]) /\ slice.in \in DOMAIN arrays'
         /\ \A i \in slice.first .. slice.last : arrays'[slice.in][i] = arrays[slice.in][i]
<1> DEFINE a == arrays[slice.in]
           b == [a EXCEPT ![slice.last + 1] = key]
<1>1. slice.in \in 1 .. Len(arrays) /\ a \in Seq(Cells) /\ slice.last \in Nat /\ slice.first \in Nat
  BY KeysFacts DEF Arrayed, Cut
<1>2. /\ b \in Seq(Cells) /\ Len(b) = Len(a) /\ b[slice.last + 1] = key
      /\ \A i \in 1 .. Len(a) : i # slice.last + 1 => b[i] = a[i]
  BY <1>1 DEF Cells
<1>3. arrays' = [arrays EXCEPT ![slice.in] = b]
  OBVIOUS
<1> HIDE DEF b
<1>4. /\ arrays' \in Seq(Seq(Cells)) /\ DOMAIN arrays' = DOMAIN arrays /\ arrays'[slice.in] = b
      /\ \A j \in DOMAIN arrays : j # slice.in => arrays'[j] = arrays[j]
  BY <1>1, <1>2, <1>3 DEF Arrayed
<1>5. ASSUME NEW s \in Cut, Lies(s) PROVE Lies(s)'
  <2>1. s.in \in Nat /\ s.first \in Nat /\ s.last \in Nat
    BY DEF Cut
  <2>2. CASE s.in = slice.in
    <3>1. Len(arrays'[s.in]) = Len(arrays[s.in]) /\ s.last <= Len(a) /\ 1 <= s.first
      BY <1>2, <1>4, <1>5, <2>2 DEF Lies
    <3>2. \A i \in s.first .. s.last : arrays'[s.in][i] \in TrackKeys
      BY <1>2, <1>4, <1>5, <2>1, <2>2, <3>1 DEF Lies
    <3> QED
      BY <1>4, <1>5, <3>1, <3>2 DEF Lies
  <2>3. CASE s.in # slice.in
    <3>1. s.in \in DOMAIN arrays' /\ arrays'[s.in] = arrays[s.in]
      BY <1>4, <1>5, <2>3 DEF Lies
    <3> QED
      BY <1>5, <3>1 DEF Lies
  <2> QED
    BY <2>2, <2>3
<1>6. ASSUME NEW s \in Cut, Lies(s), s.in = slice.in => s.last <= slice.last
      PROVE  \A i \in s.first .. s.last : arrays'[s.in][i] = arrays[s.in][i]
  <2>1. s.in \in DOMAIN arrays /\ s.first \in Nat /\ s.last \in Nat /\ 1 <= s.first /\ s.last <= Len(arrays[s.in])
    BY <1>6 DEF Lies, Cut
  <2>2. CASE s.in = slice.in
    BY <1>1, <1>2, <1>4, <1>6, <2>1, <2>2, SMTT(30)
  <2>3. CASE s.in # slice.in
    BY <1>4, <2>1, <2>3
  <2> QED
    BY <2>2, <2>3
<1>7. Arrayed' /\ ArraysKept
  BY <1>4, <1>5 DEF Arrayed, ArraysKept
<1>8. ASSUME NEW s \in Cut, Lies(s), s.in = slice.in => s.last <= slice.last
      PROVE  Keys(s)' = Keys(s)
  BY <1>5, <1>6, <1>7, <1>8, KeysStay
<1> QED
  BY <1>1, <1>2, <1>4, <1>6, <1>7, <1>8

\* Array b shows h at m .. n: with the key behind it, and the oldest gone.
ExtendsTo(h, key, b, m, n, a) ==
    LET t == Trimmed(Slice(a, m, n + 1))
        all == Append(h, key)
    IN /\ t \in Cut /\ t.in = a /\ t.last = n + 1 /\ 1 <= t.first /\ t.first <= t.last + 1
       /\ t.last <= Len(b) /\ t.last < t.first + MaxHistory
       /\ \A i \in t.first .. t.last : b[i] \in TrackKeys
       /\ SubSeq(b, t.first, t.last) = IF Len(all) > MaxHistory THEN Tail(all) ELSE all

LEMMA Extends ==
  ASSUME NEW b \in Seq(Cells), NEW m \in Nat, NEW n \in Nat, 1 <= m, m <= n + 1, n < Len(b),
         NEW h \in Seq(TrackKeys), Len(h) = n - m + 1, Len(h) <= MaxHistory,
         \A i \in 1 .. Len(h) : b[m + i - 1] = h[i],
         NEW key \in TrackKeys, b[n + 1] = key, NEW a \in Nat
  PROVE  ExtendsTo(h, key, b, m, n, a)
<1> DEFINE s == Slice(a, m, n + 1)
           t == Trimmed(s)
           all == Append(h, key)
<1> SUFFICES /\ t \in Cut /\ t.in = a /\ t.last = n + 1 /\ 1 <= t.first /\ t.first <= t.last + 1
             /\ t.last <= Len(b) /\ t.last < t.first + MaxHistory
             /\ \A i \in t.first .. t.last : b[i] \in TrackKeys
             /\ SubSeq(b, t.first, t.last) = IF Len(all) > MaxHistory THEN Tail(all) ELSE all
  BY DEF ExtendsTo
<1>0. s \in Cut /\ s.in = a /\ s.first = m /\ s.last = n + 1
  BY DEF Slice, Cut
<1> HIDE DEF s
<1>1. MaxHistory \in Nat /\ MaxHistory >= 1
  BY HistoryBounds
<1>2. all \in Seq(TrackKeys) /\ Len(all) = n - m + 2 /\ \A i \in 1 .. Len(all) : all[i] = b[m + i - 1]
  <2>1. all \in Seq(TrackKeys) /\ Len(all) = Len(h) + 1 /\ all[Len(h) + 1] = key
        /\ \A i \in 1 .. Len(h) : all[i] = h[i]
    OBVIOUS
  <2> HIDE DEF all
  <2>2. ASSUME NEW i \in 1 .. Len(all) PROVE all[i] = b[m + i - 1]
    <3>1. CASE i \in 1 .. Len(h)
      BY <2>1, <3>1
    <3>2. CASE i = Len(h) + 1
      BY <2>1, <3>2
    <3> QED
      BY <2>1, <3>1, <3>2
  <2> QED
    BY <2>1, <2>2
<1> HIDE DEF all
<1>3. \A i \in m .. n + 1 : b[i] \in TrackKeys
  <2> SUFFICES ASSUME NEW i \in m .. n + 1 PROVE b[i] \in TrackKeys
    OBVIOUS
  <2>1. i - m + 1 \in 1 .. Len(all) /\ m + (i - m + 1) - 1 = i
    BY <1>2
  <2>2. b[i] = all[i - m + 1]
    BY <1>2, <2>1
  <2> QED
    BY <1>2, <2>1, <2>2
<1>4. CASE n - m + 2 > MaxHistory
  <2>1. n - m + 2 = MaxHistory + 1
    BY <1>1, <1>4
  <2>2. t = [s EXCEPT !.first = s.last - MaxHistory + 1]
    BY <1>0, <1>1, <2>1 DEF Trimmed
  <2>10. s.last - MaxHistory + 1 = m + 1
    BY <1>0, <1>1, <2>1
  <2>3. t \in Cut /\ t.in = a /\ t.first = m + 1 /\ t.last = n + 1
    BY <1>0, <2>2, <2>10, SMTT(30) DEF Cut
  <2> HIDE DEF t
  <2>4. /\ SubSeq(b, m + 1, n + 1) \in Seq(Cells) /\ Len(SubSeq(b, m + 1, n + 1)) = n - m + 1
        /\ \A i \in 1 .. n - m + 1 : SubSeq(b, m + 1, n + 1)[i] = b[m + 1 + i - 1]
    <3>1. PICK first, last : first = m + 1 /\ last = n + 1
      OBVIOUS
    <3>2. first \in Nat /\ last \in Nat /\ 1 <= first /\ first <= last + 1 /\ last <= Len(b)
      BY <3>1
    <3>3. /\ SubSeq(b, first, last) \in Seq(Cells) /\ Len(SubSeq(b, first, last)) = last - first + 1
          /\ \A i \in 1 .. last - first + 1 : SubSeq(b, first, last)[i] = b[first + i - 1]
      BY <3>2, Window
    <3>4. last - first + 1 = n - m + 1
      BY <3>1
    <3> QED
      BY <3>1, <3>3, <3>4
  <2>5. /\ Tail(all) \in Seq(Cells) /\ Len(Tail(all)) = n - m + 1
        /\ \A i \in 1 .. n - m + 1 : Tail(all)[i] = b[m + 1 + i - 1]
    <3>1. /\ Tail(all) \in Seq(TrackKeys) /\ Len(Tail(all)) = n - m + 1
          /\ \A i \in 1 .. n - m + 1 : Tail(all)[i] = all[i + 1]
      BY <1>1, <1>2, <2>1
    <3>2. \A i \in 1 .. n - m + 1 : all[i + 1] = b[m + 1 + i - 1]
      <4> SUFFICES ASSUME NEW i \in 1 .. n - m + 1 PROVE all[i + 1] = b[m + 1 + i - 1]
        OBVIOUS
      <4>1. i + 1 \in 1 .. Len(all) /\ m + (i + 1) - 1 = m + 1 + i - 1
        BY <1>2
      <4> QED
        BY <1>2, <4>1
    <3>3. TrackKeys \subseteq Cells
      BY DEF Cells
    <3> QED
      BY <3>1, <3>2, <3>3
  <2>6. SubSeq(b, m + 1, n + 1) = Tail(all)
    BY <2>4, <2>5, SameSequence
  <2>7. t.last < t.first + MaxHistory
    BY <1>1, <2>1, <2>3
  <2>8. \A i \in t.first .. t.last : b[i] \in TrackKeys
    BY <1>3, <2>3
  <2>9. SubSeq(b, t.first, t.last) = IF Len(all) > MaxHistory THEN Tail(all) ELSE all
    BY <1>2, <1>4, <2>3, <2>6
  <2> QED
    BY <2>3, <2>7, <2>8, <2>9
<1>5. CASE ~(n - m + 2 > MaxHistory)
  <2>3. t \in Cut /\ t.in = a /\ t.first = m /\ t.last = n + 1
    BY <1>0, <1>1, <1>5, SMTT(30) DEF Trimmed
  <2> HIDE DEF t
  <2>4. /\ SubSeq(b, m, n + 1) \in Seq(Cells) /\ Len(SubSeq(b, m, n + 1)) = n - m + 2
        /\ \A i \in 1 .. n - m + 2 : SubSeq(b, m, n + 1)[i] = b[m + i - 1]
    <3>1. PICK last : last = n + 1
      OBVIOUS
    <3>2. last \in Nat /\ m <= last + 1 /\ last <= Len(b)
      BY <3>1
    <3>3. /\ SubSeq(b, m, last) \in Seq(Cells) /\ Len(SubSeq(b, m, last)) = last - m + 1
          /\ \A i \in 1 .. last - m + 1 : SubSeq(b, m, last)[i] = b[m + i - 1]
      BY <3>2, Window, SMTT(30)
    <3>4. last - m + 1 = n - m + 2
      BY <3>1
    <3> QED
      BY <3>1, <3>3, <3>4
  <2>5. all \in Seq(Cells)
    BY <1>2 DEF Cells
  <2>6. SubSeq(b, m, n + 1) = all
    BY <1>2, <2>4, <2>5, SameSequence
  <2>7. t.last < t.first + MaxHistory
    BY <1>1, <1>5, <2>3
  <2>8. \A i \in t.first .. t.last : b[i] \in TrackKeys
    BY <1>3, <2>3
  <2>9. SubSeq(b, t.first, t.last) = IF Len(all) > MaxHistory THEN Tail(all) ELSE all
    BY <1>2, <1>5, <2>3, <2>6
  <2> QED
    BY <2>3, <2>7, <2>8, <2>9, SMTT(30)
<1> QED
  BY <1>4, <1>5

LEMMA ExtendedByNew ==
  ASSUME NEW h \in Seq(TrackKeys), NEW key \in TrackKeys, key \notin ToSet(h), NEW old,
         IF old = NoHistory THEN h = <<>> ELSE old = h
  PROVE  LET all == Append(h, key)
         IN Extended(old, key) = IF Len(all) > MaxHistory THEN Tail(all) ELSE all
<1>1. CASE old = NoHistory
  <2>1. Append(h, key) = <<key>>
    BY <1>1
  <2> QED
    BY <1>1, <2>1 DEF Extended
<1>2. CASE old # NoHistory
  BY <1>2 DEF Extended
<1> QED
  BY <1>1, <1>2

-----------------------------------------------------------------------------
(* Steps of a goroutine. *)

\* Goroutine r becomes f; others may have been overtaken.
Stays(q) ==
    /\ recommending'[q].at = recommending[q].at /\ recommending'[q].key = recommending[q].key
    /\ recommending'[q].slice = recommending[q].slice
    /\ recommending[q].old => recommending'[q].old
Becomes(r, f) ==
    /\ recommending' \in [Recommenders -> Recommender] /\ recommending'[r] = f
    /\ \A q \in Recommenders \ {r} : Stays(q)

LEMMA BecomesAlone ==
  ASSUME HistoryInv, NEW r \in Recommenders, NEW f \in Recommender,
         recommending' = [recommending EXCEPT ![r] = f]
  PROVE  Becomes(r, f) /\ \A q \in Recommenders \ {r} : recommending'[q] = recommending[q]
  BY DEF HistoryInv, HistoryType, Becomes, Stays

\* Of the others, these are overtaken.
LEMMA BecomesBefore ==
  ASSUME HistoryInv, NEW r \in Recommenders, NEW f \in Recommender, NEW O,
         recommending' = [[o \in Recommenders |-> IF o \in O THEN [recommending[o] EXCEPT !.old = TRUE]
                                                  ELSE recommending[o]] EXCEPT ![r] = f]
  PROVE  Becomes(r, f) /\ \A q \in Recommenders \ {r} : q \in O => recommending'[q].old
<1> DEFINE fs == [o \in Recommenders |-> IF o \in O THEN [recommending[o] EXCEPT !.old = TRUE]
                                         ELSE recommending[o]]
<1>1. \A o \in Recommenders : recommending[o] \in Recommender
  BY DEF HistoryInv, HistoryType
<1>2. \A o \in Recommenders :
          /\ fs[o] \in Recommender
          /\ fs[o].at = recommending[o].at /\ fs[o].key = recommending[o].key
          /\ fs[o].slice = recommending[o].slice /\ (recommending[o].old => fs[o].old)
          /\ o \in O => fs[o].old
  BY <1>1, AgedRecommender
<1>3. DOMAIN fs = Recommenders
  OBVIOUS
<1>4. recommending' = [fs EXCEPT ![r] = f]
  OBVIOUS
<1> HIDE DEF fs
<1>5. /\ recommending' \in [Recommenders -> Recommender] /\ recommending'[r] = f
      /\ \A q \in Recommenders \ {r} : recommending'[q] = fs[q]
  BY <1>2, <1>3, <1>4
<1> QED
  BY <1>2, <1>5 DEF Becomes, Stays

LEMMA Recommending ==
  ASSUME HistoryInv, NEW r \in Recommenders
  PROVE  /\ recommending[r] \in Recommender /\ Placed(recommending[r]) /\ Current(recommending[r])
         /\ recommending[r].slice \in Cut /\ recommending[r].old \in BOOLEAN
         /\ historyEntry \in Cut /\ Arrayed /\ historyRaced \in BOOLEAN
         /\ history = NoHistory \/ (history \in Seq(TrackKeys) /\ Len(history) <= MaxHistory)
         /\ historyEntry = NoSlice \/ (Lies(historyEntry) /\ history # NoHistory)
<1>1. recommending[r] \in Recommender
  BY DEF HistoryInv, HistoryType
<1> QED
  BY <1>1, RecommenderFacts DEF HistoryInv, HistoryType, Arrayed

\* A slice that somebody holds, or the entry, shows what it did.
KeysKept(slice) == slice = NoSlice \/ Keys(slice)' = Keys(slice)

\* What such a step has to show.
LEMMA HistoryStep ==
  ASSUME HistoryInv, NEW r \in Recommenders, NEW f \in Recommender, Becomes(r, f),
         ArraysKept, history # NoHistory => history' # NoHistory,
         history' = NoHistory \/ (history' \in Seq(TrackKeys) /\ Len(history') <= MaxHistory),
         historyEntry' \in Cut, historyEntry' = NoSlice \/ (Lies(historyEntry)' /\ history' # NoHistory),
         historyRaced' \in BOOLEAN,
         Placed(f)', Current(f)',
         \A q \in Recommenders \ {r} :
             \/ recommending'[q].old \/ recommending[q].at \in {"idle", "look", "read"}
             \/ history' = history /\ KeysKept(recommending[q].slice),
         EntryShowsHistory', Exposed' => \A q \in Recommenders : Behind(recommending[q])',
         Apart'
  PROVE  HistoryInv'
<1>1. ASSUME NEW q \in Recommenders \ {r} PROVE Placed(recommending[q])'
  <2>1. recommending[q] \in Recommender /\ Placed(recommending[q]) /\ recommending[q].slice \in Cut
    BY Recommending
  <2>2. /\ recommending'[q].at = recommending[q].at /\ recommending'[q].key = recommending[q].key
        /\ recommending'[q].slice = recommending[q].slice
    BY DEF Becomes, Stays
  <2>3. PICK s : s = recommending[q].slice
    OBVIOUS
  <2>4. Lies(s) => Lies(s)'
    BY <2>1, <2>3 DEF ArraysKept
  <2>5. Lies(recommending[q].slice) => Lies(recommending[q].slice)'
    BY <2>2, <2>3, <2>4 DEF Lies
  <2> QED
    BY <2>1, <2>2, <2>5 DEF Placed
<1>2. ASSUME NEW q \in Recommenders \ {r} PROVE Current(recommending[q])'
  <2>1. recommending[q] \in Recommender /\ Current(recommending[q])
    BY Recommending
  <2>2. /\ recommending'[q].at = recommending[q].at /\ recommending'[q].key = recommending[q].key
        /\ recommending'[q].slice = recommending[q].slice
        /\ recommending[q].old => recommending'[q].old
    BY DEF Becomes, Stays
  <2>3. CASE recommending'[q].old
    BY <2>3 DEF Current
  <2>4. CASE ~recommending'[q].old /\ history' = history /\ KeysKept(recommending[q].slice)
    <3>1. PICK s : s = recommending[q].slice
      OBVIOUS
    <3>2. Keys(s)' = Keys(s)
      BY <2>2, <2>4, <3>1 DEF KeysKept, Keys
    <3>3. Keys(recommending[q].slice)' = Keys(recommending[q].slice)
      BY <2>2, <3>1, <3>2 DEF Keys
    <3>4. Extended(history, recommending[q].key)' = Extended(history, recommending[q].key)
      BY <2>2, <2>4 DEF Extended
    <3> QED
      BY <2>1, <2>2, <2>4, <3>3, <3>4 DEF Current
  <2>5. CASE recommending[q].at \in {"idle", "look", "read"}
    BY <2>2, <2>5 DEF Current
  <2> QED
    BY <2>3, <2>4, <2>5
<1>3. recommending' \in [Recommenders -> Recommender] /\ recommending'[r] = f
  BY DEF Becomes
<1>4. Placed(recommending[r])'
  BY <1>3 DEF Placed, Lies
<1>5. Current(recommending[r])'
  BY <1>3 DEF Current, Keys, Extended
<1>6. HistoryType'
  BY <1>1, <1>3, <1>4 DEF HistoryType, ArraysKept, Arrayed
<1> QED
  BY <1>2, <1>5, <1>6 DEF HistoryInv

\* Nothing ends at the set but its goroutine's turn.
LEMMA ExposedBefore ==
  ASSUME HistoryInv, NEW r \in Recommenders, NEW f \in Recommender, Becomes(r, f),
         recommending[r].at # "set", historyEntry' = historyEntry, historyRaced => historyRaced',
         historyRaced' \in BOOLEAN, Exposed'
  PROVE  /\ Exposed /\ Keys(historyEntry) = history
         /\ \A q \in Recommenders : Behind(recommending[q])
         /\ \A q \in Recommenders \ {r} : Behind(recommending[q])'
<1>1. Setting => Setting'
  BY DEF Setting, RecommenderIs, Becomes, Stays
<1>2. Exposed
  BY <1>1 DEF Exposed
<1>3. Keys(historyEntry) = history /\ \A q \in Recommenders : Behind(recommending[q])
  BY <1>2 DEF HistoryInv, EntryShowsHistory, Exposed
<1>4. ASSUME NEW q \in Recommenders \ {r} PROVE Behind(recommending[q])'
  <2>1. /\ recommending'[q].at = recommending[q].at /\ recommending'[q].slice = recommending[q].slice
        /\ recommending[q].old => recommending'[q].old
    BY DEF Becomes, Stays
  <2>2. Behind(recommending[q])
    BY <1>3
  <2> QED
    BY <2>1, <2>2 DEF Behind
<1> QED
  BY <1>2, <1>3, <1>4

\* Who keeps apart from whom after a turn.
LEMMA ApartAfter ==
  ASSUME HistoryInv, NEW r \in Recommenders, NEW f \in Recommender, Becomes(r, f),
         \A q \in Recommenders \ {r} :
             /\ recommending[q].at = "fill" =>
                    f.slice.in # recommending[q].slice.in /\ historyEntry'.in # recommending[q].slice.in
             /\ f.at = "fill" => recommending[q].slice.in # f.slice.in
             /\ recommending[q].at = "merge" /\ ~recommending'[q].old /\ f.at = "set" /\ ~f.old =>
                    recommending[q].slice.in # f.slice.in
             /\ recommending[q].at = "set" /\ ~recommending[q].old /\ f.at = "merge" /\ ~f.old =>
                    recommending[q].slice.in # f.slice.in,
         f.at = "fill" => historyEntry'.in # f.slice.in
  PROVE  Apart'
<1>1. recommending'[r] = f
  BY DEF Becomes
<1>2. \A q \in Recommenders \ {r} :
          /\ recommending'[q].at = recommending[q].at /\ recommending'[q].slice = recommending[q].slice
          /\ recommending[q].old => recommending'[q].old
  BY DEF Becomes, Stays
<1>3. Apart
  BY DEF HistoryInv
<1>4. ASSUME NEW x \in Recommenders, recommending'[x].at = "fill"
      PROVE  /\ historyEntry'.in # recommending'[x].slice.in
             /\ \A q \in Recommenders \ {x} : recommending'[q].slice.in # recommending'[x].slice.in
  <2>1. CASE x = r
    BY <1>1, <1>2, <1>4, <2>1
  <2>2. CASE x # r
    <3>1. recommending[x].at = "fill" /\ recommending'[x].slice = recommending[x].slice
      BY <1>2, <1>4, <2>2
    <3>2. \A q \in Recommenders \ {x} : recommending[q].slice.in # recommending[x].slice.in
      BY <1>3, <3>1 DEF Apart, RecommenderIs
    <3>3. ASSUME NEW q \in Recommenders \ {x} PROVE recommending'[q].slice.in # recommending'[x].slice.in
      <4>1. CASE q = r
        BY <1>1, <2>2, <3>1, <4>1
      <4>2. CASE q # r
        BY <1>2, <3>1, <3>2, <4>2
      <4> QED
        BY <4>1, <4>2
    <3> QED
      BY <2>2, <3>1, <3>3
  <2> QED
    BY <2>1, <2>2
<1>5. ASSUME NEW x \in Recommenders, recommending'[x].at = "set", ~recommending'[x].old,
             NEW q \in Recommenders, recommending'[q].at = "merge", ~recommending'[q].old
      PROVE  recommending'[q].slice.in # recommending'[x].slice.in
  <2>1. CASE x = r
    BY <1>1, <1>2, <1>5, <2>1
  <2>2. CASE q = r
    BY <1>1, <1>2, <1>5, <2>2
  <2>3. CASE x # r /\ q # r
    BY <1>2, <1>3, <1>5, <2>3 DEF Apart, RecommenderIs
  <2> QED
    BY <2>1, <2>2, <2>3
<1> QED
  BY <1>4, <1>5 DEF Apart, RecommenderIs

\* The history is known: to pick a track, or to add it.
TurnedTo(r, f, slice, old) ==
    \/ /\ recommending[r].key \in TrackKeys /\ f.at = "merge" /\ f.key = recommending[r].key
       /\ f.slice = slice /\ f.old = old
    \/ f.at \in {"idle", "look"} /\ f.slice = NoSlice

LEMMA KnownTurns ==
  ASSUME HistoryInv, NEW r \in Recommenders, NEW slice \in Cut, NEW old \in BOOLEAN, Known(r, slice, old)
  PROVE  \E f \in Recommender : TurnedTo(r, f, slice, old) /\ recommending' = [recommending EXCEPT ![r] = f]
<1>1. recommending[r] \in Recommender
  BY Recommending
<1>2. CASE recommending[r].key # "none"
  <2> DEFINE f == [recommending[r] EXCEPT !.at = "merge", !.slice = slice, !.old = old]
  <2>1. recommending[r].key \in TrackKeys
    BY <1>1, <1>2 DEF Recommender
  <2>2. /\ f \in Recommender /\ f.at = "merge" /\ f.key = recommending[r].key
        /\ f.slice = slice /\ f.old = old
    BY <1>1 DEF Recommender
  <2>3. recommending' = [recommending EXCEPT ![r] = f]
    BY <1>2 DEF Known
  <2> HIDE DEF f
  <2> QED
    BY <2>1, <2>2, <2>3 DEF TurnedTo
<1>3. CASE recommending[r].key = "none" /\ RecommenderEnds(r)
  <2>1. recommending' = [recommending EXCEPT ![r] = Away]
    BY <1>3 DEF RecommenderEnds
  <2> QED
    BY <2>1, AwayFacts DEF TurnedTo
<1>4. ASSUME NEW k \in TrackKeys, recommending' = [recommending EXCEPT ![r] = [Away EXCEPT !.at = "look", !.key = k]]
      PROVE  \E f \in Recommender : TurnedTo(r, f, slice, old) /\ recommending' = [recommending EXCEPT ![r] = f]
  <2> DEFINE f == [Away EXCEPT !.at = "look", !.key = k]
  <2>1. f \in Recommender /\ f.at = "look" /\ f.slice = NoSlice
    BY DEF Away, Recommender, NoSlice, Slice, Cut
  <2>2. recommending' = [recommending EXCEPT ![r] = f]
    BY <1>4
  <2> HIDE DEF f
  <2> QED
    BY <2>1, <2>2 DEF TurnedTo
<1> QED
  BY <1>2, <1>3, <1>4 DEF Known

\* Where arrays do not change, slices show what they did.
LEMMA SameArrays ==
  ASSUME HistoryInv, NEW r \in Recommenders, NEW f \in Recommender, Becomes(r, f), UNCHANGED arrays
  PROVE  /\ ArraysKept /\ \A q \in Recommenders \ {r} : KeysKept(recommending[q].slice)
         /\ \A s \in Cut : Keys(s)' = Keys(s)
<1>1. Arrayed
  BY Recommending
<1>2. \A s \in Cut : Lies(s) => Lies(s)'
  BY DEF Lies
<1>3. \A q \in Recommenders \ {r} : KeysKept(recommending[q].slice)
  BY DEF Becomes, Stays, KeysKept, Keys
<1> QED
  BY <1>1, <1>2, <1>3 DEF ArraysKept, Arrayed, Keys

\* A step after which the entry, if it can be relied upon, is known to be right.
LEMMA HistoryStepNow ==
  ASSUME HistoryInv, NEW r \in Recommenders, NEW f \in Recommender, Becomes(r, f),
         ArraysKept, UNCHANGED <<history, historyEntry>>, historyRaced' \in BOOLEAN,
         Placed(f)', Current(f)',
         \A q \in Recommenders \ {r} : recommending'[q].old \/ KeysKept(recommending[q].slice),
         Exposed' => Keys(historyEntry)' = history' /\ \A q \in Recommenders : Behind(recommending[q])',
         Apart'
  PROVE  HistoryInv'
<1>1. EntryShowsHistory'
  BY DEF EntryShowsHistory, Exposed
<1>2. historyEntry \in Cut /\ (historyEntry = NoSlice \/ (Lies(historyEntry) /\ history # NoHistory))
      /\ (history = NoHistory \/ (history \in Seq(TrackKeys) /\ Len(history) <= MaxHistory))
  BY Recommending
<1>3. historyEntry' = NoSlice \/ (Lies(historyEntry)' /\ history' # NoHistory)
  <2>1. PICK s \in Cut : s = historyEntry
    BY <1>2
  <2>2. Lies(s) => Lies(s)'
    BY DEF ArraysKept
  <2> QED
    BY <1>2, <2>1, <2>2 DEF Lies
<1> QED
  BY <1>1, <1>2, <1>3, HistoryStep

\* A turn after which the goroutine holds no slice.
LEMMA AloneKeeps ==
  ASSUME HistoryInv, NEW r \in Recommenders, NEW f \in Recommender,
         recommending' = [recommending EXCEPT ![r] = f],
         recommending[r].at # "set", f.at \in {"idle", "look", "read"}, f.slice = NoSlice,
         UNCHANGED <<history, historyEntry, arrays, historyRaced>>
  PROVE  HistoryInv'
<1>1. Becomes(r, f) /\ \A q \in Recommenders \ {r} : recommending'[q] = recommending[q]
  BY BecomesAlone
<1>2. ArraysKept /\ (\A q \in Recommenders \ {r} : KeysKept(recommending[q].slice))
      /\ \A s \in Cut : Keys(s)' = Keys(s)
  BY <1>1, SameArrays
<1>3. Placed(f)' /\ Current(f)'
  BY DEF Placed, Current
<1>4. Apart'
  <2>1. \A q \in Recommenders \ {r} : recommending[q].at = "fill" =>
            0 # recommending[q].slice.in /\ historyEntry.in # recommending[q].slice.in
    BY Recommending, KeysFacts DEF HistoryInv, Apart, RecommenderIs, Placed
  <2> QED
    BY <1>1, <2>1, NoSliceFacts, ApartAfter
<1>5. ASSUME Exposed' PROVE Keys(historyEntry)' = history' /\ \A q \in Recommenders : Behind(recommending[q])'
  <2>1. Keys(historyEntry) = history /\ \A q \in Recommenders \ {r} : Behind(recommending[q])'
    BY <1>1, <1>5, ExposedBefore, Recommending
  <2>2. Behind(recommending[r])'
    BY <1>1 DEF Behind, Becomes
  <2>3. Keys(historyEntry)' = history'
    BY <2>1 DEF Keys
  <2> QED
    BY <2>1, <2>2, <2>3
<1>6. historyRaced' \in BOOLEAN
  BY Recommending
<1> QED
  BY <1>1, <1>2, <1>3, <1>4, <1>5, <1>6, HistoryStepNow

LEMMA SpareFacts == Spare \subseteq Seq(Cells) /\ \A h \in Seq(TrackKeys) : h \in Seq(Cells)
<1>1. <<>> \in Seq(Cells)
  OBVIOUS
<1>2. "spare" \in Cells /\ TrackKeys \subseteq Cells
  BY DEF Cells
<1>3. <<"spare">> \in Seq(Cells)
  BY <1>2
<1>4. \A h \in Seq(TrackKeys) : h \in Seq(Cells)
  BY <1>2
<1> QED
  BY <1>1, <1>3, <1>4 DEF Spare

LEMMA BeginRecommendKeeps == ASSUME HistoryInv, NEW r \in Recommenders, BeginRecommend(r) PROVE HistoryInv'
<1> DEFINE f == [recommending[r] EXCEPT !.at = "look"]
<1>1. recommending[r] \in Recommender /\ recommending[r].at = "idle" /\ recommending[r].slice = NoSlice
  BY Recommending DEF BeginRecommend, RecommenderIs, Placed
<1>2. f \in Recommender /\ f.at = "look" /\ f.slice = NoSlice
  BY <1>1 DEF Recommender
<1>3. recommending' = [recommending EXCEPT ![r] = f] /\ UNCHANGED <<history, historyEntry, arrays, historyRaced>>
  BY <1>1 DEF BeginRecommend, HistoryInv, HistoryType
<1> HIDE DEF f
<1> QED
  BY <1>1, <1>2, <1>3, AloneKeeps

LEMMA LookKeeps == ASSUME HistoryInv, NEW r \in Recommenders, Look(r) PROVE HistoryInv'
<1>1. recommending[r] \in Recommender /\ recommending[r].at = "look" /\ recommending[r].slice = NoSlice
  BY Recommending DEF Look, RecommenderIs, Placed
<1>2. UNCHANGED <<history, historyEntry, arrays, historyRaced>> /\ historyEntry \in Cut /\ historyRaced \in BOOLEAN
  BY Recommending DEF Look
<1>3. CASE historyEntry = NoSlice
  <2> DEFINE f == [recommending[r] EXCEPT !.at = "read"]
  <2>1. f \in Recommender /\ f.at = "read" /\ f.slice = NoSlice
    BY <1>1 DEF Recommender
  <2>2. recommending' = [recommending EXCEPT ![r] = f]
    BY <1>1, <1>3 DEF Look, HistoryInv, HistoryType
  <2> HIDE DEF f
  <2> QED
    BY <1>1, <1>2, <2>1, <2>2, AloneKeeps
<1>4. CASE historyEntry # NoSlice
  <2>1. PICK slice, old : slice = historyEntry /\ old = (historyRaced \/ Setting)
    OBVIOUS
  <2>2. slice \in Cut /\ old \in BOOLEAN /\ Lies(slice) /\ history # NoHistory
    BY <1>2, <1>4, <2>1, Recommending DEF Setting
  <2>3. Known(r, slice, old)
    BY <1>4, <2>1 DEF Look
  <2>4. PICK f \in Recommender : TurnedTo(r, f, slice, old) /\ recommending' = [recommending EXCEPT ![r] = f]
    BY <2>2, <2>3, KnownTurns
  <2>5. CASE f.at \in {"idle", "look"} /\ f.slice = NoSlice
    BY <1>1, <1>2, <2>4, <2>5, AloneKeeps
  <2>6. CASE f.at = "merge" /\ f.key \in TrackKeys /\ f.slice = slice /\ f.old = old
    <3>1. Becomes(r, f) /\ \A q \in Recommenders \ {r} : recommending'[q] = recommending[q]
      BY <2>4, BecomesAlone
    <3>2. ArraysKept /\ (\A q \in Recommenders \ {r} : KeysKept(recommending[q].slice))
          /\ Keys(slice)' = Keys(slice)
      BY <1>2, <2>2, <3>1, SameArrays
    <3>3. Placed(f)'
      BY <1>2, <2>2, <2>6 DEF Placed, Lies
    <3>4. ~old => Exposed /\ Keys(slice) = history
      BY <1>4, <2>1 DEF HistoryInv, EntryShowsHistory, Exposed
    <3>5. Current(f)'
      BY <1>2, <2>6, <3>2, <3>4, <1>4, <2>1 DEF Current
    <3>6. Apart'
      <4>1. \A q \in Recommenders \ {r} :
                /\ recommending[q].at = "fill" => slice.in # recommending[q].slice.in
                /\ recommending[q].at = "set" => old
        BY <2>1 DEF HistoryInv, Apart, RecommenderIs, Setting
      <4> QED
        BY <1>2, <2>1, <2>6, <3>1, <4>1, ApartAfter
    <3>7. ASSUME Exposed' PROVE Keys(historyEntry)' = history' /\ \A q \in Recommenders : Behind(recommending[q])'
      <4>1. Keys(historyEntry) = history /\ \A q \in Recommenders \ {r} : Behind(recommending[q])'
        BY <1>1, <1>2, <3>1, <3>7, ExposedBefore, Recommending
      <4>2. Behind(recommending[r])'
        BY <1>2, <2>1, <2>2, <2>6, <3>1 DEF Behind, Becomes, Cut
      <4>3. Keys(historyEntry)' = history'
        BY <1>2, <2>1, <3>2, <4>1 DEF Keys
      <4> QED
        BY <4>1, <4>2, <4>3
    <3> QED
      BY <1>2, <2>2, <3>1, <3>2, <3>3, <3>5, <3>6, <3>7, HistoryStepNow
  <2> QED
    BY <2>4, <2>5, <2>6 DEF TurnedTo
<1> QED
  BY <1>3, <1>4

LEMMA ReadHistoryKeeps == ASSUME HistoryInv, NEW r \in Recommenders, ReadHistory(r) PROVE HistoryInv'
<1>1. recommending[r] \in Recommender /\ recommending[r].at = "read" /\ recommending[r].slice = NoSlice
  BY Recommending DEF ReadHistory, RecommenderIs, Placed
<1>2. UNCHANGED <<history, historyEntry, historyRaced>> /\ historyEntry \in Cut /\ historyRaced \in BOOLEAN /\ Arrayed
  BY Recommending DEF ReadHistory
<1>3. ASSUME NEW old \in BOOLEAN, Known(r, NoSlice, old), UNCHANGED arrays, ~old => history = NoHistory
      PROVE  HistoryInv'
  <2>1. PICK f \in Recommender : TurnedTo(r, f, NoSlice, old) /\ recommending' = [recommending EXCEPT ![r] = f]
    BY <1>3, KnownTurns, NoSliceFacts
  <2>2. CASE f.at \in {"idle", "look"} /\ f.slice = NoSlice
    BY <1>1, <1>2, <1>3, <2>1, <2>2, AloneKeeps
  <2>3. CASE f.at = "merge" /\ f.key \in TrackKeys /\ f.slice = NoSlice /\ f.old = old
    <3>1. Becomes(r, f) /\ \A q \in Recommenders \ {r} : recommending'[q] = recommending[q]
      BY <2>1, BecomesAlone
    <3>2. ArraysKept /\ (\A q \in Recommenders \ {r} : KeysKept(recommending[q].slice))
          /\ \A s \in Cut : Keys(s)' = Keys(s)
      BY <1>3, <3>1, SameArrays
    <3>3. Placed(f)'
      BY <2>3 DEF Placed
    <3>4. Current(f)'
      BY <1>2, <1>3, <2>3 DEF Current
    <3>5. Apart'
      <4>1. \A q \in Recommenders \ {r} :
                /\ recommending[q].at = "fill" =>
                       0 # recommending[q].slice.in /\ historyEntry.in # recommending[q].slice.in
                /\ recommending[q].at = "set" => 0 # recommending[q].slice.in
        BY Recommending, KeysFacts DEF HistoryInv, Apart, RecommenderIs, Placed
      <4> QED
        BY <1>2, <2>3, <3>1, <4>1, NoSliceFacts, ApartAfter
    <3>6. ASSUME Exposed' PROVE Keys(historyEntry)' = history' /\ \A q \in Recommenders : Behind(recommending[q])'
      <4>1. Keys(historyEntry) = history /\ Exposed /\ \A q \in Recommenders \ {r} : Behind(recommending[q])'
        BY <1>1, <1>2, <3>1, <3>6, ExposedBefore
      <4>2. historyEntry.in # 0
        BY <1>2, <4>1, Recommending, KeysFacts DEF Exposed
      <4>3. Behind(recommending[r])'
        BY <1>2, <2>3, <3>1, <4>2, NoSliceFacts DEF Behind, Becomes
      <4>4. Keys(historyEntry)' = history'
        BY <1>2, <1>3, <4>1 DEF Keys
      <4> QED
        BY <4>1, <4>3, <4>4
    <3> QED
      BY <1>2, <3>1, <3>2, <3>3, <3>4, <3>5, <3>6, HistoryStepNow
  <2> QED
    BY <2>1, <2>2, <2>3 DEF TurnedTo
<1>4. ASSUME history # NoHistory, NEW spare \in Spare, NewArray(history, spare),
             recommending' = [recommending EXCEPT ![r].at = "fill", ![r].slice = NewSlice(history), ![r].old = FALSE]
      PROVE  HistoryInv'
  <2>1. history \in Seq(TrackKeys) /\ Len(history) <= MaxHistory
    BY <1>4, Recommending
  <2>2. PICK s : s = NewSlice(history)
    OBVIOUS
  <2>3. PICK f : f = [recommending[r] EXCEPT !.at = "fill", !.slice = s, !.old = FALSE]
    OBVIOUS
  <2>4. /\ s \in Cut /\ s.in = Len(arrays) + 1 /\ s.first = 1 /\ s.last = Len(history) /\ s # NoSlice
        /\ Len(arrays) \in Nat
    BY <1>2, <2>1, <2>2, NoSliceFacts DEF NewSlice, Slice, Cut, Arrayed
  <2>5. f \in Recommender /\ f.at = "fill" /\ f.slice = s /\ ~f.old
    BY <1>1, <2>3, <2>4 DEF Recommender
  <2>6. recommending' = [recommending EXCEPT ![r] = f]
    BY <1>4, <2>2, <2>3
  <2>7. Becomes(r, f) /\ \A q \in Recommenders \ {r} : recommending'[q] = recommending[q]
    BY <2>5, <2>6, BecomesAlone
  <2> DEFINE a == history \o spare
  <2>8. /\ a \in Seq(Cells) /\ Len(history) <= Len(a)
        /\ \A i \in 1 .. Len(history) : a[i] = history[i]
    <3>1. history \in Seq(Cells) /\ spare \in Seq(Cells)
      BY <1>4, <2>1, SpareFacts
    <3> QED
      BY <3>1
  <2>9. arrays' = Append(arrays, a)
    BY <1>4 DEF NewArray
  <2> HIDE DEF a
  <2>10. /\ ArraysKept /\ (\A t \in Cut : Lies(t) => Keys(t)' = Keys(t))
         /\ Len(arrays') = Len(arrays) + 1 /\ arrays'[Len(arrays) + 1] = a
    BY <1>2, <2>8, <2>9, ArrayAdded
  <2>11. Lies(s)' /\ Keys(s)' = history
    <3>1. s.in \in DOMAIN arrays' /\ arrays'[s.in] = a
      BY <2>4, <2>10 DEF ArraysKept, Arrayed
    <3>2. \A i \in s.first .. s.last : a[i] \in TrackKeys
      BY <2>1, <2>4, <2>8
    <3>3. 1 <= s.first /\ s.first <= s.last + 1 /\ s.last <= Len(a) /\ s.last < s.first + MaxHistory
      BY <2>1, <2>4, <2>8, HistoryBounds
    <3>4. SubSeq(a, 1, Len(history)) = history
      <4>1. history \in Seq(Cells)
        BY <2>1 DEF Cells
      <4>2. SubSeq(a, 1, Len(history)) = SubSeq(history, 1, Len(history))
        BY <2>1, <2>8, <4>1, SameWindow
      <4> QED
        BY <4>1, <4>2
    <3> QED
      BY <2>4, <3>1, <3>2, <3>3, <3>4 DEF Lies, Keys
  <2>12. Placed(f)' /\ Current(f)'
    BY <1>2, <1>4, <2>5, <2>11, <2>4 DEF Placed, Current
  <2>13. \A t \in Cut : t = NoSlice \/ Lies(t) => t.in # s.in
    BY <2>4, NoSliceFacts, <1>2, KeysFacts
  <2>14. (\A q \in Recommenders \ {r} : recommending[q].slice.in # s.in) /\ historyEntry.in # s.in
    BY <1>2, <2>13, Recommending DEF Placed
  <2>15. Apart'
    <3>1. \A q \in Recommenders \ {r} : recommending[q].at = "fill" =>
              historyEntry.in # recommending[q].slice.in
      BY DEF HistoryInv, Apart, RecommenderIs
    <3> QED
      BY <1>2, <2>5, <2>7, <2>14, <3>1, ApartAfter
  <2>16. ASSUME NEW q \in Recommenders \ {r} PROVE KeysKept(recommending[q].slice)
    <3>1. PICK t \in Cut : t = recommending[q].slice
      BY Recommending
    <3>2. t # NoSlice => Keys(t)' = Keys(t)
      BY <2>10, <3>1, Recommending DEF Placed
    <3> QED
      BY <2>7, <3>1, <3>2 DEF KeysKept, Keys
  <2>17. ASSUME Exposed' PROVE Keys(historyEntry)' = history' /\ \A q \in Recommenders : Behind(recommending[q])'
    <3>1. Keys(historyEntry) = history /\ Exposed /\ \A q \in Recommenders \ {r} : Behind(recommending[q])'
      BY <1>1, <1>2, <2>5, <2>7, <2>17, ExposedBefore
    <3>2. PICK t \in Cut : t = historyEntry
      BY <1>2
    <3>3. Keys(t)' = Keys(t)
      BY <2>10, <3>1, <3>2, Recommending DEF Exposed
    <3>4. Keys(historyEntry)' = history'
      BY <1>2, <3>1, <3>2, <3>3 DEF Keys
    <3>5. Behind(recommending[r])'
      BY <2>5, <2>7 DEF Behind, Becomes
    <3> QED
      BY <3>1, <3>4, <3>5
  <2> QED
    BY <1>2, <2>5, <2>7, <2>10, <2>12, <2>15, <2>16, <2>17, HistoryStepNow
<1> QED
  BY <1>2, <1>3, <1>4, <1>1 DEF ReadHistory

LEMMA FillHistoryKeeps == ASSUME HistoryInv, NEW r \in Recommenders, FillHistory(r) PROVE HistoryInv'
<1>1. PICK slice, old : slice = recommending[r].slice /\ old = recommending[r].old
  OBVIOUS
<1>2. /\ recommending[r].at = "fill" /\ slice \in Cut /\ old \in BOOLEAN /\ Lies(slice) /\ slice # NoSlice
      /\ history # NoHistory /\ (~old => Keys(slice) = history)
  BY <1>1, Recommending DEF FillHistory, RecommenderIs, Placed, Current
<1>3. /\ historyEntry' = slice /\ historyRaced' = old /\ Known(r, slice, old) /\ UNCHANGED <<history, arrays>>
  BY <1>1 DEF FillHistory
<1>4. PICK f \in Recommender : TurnedTo(r, f, slice, old) /\ recommending' = [recommending EXCEPT ![r] = f]
  BY <1>2, <1>3, KnownTurns
<1>5. /\ f.at \in {"idle", "look", "merge"} /\ (f.slice = NoSlice \/ f.slice = slice)
      /\ f.at = "merge" => f.key \in TrackKeys /\ f.slice = slice /\ f.old = old
      /\ f.at \in {"idle", "look"} => f.slice = NoSlice
  BY <1>4 DEF TurnedTo
<1>6. Becomes(r, f) /\ \A q \in Recommenders \ {r} : recommending'[q] = recommending[q]
  BY <1>4, BecomesAlone
<1>7. ArraysKept /\ (\A q \in Recommenders \ {r} : KeysKept(recommending[q].slice))
      /\ Lies(slice)' /\ Keys(slice)' = Keys(slice)
  BY <1>2, <1>3, <1>6, SameArrays DEF ArraysKept
<1>8. Placed(f)'
  BY <1>2, <1>3, <1>5, <1>7 DEF Placed
<1>9. Current(f)'
  BY <1>2, <1>3, <1>5, <1>7 DEF Current
<1>10. ASSUME NEW q \in Recommenders \ {r}
       PROVE  /\ recommending[q].slice.in # slice.in
              /\ recommending[q].at = "fill" => recommending[q].slice.in # 0
  <2>1. recommending[q].slice.in # slice.in
    BY <1>1, <1>2 DEF HistoryInv, Apart, RecommenderIs
  <2>2. recommending[q].at = "fill" => recommending[q].slice.in # 0
    BY Recommending, KeysFacts DEF Placed
  <2> QED
    BY <2>1, <2>2
<1>11. Apart'
  BY <1>3, <1>5, <1>6, <1>10, NoSliceFacts, ApartAfter
<1>12. ~old => Keys(historyEntry)' = history'
  BY <1>2, <1>3, <1>7 DEF Keys
<1>13. EntryShowsHistory'
  BY <1>3, <1>12 DEF EntryShowsHistory
<1>14. ASSUME NEW q \in Recommenders PROVE Behind(recommending[q])'
  <2>1. CASE q = r
    BY <1>2, <1>3, <1>5, <1>6, <2>1 DEF Behind, Becomes, Cut
  <2>2. CASE q # r
    BY <1>3, <1>6, <1>10, <2>2 DEF Behind
  <2> QED
    BY <2>1, <2>2
<1>15. historyEntry' \in Cut /\ Lies(historyEntry)' /\ history' # NoHistory
  BY <1>2, <1>3, <1>7 DEF Lies
<1>16. history' = NoHistory \/ (history' \in Seq(TrackKeys) /\ Len(history') <= MaxHistory)
  BY <1>3, Recommending
<1> QED
  BY <1>2, <1>3, <1>6, <1>7, <1>8, <1>9, <1>11, <1>13, <1>14, <1>15, <1>16, HistoryStep

\* What a merged slice has to be.
LEMMA MergeStep ==
  ASSUME HistoryInv, NEW r \in Recommenders, Merge(r), NEW f \in Recommender, Becomes(r, f), f.at = "write",
         ArraysKept, Placed(f)', Current(f)',
         historyRaced => historyRaced', historyRaced' \in BOOLEAN,
         \A q \in Recommenders \ {r} : recommending'[q].old \/ KeysKept(recommending[q].slice),
         f.slice.in = recommending[r].slice.in \/ f.slice.in = Len(arrays) + 1,
         Exposed /\ Exposed' => KeysKept(historyEntry)
  PROVE  HistoryInv'
<1>1. /\ recommending[r].at = "merge" /\ UNCHANGED <<history, historyEntry>>
      /\ historyEntry \in Cut /\ Arrayed
  BY Recommending DEF Merge, RecommenderIs
<1>2. \A q \in Recommenders \ {r} : recommending[q].at = "fill" =>
          /\ recommending[q].slice.in # recommending[r].slice.in
          /\ recommending[q].slice.in # Len(arrays) + 1
          /\ historyEntry.in # recommending[q].slice.in
  <2> SUFFICES ASSUME NEW q \in Recommenders \ {r}, recommending[q].at = "fill"
               PROVE  /\ recommending[q].slice.in # recommending[r].slice.in
                      /\ recommending[q].slice.in # Len(arrays) + 1
                      /\ historyEntry.in # recommending[q].slice.in
    OBVIOUS
  <2>1. /\ recommending[q].slice.in # recommending[r].slice.in
        /\ historyEntry.in # recommending[q].slice.in
    BY DEF HistoryInv, Apart, RecommenderIs
  <2>2. recommending[q].slice.in \in 1 .. Len(arrays) /\ Len(arrays) \in Nat
    BY <1>1, Recommending, KeysFacts DEF Placed, Arrayed
  <2> QED
    BY <2>1, <2>2
<1>3. Apart'
  BY <1>1, <1>2, ApartAfter
<1>4. ASSUME Exposed' PROVE Keys(historyEntry)' = history' /\ \A q \in Recommenders : Behind(recommending[q])'
  <2>1. Exposed /\ Keys(historyEntry) = history /\ \A q \in Recommenders \ {r} : Behind(recommending[q])'
    BY <1>1, <1>4, ExposedBefore
  <2>2. Behind(recommending[r])'
    BY DEF Behind, Becomes
  <2>3. Keys(historyEntry)' = history'
    BY <1>1, <1>4, <2>1 DEF KeysKept, Exposed
  <2> QED
    BY <2>1, <2>2, <2>3
<1> QED
  BY <1>1, <1>3, <1>4, HistoryStepNow

LEMMA MergeKeeps == ASSUME HistoryInv, NEW r \in Recommenders, Merge(r) PROVE HistoryInv'
<1>1. PICK slice, key, old : /\ slice = recommending[r].slice /\ key = recommending[r].key
                             /\ old = recommending[r].old
  OBVIOUS
<1>2. /\ recommending[r] \in Recommender /\ recommending[r].at = "merge" /\ slice \in Cut /\ old \in BOOLEAN
      /\ key \in TrackKeys /\ (slice = NoSlice \/ (Lies(slice) /\ history # NoHistory))
      /\ ~old => IF slice = NoSlice THEN history = NoHistory ELSE Keys(slice) = history
  BY <1>1, Recommending DEF Merge, RecommenderIs, Placed, Current
<1>3. /\ UNCHANGED <<history, historyEntry>> /\ historyEntry \in Cut /\ historyRaced \in BOOLEAN /\ Arrayed
      /\ history = NoHistory \/ (history \in Seq(TrackKeys) /\ Len(history) <= MaxHistory)
      /\ historyEntry = NoSlice \/ Lies(historyEntry)
  BY Recommending DEF Merge
<1>4. MaxHistory \in Nat /\ MaxHistory >= 1
  BY HistoryBounds
<1> DEFINE wrote(t) == [recommending[r] EXCEPT !.at = "write", !.slice = t]
<1>5. ASSUME NEW t \in Cut
      PROVE  /\ wrote(t) \in Recommender /\ wrote(t).at = "write" /\ wrote(t).slice = t
             /\ wrote(t).key = key /\ wrote(t).old = old
  BY <1>1, <1>2 DEF Recommender
<1>6. CASE key \in ToSet(Keys(slice))
  <2>1. slice # NoSlice
    <3>1. Keys(NoSlice) = <<>> /\ ToSet(<<>>) = {}
      BY DEF Keys, ToSet
    <3> QED
      BY <1>6, <3>1
  <2>2. Lies(slice) /\ history # NoHistory /\ history \in Seq(TrackKeys) /\ Len(history) <= MaxHistory
    BY <1>2, <1>3, <2>1
  <2>3. Trimmed(slice) = slice
    BY <1>2, <1>4, <2>2 DEF Trimmed, Lies, Cut
  <2>4. UNCHANGED <<arrays, historyRaced>>
        /\ recommending' = [recommending EXCEPT ![r].at = "write", ![r].slice = slice]
    BY <1>1, <1>6, <2>3 DEF Merge
  <2>5. PICK f : f = wrote(slice)
    OBVIOUS
  <2>6. f \in Recommender /\ f.at = "write" /\ f.slice = slice /\ f.key = key /\ f.old = old
    BY <1>2, <1>5, <2>5
  <2>7. recommending' = [recommending EXCEPT ![r] = f]
    BY <2>4, <2>5
  <2>8. Becomes(r, f)
    BY <2>6, <2>7, BecomesAlone
  <2>9. /\ ArraysKept /\ (\A q \in Recommenders \ {r} : KeysKept(recommending[q].slice))
        /\ Lies(slice)' /\ Keys(slice)' = Keys(slice)
    BY <1>2, <2>2, <2>4, <2>6, <2>8, SameArrays DEF ArraysKept
  <2>10. Placed(f)'
    BY <1>2, <2>1, <2>6, <2>9 DEF Placed
  <2>11. ASSUME ~old PROVE Keys(slice) = Extended(history, key)
    BY <1>2, <1>4, <1>6, <2>1, <2>2, <2>11 DEF Extended
  <2>12. Current(f)'
    BY <1>3, <2>6, <2>9, <2>11 DEF Current, Extended
  <2>13. KeysKept(historyEntry)
    BY <1>3, <2>4 DEF KeysKept, Keys
  <2> HIDE DEF wrote
  <2> QED
    BY <1>1, <1>3, <2>4, <2>6, <2>8, <2>9, <2>10, <2>12, <2>13, MergeStep
<1>7. CASE key \notin ToSet(Keys(slice)) /\ HasRoom(slice)
  <2>1. slice # NoSlice /\ slice.last < Len(arrays[slice.in]) /\ Lies(slice) /\ history # NoHistory
        /\ history \in Seq(TrackKeys)
    BY <1>2, <1>3, <1>7 DEF HasRoom
  <2>2. /\ arrays' = [arrays EXCEPT ![slice.in][slice.last + 1] = key]
        /\ historyRaced' = (historyRaced \/ old)
        /\ recommending' = [Outwritten(slice) EXCEPT ![r].at = "write", ![r].slice = Trimmed(Longer(slice))]
    BY <1>1, <1>7 DEF Merge
  <2>3. /\ ArraysKept
        /\ \A s \in Cut : Lies(s) /\ (s.in = slice.in => s.last <= slice.last) => Keys(s)' = Keys(s)
        /\ arrays'[slice.in][slice.last + 1] = key
        /\ Len(arrays'[slice.in]) = Len(arrays[slice.in]) /\ slice.in \in DOMAIN arrays'
        /\ \A i \in slice.first .. slice.last : arrays'[slice.in][i] = arrays[slice.in][i]
    BY <1>2, <1>3, <2>1, <2>2, CellWritten
  <2>4. PICK b : b = arrays'[slice.in]
    OBVIOUS
  <2>5. PICK h : h = Keys(slice)
    OBVIOUS
  <2>6. PICK t : t = Trimmed(Longer(slice))
    OBVIOUS
  <2>7. /\ slice.in \in Nat /\ slice.first \in Nat /\ slice.last \in Nat /\ 1 <= slice.first
        /\ slice.first <= slice.last + 1 /\ slice.last < slice.first + MaxHistory
    BY <1>2, <2>1 DEF Cut, Lies
  <2>8. /\ h \in Seq(TrackKeys) /\ Len(h) = slice.last - slice.first + 1 /\ Len(h) <= MaxHistory
        /\ \A i \in 1 .. Len(h) : h[i] = arrays[slice.in][slice.first + i - 1]
    BY <1>2, <1>3, <1>4, <2>1, <2>5, <2>7, KeysFacts
  <2>9. b \in Seq(Cells) /\ slice.last < Len(b) /\ b[slice.last + 1] = key
    BY <2>1, <2>3, <2>4 DEF ArraysKept, Arrayed
  <2>10. \A i \in 1 .. Len(h) : b[slice.first + i - 1] = h[i]
    <3> SUFFICES ASSUME NEW i \in 1 .. Len(h) PROVE b[slice.first + i - 1] = h[i]
      OBVIOUS
    <3>1. slice.first + i - 1 \in slice.first .. slice.last
      BY <2>7, <2>8
    <3> QED
      BY <2>3, <2>4, <2>8, <3>1
  <2>11. Longer(slice) = Slice(slice.in, slice.first, slice.last + 1)
    BY <1>2 DEF Longer, Slice, Cut
  <2> DEFINE all == Append(h, key)
  <2>12. /\ t \in Cut /\ t.in = slice.in /\ t.last = slice.last + 1 /\ 1 <= t.first /\ t.first <= t.last + 1
         /\ t.last <= Len(b) /\ t.last < t.first + MaxHistory
         /\ \A i \in t.first .. t.last : b[i] \in TrackKeys
         /\ SubSeq(b, t.first, t.last) = IF Len(all) > MaxHistory THEN Tail(all) ELSE all
    <3>1. t = Trimmed(Slice(slice.in, slice.first, slice.last + 1))
      BY <2>6, <2>11
    <3>2. Len(h) = slice.last - slice.first + 1 /\ 1 <= slice.first /\ slice.first <= slice.last + 1
      BY <2>7, <2>8
    <3>3. ExtendsTo(h, key, b, slice.first, slice.last, slice.in)
      BY <1>2, <2>7, <2>8, <2>9, <2>10, <3>2, Extends
    <3> QED
      BY <3>1, <3>3 DEF ExtendsTo, all
  <2> HIDE DEF all
  <2>13. t # NoSlice
    BY <1>2, <1>3, <2>1, <2>12, NoSliceFacts, KeysFacts
  <2>14. Lies(t)' /\ Keys(t)' = IF Len(all) > MaxHistory THEN Tail(all) ELSE all
    BY <2>3, <2>4, <2>12, <2>13 DEF Lies, Keys
  <2>15. PICK f : f = wrote(t)
    OBVIOUS
  <2>16. f \in Recommender /\ f.at = "write" /\ f.slice = t /\ f.key = key /\ f.old = old
    BY <1>5, <2>12, <2>15
  <2>17. PICK O : O = {o \in Recommenders : /\ recommending[o].slice.in = slice.in
                                            /\ recommending[o].slice.last > slice.last}
    OBVIOUS
  <2>18. r \notin O
    BY <1>1, <2>7, <2>17
  <2>19. /\ Outwritten(slice) = [o \in Recommenders |-> IF o \in O THEN [recommending[o] EXCEPT !.old = TRUE]
                                                       ELSE recommending[o]]
         /\ Outwritten(slice)[r] = recommending[r]
    BY <2>17, <2>18 DEF Outwritten
  <2>20. recommending' = [[o \in Recommenders |-> IF o \in O THEN [recommending[o] EXCEPT !.old = TRUE]
                                                  ELSE recommending[o]] EXCEPT ![r] = f]
    BY <2>2, <2>6, <2>15, <2>18, <2>19
  <2>21. Becomes(r, f) /\ \A q \in Recommenders \ {r} : q \in O => recommending'[q].old
    BY <2>16, <2>20, BecomesBefore
  <2>22. ASSUME NEW q \in Recommenders \ {r} PROVE recommending'[q].old \/ KeysKept(recommending[q].slice)
    <3>1. CASE q \in O
      BY <2>21, <3>1
    <3>2. CASE q \notin O
      <4>1. PICK s \in Cut : s = recommending[q].slice
        BY Recommending
      <4>2. s.in = slice.in => s.last <= slice.last
        BY <2>7, <2>17, <3>2, <4>1 DEF Cut
      <4>3. s # NoSlice => Keys(s)' = Keys(s)
        BY <2>3, <4>1, <4>2, Recommending DEF Placed
      <4>4. recommending'[q].slice = s
        BY <2>21, <4>1 DEF Becomes, Stays
      <4> QED
        BY <4>1, <4>3, <4>4 DEF KeysKept, Keys
    <3> QED
      BY <3>1, <3>2
  <2>23. Placed(f)'
    BY <1>2, <2>13, <2>14, <2>16 DEF Placed
  <2>24. ASSUME ~old PROVE Extended(history, key) = IF Len(all) > MaxHistory THEN Tail(all) ELSE all
    BY <1>2, <1>7, <2>1, <2>5, <2>24, ExtendedByNew DEF all
  <2>25. Current(f)'
    BY <1>3, <2>14, <2>16, <2>24 DEF Current, Extended
  <2>26. ASSUME Exposed, Exposed' PROVE KeysKept(historyEntry)
    <3>1. ~old
      BY <1>2, <2>2, <2>26 DEF Exposed
    <3>2. Behind(recommending[r])
      BY <2>26 DEF HistoryInv
    <3>3. PICK s \in Cut : s = historyEntry
      BY <1>3
    <3>4. s.in = slice.in => s.last <= slice.last
      BY <1>1, <1>2, <3>1, <3>2, <3>3 DEF Behind
    <3>5. Keys(s)' = Keys(s)
      BY <1>3, <2>3, <2>26, <3>3, <3>4 DEF Exposed
    <3> QED
      BY <1>3, <3>3, <3>5 DEF KeysKept, Keys
  <2>27. (historyRaced => historyRaced') /\ historyRaced' \in BOOLEAN /\ f.slice.in = recommending[r].slice.in
    BY <1>1, <1>2, <1>3, <2>2, <2>12, <2>16
  <2> HIDE DEF wrote
  <2> QED
    BY <2>3, <2>16, <2>21, <2>22, <2>23, <2>25, <2>26, <2>27, MergeStep
<1>8. CASE key \notin ToSet(Keys(slice)) /\ ~HasRoom(slice)
  <2>1. PICK h : h = Keys(slice)
    OBVIOUS
  <2>2. h \in Seq(TrackKeys) /\ Len(h) <= MaxHistory
    <3>1. CASE slice = NoSlice
      BY <1>4, <2>1, <3>1 DEF Keys
    <3>2. CASE slice # NoSlice
      <4>1. slice.last \in Nat /\ slice.first \in Nat /\ slice.last < slice.first + MaxHistory
        BY <1>2, <3>2 DEF Lies, Cut
      <4>2. h \in Seq(TrackKeys) /\ Len(h) = slice.last - slice.first + 1
        BY <1>2, <1>3, <2>1, <3>2, KeysFacts
      <4> QED
        BY <1>4, <4>1, <4>2
    <3> QED
      BY <3>1, <3>2
  <2>3. PICK spare \in Spare : NewArray(Append(h, key), spare)
    BY <1>1, <1>8, <2>1 DEF Merge
  <2>4. UNCHANGED historyRaced
        /\ recommending' = [recommending EXCEPT ![r].at = "write", ![r].slice = Trimmed(NewSlice(Append(h, key)))]
    BY <1>1, <1>8, <2>1 DEF Merge
  <2> DEFINE all == Append(h, key)
             b == all \o spare
  <2>5. /\ b \in Seq(Cells) /\ Len(h) < Len(b) /\ b[Len(h) + 1] = key
        /\ \A i \in 1 .. Len(h) : b[1 + i - 1] = h[i]
    <3>1. h \in Seq(Cells) /\ spare \in Seq(Cells) /\ key \in Cells
      BY <1>2, <2>2, <2>3, SpareFacts DEF Cells
    <3>2. /\ all \in Seq(Cells) /\ Len(all) = Len(h) + 1 /\ all[Len(h) + 1] = key
          /\ \A i \in 1 .. Len(h) : all[i] = h[i]
      BY <3>1
    <3> HIDE DEF all
    <3>3. b \in Seq(Cells) /\ Len(b) >= Len(all) /\ \A i \in 1 .. Len(all) : b[i] = all[i]
      BY <3>1, <3>2
    <3> HIDE DEF b
    <3>4. Len(h) \in Nat /\ Len(b) \in Nat /\ Len(b) >= Len(h) + 1
      BY <3>1, <3>2, <3>3
    <3>5. \A i \in 1 .. Len(h) + 1 : b[i] = all[i]
      BY <3>2, <3>3
    <3>6. b[Len(h) + 1] = key
      BY <3>2, <3>4, <3>5
    <3>7. ASSUME NEW i \in 1 .. Len(h) PROVE b[1 + i - 1] = h[i]
      <4>1. 1 + i - 1 = i /\ i \in 1 .. Len(h) + 1
        BY <3>4
      <4> QED
        BY <3>2, <3>5, <4>1
    <3>8. Len(h) < Len(b)
      BY <3>4
    <3> QED
      BY <3>3, <3>6, <3>7, <3>8
  <2>6. arrays' = Append(arrays, b)
    BY <2>3 DEF NewArray
  <2>7. PICK t, a : t = Trimmed(NewSlice(Append(h, key))) /\ a = Len(arrays) + 1
    OBVIOUS
  <2>8. a \in Nat /\ Len(arrays) \in Nat
    BY <1>3, <2>7 DEF Arrayed
  <2>9. NewSlice(Append(h, key)) = Slice(a, 1, Len(h) + 1)
    BY <1>2, <2>2, <2>7 DEF NewSlice
  <2> HIDE DEF b
  <2>10. /\ ArraysKept /\ (\A s \in Cut : Lies(s) => Keys(s)' = Keys(s))
         /\ Len(arrays') = Len(arrays) + 1 /\ arrays'[a] = b
    BY <1>3, <2>5, <2>6, <2>7, ArrayAdded
  <2>11. /\ t \in Cut /\ t.in = a /\ t.last = Len(h) + 1 /\ 1 <= t.first /\ t.first <= t.last + 1
         /\ t.last <= Len(b) /\ t.last < t.first + MaxHistory
         /\ \A i \in t.first .. t.last : b[i] \in TrackKeys
         /\ SubSeq(b, t.first, t.last) = IF Len(all) > MaxHistory THEN Tail(all) ELSE all
    <3>1. 1 \in Nat /\ Len(h) \in Nat /\ 1 <= 1 /\ 1 <= Len(h) + 1 /\ Len(h) = Len(h) - 1 + 1
      BY <2>2
    <3>2. ExtendsTo(h, key, b, 1, Len(h), a)
      BY <1>2, <2>2, <2>5, <2>8, <3>1, Extends
    <3>3. t = Trimmed(Slice(a, 1, Len(h) + 1))
      BY <2>7, <2>9
    <3> QED
      BY <3>2, <3>3 DEF ExtendsTo
  <2> HIDE DEF all
  <2>12. t # NoSlice
    BY <2>8, <2>7, <2>11, NoSliceFacts
  <2>13. Lies(t)' /\ Keys(t)' = IF Len(all) > MaxHistory THEN Tail(all) ELSE all
    <3>1. a \in DOMAIN arrays'
      BY <2>7, <2>8, <2>10 DEF ArraysKept, Arrayed
    <3> QED
      BY <2>10, <2>11, <2>12, <3>1 DEF Lies, Keys
  <2>14. PICK f : f = wrote(t)
    OBVIOUS
  <2>15. f \in Recommender /\ f.at = "write" /\ f.slice = t /\ f.key = key /\ f.old = old
    BY <1>5, <2>11, <2>14
  <2>16. recommending' = [recommending EXCEPT ![r] = f]
    BY <2>4, <2>7, <2>14
  <2>17. Becomes(r, f) /\ \A q \in Recommenders \ {r} : recommending'[q] = recommending[q]
    BY <2>15, <2>16, BecomesAlone
  <2>18. ASSUME NEW q \in Recommenders \ {r} PROVE KeysKept(recommending[q].slice)
    <3>1. PICK s \in Cut : s = recommending[q].slice
      BY Recommending
    <3>2. s # NoSlice => Keys(s)' = Keys(s)
      BY <2>10, <3>1, Recommending DEF Placed
    <3> QED
      BY <2>17, <3>1, <3>2 DEF KeysKept, Keys
  <2>19. history # NoHistory \/ (slice = NoSlice /\ history = NoHistory)
    BY <1>2
  <2>20. Placed(f)'
    BY <1>2, <2>12, <2>13, <2>15 DEF Placed
  <2>21. ASSUME ~old PROVE Extended(history, key) = IF Len(all) > MaxHistory THEN Tail(all) ELSE all
    <3>1. IF history = NoHistory THEN h = <<>> ELSE history = h
      BY <1>2, <2>1, <2>21 DEF Keys
    <3> QED
      BY <1>2, <1>8, <2>1, <2>2, <3>1, ExtendedByNew DEF all
  <2>22. Current(f)'
    BY <1>3, <2>13, <2>15, <2>21 DEF Current, Extended
  <2>23. KeysKept(historyEntry)
    <3>1. PICK s \in Cut : s = historyEntry
      BY <1>3
    <3>2. s # NoSlice => Keys(s)' = Keys(s)
      BY <1>3, <2>10, <3>1
    <3> QED
      BY <1>3, <3>1, <3>2 DEF KeysKept, Keys
  <2> HIDE DEF wrote
  <2> QED
    BY <1>3, <2>4, <2>7, <2>10, <2>11, <2>15, <2>17, <2>18, <2>20, <2>22, <2>23, MergeStep
<1> QED
  BY <1>6, <1>7, <1>8

\* Whoever holds a slice is overtaken by a write.
LEMMA RecommendersOvertaken ==
  ASSUME HistoryInv, NEW r \in Recommenders, NEW f \in Recommender,
         recommending' = [Outrun(r) EXCEPT ![r] = f]
  PROVE  /\ Becomes(r, f)
         /\ \A q \in Recommenders \ {r} : recommending'[q].old \/ recommending[q].at \in {"idle", "look", "read"}
<1>1. PICK O : O = {o \in Recommenders \ {r} : recommending[o].at \in {"fill", "merge", "write", "set"}}
  OBVIOUS
<1>2. Outrun(r) = [o \in Recommenders |-> IF o \in O THEN [recommending[o] EXCEPT !.old = TRUE]
                                          ELSE recommending[o]]
  BY <1>1 DEF Outrun
<1>3. Becomes(r, f) /\ \A q \in Recommenders \ {r} : q \in O => recommending'[q].old
  BY <1>2, BecomesBefore
<1>4. \A q \in Recommenders \ {r} : recommending[q].at \notin {"idle", "look", "read"} => q \in O
  BY <1>1, Recommending, RecommenderFacts
<1> QED
  BY <1>3, <1>4

\* What is written are tracks, of which there may be none.
LEMMA WrittenTracks ==
  ASSUME HistoryInv, NEW r \in Recommenders, recommending[r].at = "write"
  PROVE  LET h == Keys(recommending[r].slice)
         IN h \in Seq(TrackKeys) /\ Len(h) <= MaxHistory /\ h # NoHistory
<1> DEFINE s == recommending[r].slice
<1>1. s \in Cut /\ Lies(s) /\ Arrayed
  BY Recommending DEF Placed
<1>2. /\ s.first \in Nat /\ s.last \in Nat /\ s.last < s.first + MaxHistory /\ MaxHistory \in Nat
      /\ Keys(s) \in Seq(TrackKeys) /\ Len(Keys(s)) = s.last - s.first + 1
  BY <1>1, KeysFacts, HistoryBounds DEF Lies, Cut
<1>3. NoHistory \notin Seq(TrackKeys)
  <2>1. NoHistory[1] = "none" /\ Len(NoHistory) = 1
    BY DEF NoHistory
  <2>2. "none" \notin TrackKeys
    BY HistoryBounds
  <2> QED
    BY <2>1, <2>2
<1>4. Len(Keys(s)) <= MaxHistory
  <2> DEFINE n == Len(Keys(s))
  <2>1. n = s.last - s.first + 1
    BY <1>2
  <2> HIDE DEF n, s
  <2> QED
    BY <1>2, <2>1 DEF n
<1> QED
  BY <1>2, <1>3, <1>4

LEMMA WriteHistoryKeeps == ASSUME HistoryInv, NEW r \in Recommenders, WriteHistory(r) PROVE HistoryInv'
<1>1. recommending[r] \in Recommender /\ recommending[r].at = "write" /\ historyRaced \in BOOLEAN
  BY Recommending DEF WriteHistory, RecommenderIs
<1>2. PICK slice, h : slice = recommending[r].slice /\ h = Keys(slice)
  OBVIOUS
<1>3. /\ slice \in Cut /\ Lies(slice) /\ slice # NoSlice /\ recommending[r].key \in TrackKeys
      /\ recommending[r].old \in BOOLEAN
      /\ historyEntry \in Cut /\ (historyEntry = NoSlice \/ Lies(historyEntry))
  BY <1>1, <1>2, Recommending DEF Placed
<1>4. h \in Seq(TrackKeys) /\ Len(h) <= MaxHistory /\ h # NoHistory
  BY <1>1, <1>2, WrittenTracks
<1>5. /\ history' = h /\ historyRaced' = (historyRaced \/ recommending[r].old)
      /\ recommending' = [Outrun(r) EXCEPT ![r].at = "set"] /\ UNCHANGED <<historyEntry, arrays>>
  BY <1>2 DEF WriteHistory
<1>6. PICK f : f = [recommending[r] EXCEPT !.at = "set"]
  OBVIOUS
<1>7. /\ f \in Recommender /\ f.at = "set" /\ f.slice = slice /\ f.key = recommending[r].key
      /\ f.old = recommending[r].old
  BY <1>1, <1>2, <1>6 DEF Recommender
<1>8. recommending' = [Outrun(r) EXCEPT ![r] = f]
  <2>1. Outrun(r)[r] = recommending[r]
    BY DEF Outrun
  <2> QED
    BY <1>5, <1>6, <2>1
<1>9. /\ Becomes(r, f)
      /\ \A q \in Recommenders \ {r} : recommending'[q].old \/ recommending[q].at \in {"idle", "look", "read"}
  BY <1>7, <1>8, RecommendersOvertaken
<1>10. ArraysKept /\ Lies(slice)' /\ Keys(slice)' = h
  BY <1>2, <1>3, <1>5, <1>7, <1>9, SameArrays DEF ArraysKept
<1>11. Placed(f)'
  BY <1>3, <1>4, <1>5, <1>7, <1>10 DEF Placed
<1>12. Current(f)'
  BY <1>5, <1>7, <1>10 DEF Current
<1>13. Setting'
  BY <1>7, <1>9 DEF Setting, RecommenderIs, Becomes
<1>14. Apart'
  <2>1. \A q \in Recommenders \ {r} : recommending[q].at = "fill" =>
            slice.in # recommending[q].slice.in /\ historyEntry.in # recommending[q].slice.in
    BY <1>2 DEF HistoryInv, Apart, RecommenderIs
  <2>2. \A q \in Recommenders \ {r} : recommending[q].at = "merge" => recommending'[q].old
    BY <1>9
  <2> QED
    BY <1>5, <1>7, <1>9, <2>1, <2>2, ApartAfter
<1>15. historyEntry' \in Cut /\ (historyEntry' = NoSlice \/ (Lies(historyEntry)' /\ history' # NoHistory))
  BY <1>3, <1>4, <1>5 DEF Lies
<1>16. EntryShowsHistory' /\ ~Exposed'
  BY <1>13 DEF EntryShowsHistory, Exposed
<1>17. historyRaced' \in BOOLEAN
  BY <1>1, <1>3, <1>5
<1> QED
  BY <1>4, <1>5, <1>7, <1>9, <1>10, <1>11, <1>12, <1>14, <1>15, <1>16, <1>17, HistoryStep

LEMMA WriteHistoryFailsKeeps ==
  ASSUME HistoryInv, NEW r \in Recommenders, WriteHistoryFails(r) PROVE HistoryInv'
<1>1. recommending[r] \in Recommender /\ recommending[r].at = "write" /\ UNCHANGED <<historyEntry, arrays>>
  BY Recommending DEF WriteHistoryFails, RecommenderIs
<1>2. CASE UNCHANGED <<history, historyRaced>> /\ RecommenderEnds(r)
  BY <1>1, <1>2, AwayFacts, AloneKeeps DEF RecommenderEnds
<1>3. CASE /\ history' = Keys(recommending[r].slice)
           /\ historyRaced' = TRUE
           /\ recommending' = [Outrun(r) EXCEPT ![r] = Away]
  <2>1. history' \in Seq(TrackKeys) /\ Len(history') <= MaxHistory /\ history' # NoHistory
    BY <1>1, <1>3, WrittenTracks
  <2>2. /\ Becomes(r, Away)
        /\ \A q \in Recommenders \ {r} : recommending'[q].old \/ recommending[q].at \in {"idle", "look", "read"}
    BY <1>3, AwayFacts, RecommendersOvertaken
  <2>3. ArraysKept
    BY <1>1, <2>2, AwayFacts, SameArrays
  <2>4. Placed(Away)' /\ Current(Away)'
    BY AwayFacts DEF Placed, Current, Away
  <2>5. EntryShowsHistory' /\ ~Exposed'
    BY <1>3 DEF EntryShowsHistory, Exposed
  <2>6. historyEntry' \in Cut /\ (historyEntry' = NoSlice \/ (Lies(historyEntry)' /\ history' # NoHistory))
    BY <1>1, <2>1, Recommending DEF Lies
  <2>7. Apart'
    <3>1. \A q \in Recommenders \ {r} : recommending[q].at = "fill" =>
              0 # recommending[q].slice.in /\ historyEntry.in # recommending[q].slice.in
      BY Recommending, KeysFacts DEF HistoryInv, Apart, RecommenderIs, Placed
    <3> QED
      BY <1>1, <2>2, <3>1, AwayFacts, NoSliceFacts, ApartAfter
  <2> QED
    BY <1>3, <2>1, <2>2, <2>3, <2>4, <2>5, <2>6, <2>7, AwayFacts, HistoryStep
<1> QED
  BY <1>2, <1>3 DEF WriteHistoryFails

LEMMA SetHistoryKeeps == ASSUME HistoryInv, NEW r \in Recommenders, SetHistory(r) PROVE HistoryInv'
<1>1. PICK slice, old : slice = recommending[r].slice /\ old = recommending[r].old
  OBVIOUS
<1>2. /\ recommending[r].at = "set" /\ slice \in Cut /\ old \in BOOLEAN /\ Lies(slice) /\ slice # NoSlice
      /\ history # NoHistory /\ (~old => Keys(slice) = history)
  BY <1>1, Recommending DEF SetHistory, RecommenderIs, Placed, Current
<1>3. /\ historyEntry' = slice /\ historyRaced' = old /\ UNCHANGED <<history, arrays>>
      /\ recommending' = [recommending EXCEPT ![r] = Away]
  BY <1>1 DEF SetHistory, RecommenderEnds
<1>4. Becomes(r, Away) /\ \A q \in Recommenders \ {r} : recommending'[q] = recommending[q]
  BY <1>3, AwayFacts, BecomesAlone
<1>5. ArraysKept /\ (\A q \in Recommenders \ {r} : KeysKept(recommending[q].slice))
      /\ Lies(slice)' /\ Keys(slice)' = Keys(slice)
  BY <1>2, <1>3, <1>4, AwayFacts, SameArrays DEF ArraysKept
<1>6. Placed(Away)' /\ Current(Away)'
  BY AwayFacts DEF Placed, Current, Away
<1>7. Apart'
  <2>1. \A q \in Recommenders \ {r} : recommending[q].at = "fill" =>
            0 # recommending[q].slice.in /\ slice.in # recommending[q].slice.in
    BY <1>1, Recommending, KeysFacts DEF HistoryInv, Apart, RecommenderIs, Placed
  <2> QED
    BY <1>3, <1>4, <2>1, AwayFacts, NoSliceFacts, ApartAfter
<1>8. ~old => Keys(historyEntry)' = history'
  BY <1>2, <1>3, <1>5 DEF Keys
<1>9. EntryShowsHistory'
  BY <1>3, <1>8 DEF EntryShowsHistory
<1>10. ASSUME Exposed', NEW q \in Recommenders PROVE Behind(recommending[q])'
  <2>1. CASE q = r
    BY <1>4, <2>1, AwayFacts DEF Behind, Becomes
  <2>2. CASE q # r
    <3>1. ~old
      BY <1>3, <1>10 DEF Exposed
    <3>2. recommending[q].at = "merge" /\ ~recommending[q].old => recommending[q].slice.in # slice.in
      BY <1>1, <1>2, <3>1 DEF HistoryInv, Apart, RecommenderIs
    <3> QED
      BY <1>3, <1>4, <2>2, <3>2 DEF Behind
  <2> QED
    BY <2>1, <2>2
<1>11. historyEntry' \in Cut /\ Lies(historyEntry)' /\ history' # NoHistory
  BY <1>2, <1>3, <1>5 DEF Lies
<1>12. history' = NoHistory \/ (history' \in Seq(TrackKeys) /\ Len(history') <= MaxHistory)
  BY <1>3, Recommending
<1> QED
  BY <1>2, <1>3, <1>4, <1>5, <1>6, <1>7, <1>9, <1>10, <1>11, <1>12, AwayFacts, HistoryStep

LEMMA ExpireHistoryKeeps == ASSUME HistoryInv, ExpireHistory PROVE HistoryInv'
<1>1. historyEntry' = NoSlice /\ UNCHANGED <<history, arrays, recommending, historyRaced>>
  BY DEF ExpireHistory, HistoryFault
<1>2. HistoryType'
  BY <1>1, NoSliceFacts DEF HistoryInv, HistoryType, Placed, Lies
<1>3. \A r \in Recommenders : Current(recommending[r])'
  BY <1>1 DEF HistoryInv, Current, Keys, Extended
<1>4. EntryShowsHistory' /\ ~Exposed'
  BY <1>1 DEF EntryShowsHistory, Exposed
<1>5. \A r \in Recommenders : recommending[r].at = "fill" => recommending[r].slice.in # 0
  BY Recommending, KeysFacts DEF Placed
<1>6. Apart'
  BY <1>1, <1>5, NoSliceFacts DEF HistoryInv, Apart, RecommenderIs
<1> QED
  BY <1>2, <1>3, <1>4, <1>6 DEF HistoryInv

LEMMA HistoryInitHolds == HistoryInit => HistoryInv
<1> SUFFICES ASSUME HistoryInit PROVE HistoryInv
  OBVIOUS
<1>1. /\ history = NoHistory /\ historyEntry = NoSlice /\ arrays = <<>> /\ ~historyRaced
      /\ historyRaced \in BOOLEAN /\ recommending = [r \in Recommenders |-> Away]
  BY DEF HistoryInit
<1>2. Placed(Away) /\ Current(Away) /\ Behind(Away)
  BY <1>1, AwayFacts DEF Placed, Current, Behind, Away
<1>3. HistoryType
  BY <1>1, <1>2, AwayFacts, NoSliceFacts DEF HistoryType
<1>4. EntryShowsHistory /\ ~Exposed
  BY <1>1 DEF EntryShowsHistory, Exposed
<1>5. Apart
  BY <1>1, AwayFacts DEF Apart, RecommenderIs
<1> QED
  BY <1>1, <1>2, <1>3, <1>4, <1>5 DEF HistoryInv

LEMMA HistoryNextKeeps == HistoryInv /\ [HistoryNext]_historyVars => HistoryInv'
<1> SUFFICES ASSUME HistoryInv, [HistoryNext]_historyVars PROVE HistoryInv'
  OBVIOUS
<1>1. CASE UNCHANGED historyVars
  BY <1>1 DEF historyVars, HistoryInv, HistoryType, Placed, Lies, Current, Keys, Extended, EntryShowsHistory,
              Exposed, Setting, RecommenderIs, Behind, Apart
<1>2. CASE HistoryNext
  BY <1>2, BeginRecommendKeeps, LookKeeps, ReadHistoryKeeps, FillHistoryKeeps, MergeKeeps, WriteHistoryKeeps,
     WriteHistoryFailsKeeps, SetHistoryKeeps, ExpireHistoryKeeps DEF HistoryNext
<1> QED
  BY <1>1, <1>2

\* Only a write takes a goroutine from write to set.
LEMMA SetAfterWrite ==
  ASSUME HistoryInv, HistoryInv', [HistoryNext]_historyVars, NEW r \in Recommenders,
         ~historyRaced', RecommenderIs(r, "write"), RecommenderIs(r, "set")'
  PROVE  history' = Extended(history, recommending[r].key)
<1>1. recommending[r].at = "write" /\ recommending'[r].at = "set"
  BY DEF RecommenderIs
<1>2. ASSUME NEW q \in Recommenders, q # r,
             \/ BeginRecommend(q) \/ Look(q) \/ ReadHistory(q) \/ FillHistory(q)
             \/ Merge(q) \/ WriteHistory(q) \/ WriteHistoryFails(q) \/ SetHistory(q)
      PROVE  recommending'[r].at = recommending[r].at
  <2>1. recommending[r] \in Recommender /\ DOMAIN recommending = Recommenders
    BY Recommending DEF HistoryInv, HistoryType
  <2>2. [recommending[r] EXCEPT !.old = TRUE].at = recommending[r].at
    BY <2>1 DEF Recommender
  <2>3. Outrun(q)[r].at = recommending[r].at
    BY <2>2 DEF Outrun
  <2>4. \A s : Outwritten(s)[r].at = recommending[r].at
    BY <2>2 DEF Outwritten
  <2>5. CASE BeginRecommend(q) \/ SetHistory(q)
    BY <1>2, <2>1, <2>5 DEF BeginRecommend, SetHistory, RecommenderEnds
  <2>6. CASE Look(q) \/ ReadHistory(q) \/ FillHistory(q)
    BY <1>2, <2>1, <2>6 DEF Look, ReadHistory, FillHistory, Known, RecommenderEnds
  <2>7. CASE Merge(q)
    <3>1. \A s : DOMAIN Outwritten(s) = Recommenders
      BY DEF Outwritten
    <3>2. recommending'[r] = recommending[r] \/ recommending'[r] = Outwritten(recommending[q].slice)[r]
      BY <1>2, <2>1, <2>7, <3>1 DEF Merge
    <3> QED
      BY <2>4, <3>2
  <2>8. CASE WriteHistory(q) \/ WriteHistoryFails(q)
    <3>1. DOMAIN Outrun(q) = Recommenders
      BY DEF Outrun
    <3>2. recommending'[r] = recommending[r] \/ recommending'[r] = Outrun(q)[r]
      BY <1>2, <2>1, <2>8, <3>1 DEF WriteHistory, WriteHistoryFails, RecommenderEnds
    <3> QED
      BY <2>3, <3>2
  <2> QED
    BY <1>2, <2>5, <2>6, <2>7, <2>8
<1>3. CASE WriteHistory(r)
  <2>1. ~recommending[r].old /\ history' = Keys(recommending[r].slice)
    BY <1>3 DEF WriteHistory
  <2>2. Keys(recommending[r].slice) = Extended(history, recommending[r].key)
    BY <1>1, <2>1 DEF HistoryInv, Current
  <2> QED
    BY <2>1, <2>2
<1>4. CASE BeginRecommend(r) \/ Look(r) \/ ReadHistory(r) \/ FillHistory(r) \/ Merge(r) \/ SetHistory(r)
  BY <1>1, <1>4 DEF BeginRecommend, Look, ReadHistory, FillHistory, Merge, SetHistory, RecommenderIs
<1>5. CASE WriteHistoryFails(r)
  <2>1. recommending[r] \in Recommender /\ recommending \in [Recommenders -> Recommender]
    BY Recommending DEF HistoryInv, HistoryType
  <2>2. recommending'[r] = Away
    BY <1>5, <2>1 DEF WriteHistoryFails, RecommenderEnds, Outrun
  <2> QED
    BY <1>1, <2>2, AwayFacts
<1>6. CASE ExpireHistory \/ UNCHANGED historyVars
  BY <1>1, <1>6 DEF ExpireHistory, HistoryFault, historyVars
<1> QED
  BY <1>1, <1>2, <1>3, <1>4, <1>5, <1>6 DEF HistoryNext

HistoryStays ==
    /\ \A r \in Recommenders :
           ~historyRaced' /\ RecommenderIs(r, "write") /\ RecommenderIs(r, "set")'
               => history' = Extended(history, recommending[r].key)
    /\ EntryShowsHistory'
LEMMA HistoryStepStays == HistoryInv /\ HistoryInv' /\ [HistoryNext]_historyVars => HistoryStays
  BY SetAfterWrite DEF HistoryStays, HistoryInv

-----------------------------------------------------------------------------

LEMMA OneOfTheParts ==
  [Next]_bookVars => /\ [RightsNext]_rightsVars
                     /\ [PlaylistsNext]_playlistVars
                     /\ [BroadcastsNext]_broadcastVars
                     /\ [HistoryNext]_historyVars
  BY DEF Next, bookVars

\* The limit on playlists is passed, and a song is in a playlist twice, only
\* as far as commands overlapped or the database failed (GetUserPlaylists
\* before CreatePlaylist, songExists before $push).
THEOREM PlaylistsStayLimited == Spec => []ListsAreLimited
  <1>1. Init => PlaylistsInv
    BY PlaylistsInitInv DEF Init
  <1>2. PlaylistsInv /\ [Next]_bookVars => PlaylistsInv'
    BY PlaylistsNextInv, OneOfTheParts
  <1>3. PlaylistsInv => ListsAreLimited
    BY DEF PlaylistsInv
  <1> QED
    BY <1>1, <1>2, <1>3, PTL DEF Spec

\* A cancelled broadcast stops, and nothing else stops one (broadcastHandler,
\* cancelBroadcastHandler), unless two were begun at once.
THEOREM CancellationStops == Spec => []CancelStops
  <1>1. Init => BroadcastsInv
    BY BroadcastsInitInv DEF Init
  <1>2. BroadcastsInv /\ [Next]_bookVars => BroadcastsInv'
    BY BroadcastsNextInv, OneOfTheParts
  <1> QED
    BY <1>1, <1>2, BroadcastsInvImplies, PTL DEF Spec

\* An entry of a cache differs from its source only until the writer has
\* dropped it, or the update about the administrator is handled, and otherwise
\* only after somebody was overtaken, or an answer was lost (getChat,
\* GetAuthUsers, SetLoggerStatus, UpdateAdminCache).
THEOREM EntriesAreTrue == Spec => []EntriesTellTheTruth
  <1>1. Init => RightsInv
    BY RightsInitInv DEF Init
  <1>2. RightsInv /\ [Next]_bookVars => RightsInv'
    BY RightsNextInv, OneOfTheParts
  <1>3. RightsInv => EntriesTellTheTruth
    BY DEF RightsInv
  <1> QED
    BY <1>1, <1>2, <1>3, PTL DEF Spec

\* If nothing that is cached was out of date and nothing failed since a command
\* began, it is let through exactly when the settings, the authorized users and
\* the list of administrators call for it (checkBotAdmin, adminMode, playMode).
THEOREM FairVerdictsAreDue == Spec => []VerdictsAreDue
  <1>1. Init => VerdictsInv
    BY VerdictsInitInv DEF Init
  <1>2. VerdictsInv /\ [Next]_bookVars => VerdictsInv'
    BY VerdictsNextInv, OneOfTheParts
  <1> QED
    BY <1>1, <1>2, VerdictsInvImplies, PTL DEF Spec

\* A recommendation adds a track to what was recommended, of which the oldest
\* may go, and the cache shows what was written, unless calls overlapped, a
\* read failed or an answer was lost (AddRecommendedTracks), although append
\* writes into an array that others read.
THEOREM HistoriesAreKept == Spec => HistoryIsKept
  <1>1. Init => HistoryInv
    BY HistoryInitHolds DEF Init
  <1>2. HistoryInv /\ [Next]_bookVars => HistoryInv'
    BY HistoryNextKeeps, OneOfTheParts
  <1>3. HistoryInv /\ HistoryInv' /\ [Next]_bookVars => [HistoryStays]_historyVars
    BY HistoryStepStays, OneOfTheParts
  <1>4. Spec => [][HistoryStays]_historyVars
    BY <1>1, <1>2, <1>3, PTL DEF Spec
  <1> QED
    BY <1>4 DEF HistoryIsKept, HistoryStays
=============================================================================
