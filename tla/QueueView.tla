------------------------------ MODULE QueueView ------------------------------
(***************************************************************************)
(* The interactive queue viewer of one chat (src/internal/queue): what its *)
(* manager remembers (page, sort, filter, lock and the pages it rendered), *)
(* the buttons of the message, and the queue that handlers elsewhere       *)
(* change under it.                                                        *)
(*                                                                         *)
(* Every button runs in a goroutine.  The manager's methods and the        *)
(* methods of the queue lock each for itself, so that a handler is a       *)
(* sequence of steps.  Methods that follow one another without a request   *)
(* to Telegram in between, and read, or set a page that is clamped again,  *)
(* are one step.                                                           *)
(***************************************************************************)
EXTENDS QueueOps, Filtering, Integers

CONSTANTS Goroutines,
          MaxTracks,   \* bound: tracks that are ever added
          PageSize,    \* tracks on a page, 10 in the code
          Sorts,       \* sort keys offered
          SortKey,     \* SortKey[s][t]: what a sort compares
          Filters,     \* filter keys offered
          Passes,      \* Passes[f]: the tracks that a filter shows
          Users, Admins, Requester,
          Ids, TrackId, \* TrackId[t]: the video or the song that a track plays
          MaxRequests  \* bound: buttons pressed and commands given

Tracks == 1 .. MaxTracks

\* The constants of sorting.go and filters.go that change nothing.
SortDefault == ""
FilterAll == ""

ASSUME Parameters ==
    /\ MaxTracks \in Nat \ {0, 1} /\ PageSize \in Nat \ {0} /\ MaxRequests \in Nat
    /\ SortDefault \in Sorts /\ SortKey \in [Sorts -> [Tracks -> Int]]
    /\ FilterAll \in Filters
    /\ Admins \subseteq Users /\ Requester \in [Tracks -> Users] /\ TrackId \in [Tracks -> Ids]

VARIABLES queue,    \* tracks (the pointers of the code), the one that plays first
          loop,     \* how often the one that plays is still to be repeated
          st,       \* the chat's state in the manager
          screen,   \* what the viewer's message shows
          go,       \* the goroutines
          added, requests

vars == <<queue, loop, st, screen, go, added, requests>>

-----------------------------------------------------------------------------
(* Views: sorting, filtering, pages. *)

Before(s, q, a, b) ==
    \/ SortKey[s][a] < SortKey[s][b]
    \/ SortKey[s][a] = SortKey[s][b] /\ \E i, j \in DOMAIN q : i < j /\ q[i] = a /\ q[j] = b

\* sort.SliceStable: every track behind those that come before it.
Sorted(q, s) ==
    [i \in DOMAIN q |-> CHOOSE t \in ToSet(q) : Cardinality({u \in ToSet(q) : Before(s, q, u, t)}) = i - 1]

\* ApplySort: what plays stays in front; the sorts by a key are stable.
ApplySort(q, s) ==
    CASE Len(q) <= 1 \/ s \in {SortDefault, "old"} -> q
      [] Len(q) > 1 /\ s = "new" -> <<q[1]>> \o Reverse(Tail(q))
      [] OTHER -> <<q[1]>> \o Sorted(Tail(q), s)

ApplyFilter(q, f) ==
    IF q = <<>> \/ f = FilterAll THEN q
    ELSE <<q[1]>> \o Keep(Tail(q), Passes[f])

View(q, s, f) == ApplyFilter(ApplySort(q, s), f)

PageCount(len) ==
    IF len <= 1 THEN len ELSE (len - 1 + PageSize - 1) \div PageSize

\* Variant: no pages are not a case of its own.
ClampPageToZero(page, len) ==
    LET total == PageCount(len) IN
    IF page < 1 THEN 1 ELSE IF page > total THEN total ELSE page

ClampPage(page, len) ==
    LET total == PageCount(len) IN
    IF total = 0 \/ page < 1 THEN 1 ELSE IF page > total THEN total ELSE page

\* PageSlice: the tracks that are up next on a page.
PageSlice(view, page) ==
    LET start == (page - 1) * PageSize + 1 IN
    SubSeq(view, start + 1, IF start + PageSize < Len(view) THEN start + PageSize ELSE Len(view))

\* queueHash, of the ids: a track may have the id of one that left, or even of
\* one that is queued.
QueueHash(q) == IF q = <<>> THEN <<0>> ELSE <<Len(q), TrackId[q[1]], TrackId[q[Len(q)]]>>

\* RenderPage: the text of a page, which depends on the whole view.
RenderPage(q, s, f, locked, page) ==
    [view |-> View(q, s, f), page |-> page, sortBy |-> s, filterBy |-> f, locked |-> locked]
Rows(text) == PageSlice(text.view, text.page)

\* RenderStatsAlert, of which the page and the size of the view are kept.
RenderStats(view, page) == <<page, PageCount(Len(view)), Len(view)>>

-----------------------------------------------------------------------------
(* The manager. *)

MaxPage == PageCount(MaxTracks)
NoText == [none |-> TRUE]
NoTexts == [p \in 1 .. MaxPage |-> NoText]
NoStats == <<>>

\* getOrCreate for a chat that is not known.
NewState == [page |-> 1, sortBy |-> SortDefault, filterBy |-> FilterAll, locked |-> FALSE,
             hash |-> <<>>, text |-> NoTexts, stats |-> NoStats]

Invalidated(s) == [s EXCEPT !.text = NoTexts, !.stats = NoStats]

\* For the properties: what is cached is late once a track is added that the
\* fingerprint cannot tell from the last one.
Confused(s, t) ==
    IF Len(s.hash) = 3 /\ s.hash[3] = TrackId[t]
    THEN [s EXCEPT !.text = [p \in DOMAIN @ |-> IF @[p] = NoText THEN NoText ELSE [text |-> @[p].text, late |-> TRUE]]]
    ELSE s

\* Variant: only the length is compared.
CheckHashByLength(s, q) ==
    IF s.hash # <<>> /\ s.hash[1] = Len(q) THEN s ELSE [Invalidated(s) EXCEPT !.hash = QueueHash(q)]

CheckHash(s, q) ==
    IF s.hash = QueueHash(q) THEN s ELSE [Invalidated(s) EXCEPT !.hash = QueueHash(q)]

\* SetSort and SetFilter, and the SetPage(1) that follows.
SetSort(s, by) == [Invalidated(s) EXCEPT !.sortBy = by, !.page = 1]
SetFilter(s, f) == [Invalidated(s) EXCEPT !.filterBy = f, !.page = 1]

-----------------------------------------------------------------------------

\* What a goroutine knows: the queue it read and what it read with it.  Two
\* fields serve the properties: "late" says that the queue or the manager's
\* settings changed since, or that a handler that changed them has yet to
\* invalidate; "want" is the track that the button pressed was drawn for, as
\* long as that is where it was.
Idle == [at |-> "idle", cmd |-> "none", user |-> "none", arg |-> 0, q |-> <<>>, page |-> 0,
         sortBy |-> SortDefault, filterBy |-> FilterAll, locked |-> FALSE, text |-> NoText, late |-> FALSE,
         want |-> 0]

\* Messages: a page with track buttons, a detail, or anything else.
NoScreen == [kind |-> "none", text |-> NoText, rows |-> 0, late |-> FALSE, track |-> 0, index |-> 0]

\* The page that /queue sends first.
FirstPage(q) == RenderPage(q, SortDefault, FilterAll, FALSE, 1)

\* The viewer was just refreshed, with all tracks queued or one yet to come.
Init ==
    /\ loop \in {0, 1}
    /\ \E n \in {MaxTracks - 1, MaxTracks} : queue = [i \in 1 .. n |-> i] /\ added = n
    /\ st = [NewState EXCEPT !.text[1] = [text |-> FirstPage(queue), late |-> FALSE],
                             !.hash = QueueHash(queue)]
    /\ screen = [NoScreen EXCEPT !.kind = "page", !.text = FirstPage(queue),
                                 !.rows = Len(Rows(FirstPage(queue)))]
    /\ go = [g \in Goroutines |-> Idle]
    /\ requests = 0

At(g, label) == go[g].at = label

\* After a change whoever renders is late, and nobody wants a track any more.
Unwanted(h) == [go[h] EXCEPT !.want = 0]
Overtaken(h) ==
    IF go[h].at \in {"hash", "page", "lookup", "store", "edit", "queue"}
    THEN [go[h] EXCEPT !.late = TRUE] ELSE Unwanted(h)
Late(g, r) == go' = [h \in Goroutines |-> IF h = g THEN r ELSE Overtaken(h)]
Step(g, r) == go' = [go EXCEPT ![g] = r]
Goto(g, label) == Step(g, [go[g] EXCEPT !.at = label])
Return(g) == Step(g, Idle)

-----------------------------------------------------------------------------
(* Buttons. *)

\* Whether the text shown is what would be rendered now.
ShowsTheTruth ==
    /\ screen.kind = "page"
    /\ screen.text = RenderPage(queue, st.sortBy, st.filterBy, st.locked,
                                ClampPage(st.page, Len(View(queue, st.sortBy, st.filterBy))))

DrawnFor(cmd, arg) ==
    CASE cmd = "dtl" /\ ShowsTheTruth -> Rows(screen.text)[arg]
      [] cmd \in {"rm", "mu", "md", "jmp"} /\ arg < Len(queue) /\ screen.track = queue[arg + 1] -> screen.track
      [] OTHER -> 0

Click(g, cmd, user, arg) ==
    /\ requests < MaxRequests /\ requests' = requests + 1
    /\ At(g, "idle")
    /\ Step(g, [Idle EXCEPT !.at = cmd, !.cmd = cmd, !.user = user, !.arg = arg, !.want = DrawnFor(cmd, arg)])
    /\ UNCHANGED <<queue, loop, st, screen, added>>

\* isQueueAdmin; denyAdmin tells the others.
MayManage(u) == u \in Admins
Manage(g, cmd, user, arg) == MayManage(user) /\ Click(g, cmd, "none", arg)

\* The buttons a message has.  Menus and details lead back.
ClickOnPage(g) ==
    /\ screen.kind = "page"
    /\ \/ \E n \in 1 .. MaxPage : Click(g, "pg", "none", n)
       \/ \E cmd \in {"ref", "sts", "cls", "menu"} : Click(g, cmd, "none", 0)
       \/ \E cmd \in {"clr", "shf", "rev", "lck"}, u \in Users : Manage(g, cmd, u, 0)
       \/ \E n \in 1 .. screen.rows : n <= Len(Rows(screen.text)) /\ Click(g, "dtl", "none", n)
ClickOnDetail(g) ==
    /\ screen.kind = "detail"
    /\ \/ Click(g, "bk", "none", 0)
       \/ \E u \in Users : Click(g, "rm", u, screen.index)
       \/ \E cmd \in {"mu", "md", "jmp"}, u \in Users : Manage(g, cmd, u, screen.index)
ClickOnMenu(g) ==
    /\ screen.kind = "menu"
    /\ \/ Click(g, "bk", "none", 0)
       \/ \E s \in Sorts : Click(g, "srt", "none", s)
       \/ \E f \in Filters : Click(g, "flt", "none", f)

Show(kind) == screen' = [NoScreen EXCEPT !.kind = kind]

TurnPage(g) ==
    /\ At(g, "pg")
    /\ st' = [st EXCEPT !.page = ClampPage(go[g].arg, Len(View(queue, st.sortBy, st.filterBy)))]
    /\ go' = [h \in Goroutines |-> IF h = g THEN [go[g] EXCEPT !.at = "render"] ELSE Unwanted(h)]
    /\ UNCHANGED <<queue, loop, screen, added, requests>>

\* "ref" and "bk".
Refresh(g) ==
    /\ go[g].at \in {"ref", "bk"}
    /\ st' = IF At(g, "ref") THEN Invalidated(st) ELSE st
    /\ \/ queue # <<>> /\ Goto(g, "render") /\ UNCHANGED screen
       \/ queue = <<>> /\ Return(g) /\ Show("empty")
    /\ UNCHANGED <<queue, loop, added, requests>>

Stats(g) ==
    /\ At(g, "sts")
    /\ LET view == View(queue, st.sortBy, st.filterBy) IN
       st' = IF st.stats # NoStats THEN st
             ELSE [st EXCEPT !.stats = RenderStats(view, ClampPage(st.page, Len(view)))]
    /\ Return(g)
    /\ UNCHANGED <<queue, loop, screen, added, requests>>

\* "cls", "srtm" and "fltm".
CloseOrMenu(g) ==
    /\ \/ At(g, "cls") /\ Show("none")
       \/ At(g, "menu") /\ queue # <<>> /\ Show("menu")
       \/ At(g, "menu") /\ queue = <<>> /\ UNCHANGED screen
    /\ Return(g)
    /\ UNCHANGED <<queue, loop, st, added, requests>>

Sort(g) ==
    /\ \/ At(g, "srt") /\ st' = SetSort(st, go[g].arg)
       \/ At(g, "flt") /\ st' = SetFilter(st, go[g].arg)
    /\ Late(g, [go[g] EXCEPT !.at = "render"])
    /\ UNCHANGED <<queue, loop, screen, added, requests>>

-----------------------------------------------------------------------------
(* Details, and what they do. *)

\* "dtl" reads the queue, and then page, sort and filter; the index of the
\* track in the queue is kept in the buttons.
DetailRead(g) ==
    /\ At(g, "dtl")
    /\ Step(g, [go[g] EXCEPT !.at = "open", !.q = queue])
    /\ UNCHANGED <<queue, loop, st, screen, added, requests>>

ShowDetail(q, index) ==
    screen' = [NoScreen EXCEPT !.kind = "detail", !.index = index, !.track = q[index + 1]]

\* Variant: the row is looked up in the queue's own order.
DetailOpenUnsorted(g) ==
    /\ At(g, "open")
    /\ LET q == go[g].q
           rows == PageSlice(q, st.page)
       IN
       IF go[g].arg \in DOMAIN rows
       THEN ShowDetail(q, CHOOSE i \in DOMAIN q : q[i + 1] = rows[go[g].arg])
       ELSE UNCHANGED screen
    /\ Return(g)
    /\ UNCHANGED <<queue, loop, st, added, requests>>

DetailOpen(g) ==
    /\ At(g, "open")
    /\ LET q == go[g].q
           rows == PageSlice(View(q, st.sortBy, st.filterBy), st.page)
       IN
       IF go[g].arg \in DOMAIN rows
       THEN ShowDetail(q, CHOOSE i \in DOMAIN q : q[i + 1] = rows[go[g].arg])
       ELSE UNCHANGED screen
    /\ Return(g)
    /\ UNCHANGED <<queue, loop, st, added, requests>>

\* "rm": the owner is looked up in a copy of the queue.
RemoveCheck(g) ==
    /\ At(g, "rm")
    /\ LET n == go[g].arg IN
       IF n < Len(queue) /\ (Requester[queue[n + 1]] = go[g].user \/ MayManage(go[g].user))
       THEN Step(g, [go[g] EXCEPT !.at = "remove", !.user = "none"])
       ELSE Return(g)
    /\ UNCHANGED <<queue, loop, st, screen, added, requests>>

\* A change of the queue.  Goroutine g goes on with label.
Change(g, q, label) ==
    /\ queue' = q
    /\ IF q = queue THEN Goto(g, label) ELSE Late(g, [go[g] EXCEPT !.at = label])

RemoveTrack(g) ==
    /\ At(g, "remove")
    /\ IF go[g].arg < Len(queue)
       THEN Change(g, RemoveIndex(queue, go[g].arg), "invalidate")
       ELSE Return(g) /\ UNCHANGED queue
    /\ UNCHANGED <<loop, st, screen, added, requests>>

\* Variant: the new index is forgotten.
MoveByForgets(g, n, to) ==
    IF CanMove(queue, n, to)
    THEN Change(g, Moved(queue, n, to), "invalidate")
    ELSE Return(g) /\ UNCHANGED queue

\* "mu" and "md": the detail moves with its track.
MoveBy(g, n, to) ==
    IF CanMove(queue, n, to)
    THEN /\ queue' = Moved(queue, n, to)
         /\ Late(g, [go[g] EXCEPT !.at = "invalidate", !.arg = to])
    ELSE Return(g) /\ UNCHANGED queue
Move(g) ==
    /\ \/ At(g, "mu") /\ MoveBy(g, go[g].arg, go[g].arg - 1)
       \/ At(g, "md") /\ MoveBy(g, go[g].arg, go[g].arg + 1)
    /\ UNCHANGED <<loop, st, screen, added, requests>>

\* "jmp": the index is compared with a copy of the queue.  When the queue is
\* too short by the time it is trimmed, it stays as it is, and the current track
\* is skipped all the same.
JumpCheck(g) ==
    /\ At(g, "jmp")
    /\ IF go[g].arg < Len(queue) THEN Goto(g, "trim") ELSE Return(g)
    /\ UNCHANGED <<queue, loop, st, screen, added, requests>>

Jump(g) ==
    /\ At(g, "trim")
    /\ Change(g, TrimBefore(queue, go[g].arg), "invalidate")
    /\ UNCHANGED <<loop, st, screen, added, requests>>

\* "shf", "rev", "clr" and "lck".
Reorder(g) ==
    /\ \/ At(g, "shf") /\ UNCHANGED loop /\ \E q \in Shuffles(queue) : Change(g, q, "invalidate")
       \/ At(g, "rev") /\ UNCHANGED loop /\ Change(g, ReverseUpNext(queue), "invalidate")
       \/ At(g, "clr") /\ loop' = 0 /\ Change(g, <<>>, "invalidate")
    /\ UNCHANGED <<st, screen, added, requests>>

ToggleLock(g) ==
    /\ At(g, "lck")
    /\ st' = [st EXCEPT !.locked = ~@]
    /\ Late(g, [go[g] EXCEPT !.at = "invalidate"])
    /\ UNCHANGED <<queue, loop, screen, added, requests>>

Invalidate(g) ==
    /\ At(g, "invalidate")
    /\ st' = Invalidated(st)
    /\ Goto(g, CASE go[g].cmd \in {"mu", "md"} -> "moved"
                 [] go[g].cmd = "jmp" -> "skip"
                 [] go[g].cmd = "clr" -> "drop"
                 [] OTHER -> "render")
    /\ UNCHANGED <<queue, loop, screen, added, requests>>

ShowMoved(g) ==
    /\ At(g, "moved")
    /\ IF go[g].arg < Len(queue)
       THEN ShowDetail(queue, go[g].arg) /\ Return(g)
       ELSE Goto(g, "render") /\ UNCHANGED screen
    /\ UNCHANGED <<queue, loop, st, added, requests>>

\* PlayNext, of which the viewer sees that the head goes or is repeated.
PlayNext ==
    \/ loop > 0 /\ loop' = loop - 1 /\ UNCHANGED queue
    \/ loop = 0 /\ queue' = RemoveCurrent(queue) /\ UNCHANGED loop

SkipAfterJump(g) ==
    /\ At(g, "skip")
    /\ PlayNext
    /\ Late(g, Idle)
    /\ Show("none")
    /\ UNCHANGED <<st, added, requests>>

\* Manager.Remove: the lock, sort and filter go with the pages.
Drop(g) ==
    /\ At(g, "drop")
    /\ st' = NewState
    /\ Late(g, Idle)
    /\ Show("cleared")
    /\ UNCHANGED <<queue, loop, added, requests>>

-----------------------------------------------------------------------------
(* renderAndEdit. *)

Read(g) ==
    /\ At(g, "render")
    /\ Step(g, [Idle EXCEPT !.at = "hash", !.q = queue])
    /\ UNCHANGED <<queue, loop, st, screen, added, requests>>

Hash(g) ==
    /\ At(g, "hash")
    /\ st' = CheckHash(st, go[g].q)
    /\ Step(g, [go[g] EXCEPT !.at = "page", !.page = ClampPage(st.page, Len(go[g].q))])
    /\ UNCHANGED <<queue, loop, screen, added, requests>>

\* SetPage, and what is read after it.  The page shown is clamped once more,
\* to the view.
Settle(g) ==
    /\ At(g, "page")
    /\ st' = [st EXCEPT !.page = go[g].page]
    /\ LET view == View(go[g].q, st.sortBy, st.filterBy) IN
       go' = [h \in Goroutines |->
                IF h = g
                THEN [go[g] EXCEPT !.at = "lookup", !.sortBy = st.sortBy, !.filterBy = st.filterBy,
                                   !.locked = st.locked, !.page = ClampPage(@, Len(view))]
                ELSE IF st.page # go[g].page THEN Unwanted(h) ELSE go[h]]
    /\ UNCHANGED <<queue, loop, screen, added, requests>>

Render(r) == RenderPage(r.q, r.sortBy, r.filterBy, r.locked, r.page)

\* GetCachedText; a miss is rendered with the played time of the assistant.
LookUp(g) ==
    /\ At(g, "lookup")
    /\ LET hit == st.text[go[g].page] IN
       IF hit # NoText
       THEN Step(g, [go[g] EXCEPT !.at = "edit", !.text = hit.text,
                                  !.late = @ \/ hit.late \/ \E h \in Goroutines : At(h, "invalidate")])
       ELSE Step(g, [go[g] EXCEPT !.at = "store", !.text = Render(go[g])])
    /\ UNCHANGED <<queue, loop, st, screen, added, requests>>

Store(g) ==
    /\ At(g, "store")
    /\ st' = [st EXCEPT !.text[go[g].page] =
                 [text |-> go[g].text, late |-> go[g].late \/ st.hash # QueueHash(go[g].q)]]
    /\ Goto(g, "edit")
    /\ UNCHANGED <<queue, loop, screen, added, requests>>

\* The message gets the text, cached or not, and as many track buttons as the
\* page just read has tracks.
Edit(g) ==
    /\ At(g, "edit")
    /\ screen' = [NoScreen EXCEPT
           !.kind = "page", !.text = go[g].text, !.late = go[g].late,
           !.rows = Len(PageSlice(View(go[g].q, go[g].sortBy, go[g].filterBy), go[g].page))]
    /\ Return(g)
    /\ UNCHANGED <<queue, loop, st, added, requests>>

-----------------------------------------------------------------------------
(* Other handlers: /queue, /play, and what changes the queue. *)

\* queueHandler sends a new message; the fingerprint is not looked at.
StartQueue(g) ==
    /\ queue # <<>>
    /\ requests < MaxRequests /\ requests' = requests + 1
    /\ At(g, "idle")
    /\ Step(g, [Idle EXCEPT !.at = "queue", !.cmd = "queue", !.q = queue])
    /\ UNCHANGED <<queue, loop, st, screen, added>>

QueueHandler(g) ==
    /\ At(g, "queue")
    /\ st' = [Invalidated(st) EXCEPT !.page = 1]
    /\ go' = [h \in Goroutines |->
                IF h = g
                THEN [go[g] EXCEPT !.at = "store", !.page = 1, !.sortBy = st.sortBy, !.filterBy = st.filterBy,
                         !.locked = st.locked,
                         !.text = RenderPage(go[g].q, st.sortBy, st.filterBy, st.locked, 1)]
                ELSE Unwanted(h)]
    /\ UNCHANGED <<queue, loop, screen, added, requests>>

\* handlePlay looks at the lock, searches, and adds.
StartPlay(g, u) ==
    /\ requests < MaxRequests /\ requests' = requests + 1
    /\ added < MaxTracks
    /\ At(g, "idle")
    /\ st.locked => MayManage(u)
    /\ Step(g, [Idle EXCEPT !.at = "add"])
    /\ UNCHANGED <<queue, loop, st, screen, added>>

\* A single track is refused only while its id is queued, and the tracks of a
\* playlist are added whatever is queued.
Add(g) ==
    /\ At(g, "add")
    /\ added < MaxTracks
    /\ added' = added + 1
    /\ queue' = Enqueue(queue, <<added + 1>>)
    /\ st' = Confused(st, added + 1)
    /\ Late(g, Idle)
    /\ UNCHANGED <<loop, screen, requests>>

\* PlayNext, Stop and /remove.
Elsewhere ==
    /\ queue # <<>>
    /\ requests < MaxRequests /\ requests' = requests + 1
    /\ \/ PlayNext
       \/ queue' = <<>> /\ loop' = 0
       \/ \E n \in 1 .. Len(queue) - 1 : queue' = RemoveIndex(queue, n) /\ UNCHANGED loop
    /\ go' = [h \in Goroutines |-> Overtaken(h)]
    /\ UNCHANGED <<st, screen, added>>

-----------------------------------------------------------------------------

Handler(g) ==
    \/ TurnPage(g) \/ Refresh(g) \/ Stats(g) \/ CloseOrMenu(g) \/ Sort(g)
    \/ DetailRead(g) \/ DetailOpen(g) \/ RemoveCheck(g) \/ RemoveTrack(g) \/ Move(g)
    \/ JumpCheck(g) \/ Jump(g)
    \/ Reorder(g) \/ ToggleLock(g) \/ Invalidate(g) \/ ShowMoved(g) \/ SkipAfterJump(g) \/ Drop(g)
    \/ Read(g) \/ Hash(g) \/ Settle(g) \/ LookUp(g) \/ Store(g) \/ Edit(g)
    \/ QueueHandler(g) \/ Add(g)

Clicks(g) == ClickOnPage(g) \/ ClickOnDetail(g) \/ ClickOnMenu(g) \/ StartQueue(g)

Next == Elsewhere \/ \E g \in Goroutines : Handler(g) \/ Clicks(g) \/ \E u \in Users : StartPlay(g, u)

Spec == Init /\ [][Next]_vars

-----------------------------------------------------------------------------
(* Properties. *)

TypeOK ==
    /\ ToSet(queue) \subseteq Tracks /\ IsInjective(queue) /\ loop \in {0, 1}
    /\ st.page \in 1 .. MaxPage /\ st.sortBy \in Sorts /\ st.filterBy \in Filters
    /\ st.locked \in BOOLEAN /\ DOMAIN st.text = 1 .. MaxPage
    /\ screen.kind = "detail" => screen.track \in Tracks /\ screen.index \in 1 .. MaxTracks

\* A page shown is true (invalidateLocked, checkHash, SetCachedText): whatever
\* renderAndEdit takes from the cache is what it would have rendered from the
\* queue it read, although the fingerprint has only three parts and viewers
\* interleave.  Excepted are a page rendered from a queue or settings that
\* changed meanwhile, one that a handler has yet to invalidate, a page put under
\* the fingerprint of another queue (queueHandler stores its page and does not
\* set the fingerprint, so that a queue which returns to the fingerprinted one is
\* shown as /queue saw it), and one kept while a track with the id of the
\* fingerprint's last track was added, which ChangesAreDetected is about.
ServedPageIsTrue ==
    \A g \in Goroutines : At(g, "edit") /\ ~go[g].late => go[g].text = Render(go[g])

\* What a comment says of checkHash: queue changes are detected, and the cached
\* text invalidated, automatically; a page then shows the ids of the queue that
\* was read.  The fingerprint is the same, though, when tracks went from the
\* middle and the last id is added again.
ChangesAreDetected ==
    LET IdsOf(view) == [i \in DOMAIN view |-> TrackId[view[i]]] IN
    \A g \in Goroutines :
        At(g, "edit") => IdsOf(go[g].text.view) = IdsOf(Render(go[g]).view)

\* Every track button acts on the track it was drawn for, or not at all, as long
\* as that is where it was (HandleQueueCallback): a row opens its detail under
\* every sort and filter, "rm" removes that track, the detail follows a track
\* that "mu" or "md" moves, and after "jmp" it is the head, unless PlayNext
\* repeats what plays.
ButtonsActOnTheirTrack ==
    [][\A g \in Goroutines : go[g].want # 0 /\ go'[g].at # go[g].at =>
          /\ go[g].at \in {"open", "moved"} /\ screen' # screen => screen'.track = go[g].want
          /\ At(g, "remove") => go[g].want \notin ToSet(queue') /\ Len(queue') = Len(queue) - 1
          /\ At(g, "skip") /\ queue' # queue => Head(queue') = go[g].want]_vars
=============================================================================
