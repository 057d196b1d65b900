---------------------------- MODULE StatusMessage ----------------------------
(***************************************************************************)
(* The animated status message (src/core/status/status.go): one goroutine  *)
(* edits the message at every tick, the handler that owns the Status edits *)
(* it when it has a result, and with AutoCleanup a goroutine deletes it    *)
(* some time after each result.                                            *)
(*                                                                         *)
(* An edit is a call to Telegram: it is made under mu, takes its time and  *)
(* may fail.                                                               *)
(***************************************************************************)
EXTENDS Naturals, FiniteSets

CONSTANTS MaxEdits,     \* Config.MaxEdits
          Results,      \* the texts 1, 2, ... that the handler edits in
          AutoCleanup   \* Config.AutoCleanup

ASSUME EditLimits == MaxEdits \in Nat \ {0} /\ Results \in Nat
ASSUME CleanupIsASwitch == AutoCleanup \in BOOLEAN

\* The message shows an animation frame, the result with that number, or is
\* gone.
Loading == 0
Deleted == Results + 1

VARIABLES shown,      \* Loading, a result, or Deleted
          done,       \* the done channel is closed
          resolved,
          mu,         \* who holds the lock: "nobody", "animation", "handler"
          animation,  \* where animate() is
          edits,      \* animation edits so far
          handler,    \* where the handler is
          text,       \* the result the handler is at
          deletions   \* pending scheduleDelete goroutines

statusVars == <<shown, done, resolved, mu, animation, edits, handler, text, deletions>>

StatusInit ==
    /\ shown = Loading
    /\ done = FALSE
    /\ resolved = FALSE
    /\ mu = "nobody"
    /\ animation = "select"
    /\ edits = 0
    /\ handler = "working"
    /\ text = 0
    /\ deletions = 0

-----------------------------------------------------------------------------
\* animate()

\* The select finds done closed.
SeeDone ==
    /\ animation = "select"
    /\ done
    /\ animation' = "exited"
    /\ UNCHANGED <<shown, done, resolved, mu, edits, handler, text, deletions>>

\* MaxLifetime has passed.
Deadline ==
    /\ animation = "select"
    /\ done' = TRUE
    /\ animation' = "exited"
    /\ UNCHANGED <<shown, resolved, mu, edits, handler, text, deletions>>

\* The ticker fires; select may take it although done is closed.
Tick ==
    /\ animation = "select"
    /\ IF edits >= MaxEdits
       THEN done' = TRUE /\ animation' = "exited"
       ELSE animation' = "lock" /\ UNCHANGED done
    /\ UNCHANGED <<shown, resolved, mu, edits, handler, text, deletions>>

\* Variant: the lock is taken and resolved is not looked at.
LockBlindly ==
    /\ animation = "lock"
    /\ mu = "nobody"
    /\ mu' = "animation"
    /\ animation' = "edit"
    /\ UNCHANGED <<shown, done, resolved, edits, handler, text, deletions>>

\* Variant: the goroutine leaves with the lock.
LockAndLeave ==
    /\ animation = "lock"
    /\ mu = "nobody"
    /\ mu' = "animation"
    /\ animation' = IF resolved THEN "exited" ELSE "edit"
    /\ UNCHANGED <<shown, done, resolved, edits, handler, text, deletions>>

Lock ==
    /\ animation = "lock"
    /\ mu = "nobody"
    /\ IF resolved
       THEN animation' = "exited" /\ UNCHANGED mu
       ELSE animation' = "edit" /\ mu' = "animation"
    /\ UNCHANGED <<shown, done, resolved, edits, handler, text, deletions>>

\* Variant: edits are not counted.
EditFrameUncounted ==
    /\ animation = "edit"
    /\ \/ shown' = IF shown = Deleted THEN shown ELSE Loading
       \/ UNCHANGED shown
    /\ mu' = "nobody"
    /\ animation' = "select"
    /\ UNCHANGED <<done, resolved, edits, handler, text, deletions>>

\* The edit ends, well or not; a deleted message cannot be edited.
EditFrame ==
    /\ animation = "edit"
    /\ \/ shown' = IF shown = Deleted THEN shown ELSE Loading
       \/ UNCHANGED shown
    /\ mu' = "nobody"
    /\ edits' = edits + 1
    /\ animation' = "select"
    /\ UNCHANGED <<done, resolved, handler, text, deletions>>

Animate == SeeDone \/ Deadline \/ Tick \/ Lock \/ EditFrame

-----------------------------------------------------------------------------
\* EditText, by the handler, for one result after the other; Stop.

Stop ==
    /\ handler = "working"
    /\ done' = TRUE
    /\ UNCHANGED <<shown, resolved, mu, animation, edits, handler, text, deletions>>

Result ==
    /\ handler = "working"
    /\ text < Results
    /\ text' = text + 1
    /\ done' = TRUE
    /\ handler' = "lock"
    /\ UNCHANGED <<shown, resolved, mu, animation, edits, deletions>>

HandlerLock ==
    /\ handler = "lock"
    /\ mu = "nobody"
    /\ mu' = "handler"
    /\ resolved' = TRUE
    /\ handler' = "edit"
    /\ UNCHANGED <<shown, done, animation, edits, text, deletions>>

HandlerEdit ==
    /\ handler = "edit"
    /\ mu' = "nobody"
    /\ handler' = "working"
    /\ \/ /\ shown # Deleted
          /\ shown' = text
          /\ deletions' = IF AutoCleanup THEN deletions + 1 ELSE deletions
       \/ UNCHANGED <<shown, deletions>>
    /\ UNCHANGED <<done, resolved, animation, edits, text>>

ResolveStatus == HandlerLock \/ HandlerEdit

\* scheduleDelete, after CleanupDelay; the deletion may fail.
Delete ==
    /\ deletions > 0
    /\ deletions' = deletions - 1
    /\ shown' \in {shown, Deleted}
    /\ UNCHANGED <<done, resolved, mu, animation, edits, handler, text>>

StatusNext == Animate \/ Stop \/ Result \/ ResolveStatus \/ Delete

\* Goroutines run, calls end; the handler need not have a result.
FairStatusSpec ==
    /\ StatusInit /\ [][StatusNext]_statusVars
    /\ WF_statusVars(Animate) /\ WF_statusVars(ResolveStatus) /\ WF_statusVars(Delete)

-----------------------------------------------------------------------------
\* "The caller's text is guaranteed to be the last edit on the message"
\* (status.go:115): no tick overwrites a result, and a later result
\* overwrites only an earlier one.
ResultsStay ==
    [][shown # Loading => shown' >= shown]_statusVars

\* The goroutine of every status ends, whether the handler has a result,
\* stops the animation, or forgets the status.
AnimationEnds == <>(animation = "exited")

\* A handler that has a result is never held up for good by the animation.
ResultsGetThrough == (handler = "lock") ~> (handler = "working")
=============================================================================
