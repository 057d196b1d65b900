----------------------------- MODULE Broadcasts -----------------------------
(***************************************************************************)
(* The commands of developers that begin and cancel a broadcast, the       *)
(* goroutines that send it, and the two flags that they steer each other   *)
(* by (src/handlers/broadcast.go).                                         *)
(***************************************************************************)
EXTENDS Naturals, Sequences, FiniteSets

CONSTANTS Developers,  \* the goroutines of the commands
          Targets,     \* how many chats and users a broadcast goes to
          MaxOrders    \* bound: commands

ASSUME BroadcastBounds == Targets \in Nat /\ MaxOrders \in Nat

VARIABLES broadcastInProgress, broadcastCancelFlag,
          ordering,  \* what each developer's command does
          orders,
          runs,      \* the broadcasts that were started
          crossed    \* one was begun while another was under way

broadcastVars == <<broadcastInProgress, broadcastCancelFlag, ordering, orders, runs, crossed>>

\* told: a cancellation was stored since the flag was cleared for it, which may
\* be one that was meant for the broadcast before; more: what it sent since.
Live(run) == run.at # "ended"
NewRun == [at |-> "check", left |-> Targets, told |-> broadcastCancelFlag, more |-> 0]
flags == <<broadcastInProgress, broadcastCancelFlag>>

\* broadcastHandler is refused while a broadcast is under way,
\* cancelBroadcastHandler while none is.
Order(d) ==
    /\ ordering[d] = "idle" /\ orders < MaxOrders
    /\ orders' = orders + 1
    /\ \/ ordering' = [ordering EXCEPT ![d] = IF broadcastInProgress THEN "idle" ELSE "list"]
       \/ ordering' = [ordering EXCEPT ![d] = IF broadcastInProgress THEN "cancel" ELSE "idle"]
    /\ UNCHANGED <<flags, runs, crossed>>

\* The message to send is looked up, and then the chats and users: without any,
\* or without a message, there is no broadcast.
NothingToSend(d) ==
    /\ ordering[d] = "list"
    /\ ordering' = [ordering EXCEPT ![d] = "idle"]
    /\ UNCHANGED <<flags, orders, runs, crossed>>

List(d) ==
    /\ ordering[d] = "list"
    /\ ordering' = [ordering EXCEPT ![d] = "clear"]
    /\ UNCHANGED <<flags, orders, runs, crossed>>

\* The two stores, and the goroutine.
ClearCancel(d) ==
    /\ ordering[d] = "clear"
    /\ broadcastCancelFlag' = FALSE
    /\ crossed' = (crossed \/ \E i \in DOMAIN runs : Live(runs[i]))
    /\ ordering' = [ordering EXCEPT ![d] = "start"]
    /\ UNCHANGED <<broadcastInProgress, orders, runs>>

StartRun(d) ==
    /\ ordering[d] = "start"
    /\ broadcastInProgress' = TRUE
    /\ runs' = Append(runs, NewRun)
    /\ crossed' = (crossed \/ \E i \in DOMAIN runs : Live(runs[i]))
    /\ ordering' = [ordering EXCEPT ![d] = "idle"]
    /\ UNCHANGED <<broadcastCancelFlag, orders>>

Cancel(d) ==
    /\ ordering[d] = "cancel"
    /\ broadcastCancelFlag' = TRUE
    /\ runs' = [i \in DOMAIN runs |-> [runs[i] EXCEPT !.told = @ \/ Live(runs[i])]]
    /\ ordering' = [ordering EXCEPT ![d] = "idle"]
    /\ UNCHANGED <<broadcastInProgress, orders, crossed>>

\* Variant: the flag is looked at before the first message only.
CheckOnce(i) ==
    /\ runs[i].at = "check"
    /\ runs' = [runs EXCEPT ![i].at =
           IF runs[i].left = 0 \/ (broadcastCancelFlag /\ runs[i].left = Targets) THEN "leave" ELSE "send"]
    /\ UNCHANGED <<flags, ordering, orders, crossed>>

\* The head of the loop over the targets.
Check(i) ==
    /\ runs[i].at = "check"
    /\ runs' = [runs EXCEPT ![i].at = IF runs[i].left = 0 \/ broadcastCancelFlag THEN "leave" ELSE "send"]
    /\ UNCHANGED <<flags, ordering, orders, crossed>>

\* A message is sent, or refused, or skipped for a flood wait.
Send(i) ==
    /\ runs[i].at = "send"
    /\ runs' = [runs EXCEPT ![i].at = "check", ![i].left = @ - 1,
                            ![i].more = IF runs[i].told THEN @ + 1 ELSE @]
    /\ UNCHANGED <<flags, ordering, orders, crossed>>

\* The deferred store.
Leave(i) ==
    /\ runs[i].at = "leave"
    /\ runs' = [runs EXCEPT ![i].at = "ended"]
    /\ broadcastInProgress' = FALSE
    /\ UNCHANGED <<broadcastCancelFlag, ordering, orders, crossed>>

BroadcastsInit ==
    /\ broadcastInProgress = FALSE /\ broadcastCancelFlag = FALSE
    /\ ordering = [d \in Developers |-> "idle"]
    /\ orders = 0 /\ runs = <<>> /\ crossed = FALSE

BroadcastsNext ==
    \/ \E d \in Developers :
           Order(d) \/ NothingToSend(d) \/ List(d) \/ ClearCancel(d) \/ StartRun(d) \/ Cancel(d)
    \/ \E i \in DOMAIN runs : Check(i) \/ Send(i) \/ Leave(i)

\* One broadcast at a time, unless two were begun at once; then it is the one
\* that the flag tells of, it stops before the second message after it was
\* cancelled, and it stops early for nothing else.
CancelStops ==
    crossed \/ /\ broadcastInProgress = (\E i \in DOMAIN runs : Live(runs[i]))
               /\ \A i, j \in DOMAIN runs : Live(runs[i]) /\ Live(runs[j]) => i = j
               /\ \A i \in DOMAIN runs :
                      /\ runs[i].more <= 1
                      /\ runs[i].at \in {"leave", "ended"} /\ runs[i].left > 0 => runs[i].told
=============================================================================
