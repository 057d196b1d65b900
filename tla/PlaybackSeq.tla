---------------------------- MODULE PlaybackSeq -----------------------------
(***************************************************************************)
(* Playback with a record of how often each track was played and was due   *)
(* to be played, to say what the loop counter of PlayNext amounts to.      *)
(***************************************************************************)
EXTENDS Playback

VARIABLES plays,   \* plays[t]: how often playback of t has started
          due      \* due[t]: how often it is to start: once, or as /loop
                   \* set, less the starts that failed downloads cost it

hvars == <<vars, plays, due>>

Played(w) ==
    /\ PlayOk(w)
    /\ plays' = [plays EXCEPT ![frame[w].song] = @ + 1]
    /\ UNCHANGED due

\* /loop n: as often as it was played so far, and n times more.
LoopIsSet(w) ==
    /\ LoopTo(w)
    /\ due' = IF queue = <<>> THEN due
              ELSE [due EXCEPT ![Head(queue)] = plays[Head(queue)] + frame[w].arg]
    /\ UNCHANGED plays

\* A download that fails takes the place of a start.
StartIsLost(w) ==
    /\ FetchFailed(w)
    /\ due' = IF At(w, "getLoop")' THEN [due EXCEPT ![frame[w].song] = @ - 1] ELSE due
    /\ UNCHANGED plays

HInit ==
    /\ Init
    /\ plays = [t \in Track |-> 0]
    /\ due = [t \in Track |-> 1]

HNext ==
    \/ \E w \in Workers : Played(w) \/ LoopIsSet(w) \/ StartIsLost(w)
    \/ /\ Next
       /\ ~ \E w \in Workers : PlayOk(w) \/ LoopTo(w) \/ FetchFailed(w)
       /\ UNCHANGED <<plays, due>>

HSpec == HInit /\ [][HNext]_hvars /\ Fairness

\* One handler at a time, /loop n makes the playing track start n times more,
\* counting the Loop = 1 trick by which a new playlist's first track starts;
\* a repeat whose download fails (after an empty path) is used up by that.
LoopCountHonoured ==
    Quiet /\ queue # <<>> =>
        plays[Head(queue)] + loop[Head(queue)] = due[Head(queue)]
=============================================================================
