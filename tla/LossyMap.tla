------------------------------ MODULE LossyMap ------------------------------
(***************************************************************************)
(* What the callers of a cache rely on: a key that is found has the value  *)
(* that was last set for it, and any key may be lost at any time.  The     *)
(* database layer, the download manager and the admin lists need no more   *)
(* than this from the cache.                                               *)
(***************************************************************************)
CONSTANTS Keys, Values, None

VARIABLES store,   \* the value of each key, or None
          reply    \* what the last Get returned, or None

lvars == <<store, reply>>

LInit ==
    /\ store = [k \in Keys |-> None]
    /\ reply = None

\* The store with the keys in lost gone.
Without(lost) == [k \in Keys |-> IF k \in lost THEN None ELSE store[k]]

Find(k) ==
    /\ reply' = store[k]
    /\ UNCHANGED store

\* The key is lost in the very lookup, or was lost before.
Miss(k) ==
    /\ reply' = None
    /\ store' = Without({k})

Put(k, v) ==
    /\ \E lost \in SUBSET (Keys \ {k}) :
           store' = [Without(lost) EXCEPT ![k] = v]
    /\ UNCHANGED reply

Lose ==
    /\ \E lost \in SUBSET Keys : store' = Without(lost)
    /\ UNCHANGED reply

LNext ==
    \/ \E k \in Keys : Find(k) \/ Miss(k)
    \/ \E k \in Keys, v \in Values : Put(k, v)
    \/ Lose

LSpec == LInit /\ [][LNext]_lvars
=============================================================================
