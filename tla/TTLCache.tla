------------------------------ MODULE TTLCache ------------------------------
(***************************************************************************)
(* Cache[T] of src/core/cache/cache.go: a map into a list, most recently   *)
(* used first, with an expiration time per entry and, when the cache is    *)
(* bounded, eviction of the last of the list.  One janitor sweeps all      *)
(* caches; it reads the clock before it takes a cache's lock.              *)
(*                                                                         *)
(* The methods hold the lock throughout: one action each.                  *)
(***************************************************************************)
EXTENDS Naturals, Sequences, FiniteSets, SequencesExt, Filtering

CONSTANTS Keys, Values,
          MaxEntries,  \* 0: not bounded
          TTLs,        \* the lifetimes entries are set with
          MaxTime,     \* bound on the clock
          None

ASSUME CacheBounds == MaxEntries \in Nat /\ TTLs \subseteq Nat /\ MaxTime \in Nat
ASSUME NoneIsNothing == None \notin Values \cup Nat \cup [value : Values, exp : Nat]

VARIABLES data,    \* the map: value and expiration of a key, or None
          order,   \* the list: keys, most recently used first
          now,     \* the clock
          sweep,   \* the time the janitor read, or None
          reply,   \* what the last Get returned, or None
          passed   \* history: the keys used since a key was last used

vars == <<data, order, now, sweep, reply, passed>>

Cached == {k \in Keys : data[k] # None}

Init ==
    /\ data = [k \in Keys |-> None]
    /\ order = <<>>
    /\ now = 0
    /\ sweep = None
    /\ reply = None
    /\ passed = [k \in Keys |-> {}]

Expired(k, t) == t > data[k].exp

\* A use of k: nothing was used since, and k was used since all others were.
Used(k) == passed' = [j \in Keys |-> IF j = k THEN {} ELSE passed[j] \cup {k}]

\* MoveToFront.
ToFront(k) == <<k>> \o Keep(order, Keys \ {k})

\* Variant: a lookup does not move the key to the front.
GetKeepsPlace(k) ==
    /\ IF k \in Cached /\ ~Expired(k, now)
       THEN reply' = data[k].value /\ Used(k) /\ UNCHANGED <<data, order>>
       ELSE /\ reply' = None
            /\ data' = [data EXCEPT ![k] = None]
            /\ order' = Keep(order, Keys \ {k})
            /\ UNCHANGED passed
    /\ UNCHANGED <<now, sweep>>

\* Variant: the lookup that removes an expired entry still returns its value.
GetReturnsExpired(k) ==
    /\ reply' = IF k \in Cached THEN data[k].value ELSE None
    /\ IF k \in Cached /\ ~Expired(k, now)
       THEN Used(k) /\ order' = ToFront(k) /\ UNCHANGED data
       ELSE /\ data' = [data EXCEPT ![k] = None]
            /\ order' = Keep(order, Keys \ {k})
            /\ UNCHANGED passed
    /\ UNCHANGED <<now, sweep>>

\* Get: an entry that has expired is removed and not found.
Get(k) ==
    /\ IF k \in Cached /\ ~Expired(k, now)
       THEN reply' = data[k].value /\ Used(k) /\ order' = ToFront(k) /\ UNCHANGED data
       ELSE /\ reply' = None
            /\ data' = [data EXCEPT ![k] = None]
            /\ order' = Keep(order, Keys \ {k})
            /\ UNCHANGED passed
    /\ UNCHANGED <<now, sweep>>

Item(v, ttl) == [value |-> v, exp |-> now + ttl]

\* Variant: a key that is known is entered into the list once more.
SetTwice(k, v, ttl) ==
    LET full == MaxEntries > 0 /\ Cardinality(Cached) >= MaxEntries
        oldest == IF full /\ order # <<>> THEN {Last(order)} ELSE {}
    IN /\ data' = [j \in Keys |-> IF j = k THEN Item(v, ttl)
                                  ELSE IF j \in oldest THEN None ELSE data[j]]
       /\ order' = <<k>> \o Keep(order, Keys \ oldest)
       /\ Used(k)
       /\ UNCHANGED <<now, sweep, reply>>

\* SetWithTTL: a known key is overwritten; a new one drops the last of the
\* list when the cache is full, expired or not.
SetWithTTL(k, v, ttl) ==
    LET full == k \notin Cached /\ MaxEntries > 0 /\ Cardinality(Cached) >= MaxEntries
        oldest == IF full /\ order # <<>> THEN {Last(order)} ELSE {}
    IN /\ data' = [j \in Keys |-> IF j = k THEN Item(v, ttl)
                                  ELSE IF j \in oldest THEN None ELSE data[j]]
       /\ order' = <<k>> \o Keep(order, Keys \ ({k} \cup oldest))
       /\ Used(k)
       /\ UNCHANGED <<now, sweep, reply>>

Delete(k) ==
    /\ data' = [data EXCEPT ![k] = None]
    /\ order' = Keep(order, Keys \ {k})
    /\ UNCHANGED <<now, sweep, reply, passed>>

Clear ==
    /\ data' = [k \in Keys |-> None]
    /\ order' = <<>>
    /\ UNCHANGED <<now, sweep, reply, passed>>

Tick ==
    /\ now < MaxTime
    /\ now' = now + 1
    /\ UNCHANGED <<data, order, sweep, reply, passed>>

\* evictExpired reads the clock, then waits for the lock.
SweepStart ==
    /\ sweep = None
    /\ sweep' = now
    /\ UNCHANGED <<data, order, now, reply, passed>>

\* Variant: an entry goes in the moment in which Get still serves it.
SweepEarly ==
    /\ sweep # None
    /\ data' = [k \in Keys |-> IF k \in Cached /\ sweep >= data[k].exp
                               THEN None ELSE data[k]]
    /\ order' = Keep(order, {k \in Cached : sweep < data[k].exp})
    /\ sweep' = None
    /\ UNCHANGED <<now, reply, passed>>

Sweep ==
    /\ sweep # None
    /\ data' = [k \in Keys |-> IF k \in Cached /\ Expired(k, sweep)
                               THEN None ELSE data[k]]
    /\ order' = Keep(order, {k \in Cached : ~Expired(k, sweep)})
    /\ sweep' = None
    /\ UNCHANGED <<now, reply, passed>>

Next ==
    \/ \E k \in Keys : Get(k) \/ Delete(k)
    \/ \E k \in Keys, v \in Values, ttl \in TTLs : SetWithTTL(k, v, ttl)
    \/ Clear \/ Tick \/ SweepStart \/ Sweep

Spec == Init /\ [][Next]_vars

-----------------------------------------------------------------------------
\* The map and the list name the same keys, each once, and there are no more
\* of them than the bound allows.
MapAndListAgree ==
    /\ ToSet(order) = Cached
    /\ IsInjective(order)
    /\ MaxEntries > 0 => Cardinality(Cached) <= MaxEntries

\* The bound costs no key its place before MaxEntries other keys were used
\* after it: lookups count as uses.
EvictsTheLeastRecent ==
    [][\A k \in Cached :
           data'[k] = None /\ Cardinality(Cached) = MaxEntries
           /\ (\E j \in Keys : data[j] = None /\ data'[j] # None)
           => Cardinality(passed'[k]) >= MaxEntries]_vars

\* The janitor takes nothing that is alive, however long it waited for the
\* lock with the time it had read.
SweepSparesTheLiving ==
    [][\A k \in Cached :
           sweep # None /\ sweep' = None /\ data'[k] = None => Expired(k, now)]_vars

\* The cache is a map that loses keys and never mixes values up.
Lossy == INSTANCE LossyMap WITH
    store <- [k \in Keys |-> IF data[k] = None THEN None ELSE data[k].value]
LossySpec == Lossy!LSpec
=============================================================================
