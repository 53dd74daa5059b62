----------------------------- MODULE LruHistory -----------------------------
(***************************************************************************)
(* The LRU cache under every sequence of get and put, beside the history   *)
(* that says what it ought to hold: when each key was last used and what   *)
(* was last stored under it.  The history is never read by the cache.      *)
(***************************************************************************)
EXTENDS LruCache

CONSTANTS Keys, Values,
          Capacities,    \* cache_max_entries of the caches considered
          MaxUses        \* bound on the uses (hits and puts) of a behaviour

ASSUME CapacitiesAssumption == Capacities \subseteq Nat
ASSUME MaxUsesAssumption == MaxUses \in Nat

VARIABLES cache,
          clock,      \* number of uses so far
          lastUse,    \* lastUse[k]: the clock of the last use of k, 0 if never
          latest      \* the value last put under each key ever put

vars == <<cache, clock, lastUse, latest>>

Init ==
    /\ cache \in {NewCache(capacity) : capacity \in Capacities}
    /\ clock = 0
    /\ lastUse = [k \in Keys |-> 0]
    /\ latest = <<>>

Use(key) ==
    /\ clock < MaxUses
    /\ clock' = clock + 1
    /\ lastUse' = [lastUse EXCEPT ![key] = clock + 1]

GetHit(key) ==
    /\ key \in Cached(cache)
    /\ cache' = AfterGet(cache, key)
    /\ Use(key)
    /\ UNCHANGED latest

GetMiss(key) ==
    /\ key \notin Cached(cache)
    /\ cache' = AfterGet(cache, key)
    /\ UNCHANGED <<clock, lastUse, latest>>

PutValue(key, value) ==
    /\ cache' = Put(cache, key, value)
    /\ Use(key)
    /\ latest' = [k \in DOMAIN latest \cup {key} |->
                    IF k = key THEN value ELSE latest[k]]

Next ==
    \E key \in Keys :
        \/ GetHit(key)
        \/ GetMiss(key)
        \/ \E value \in Values : PutValue(key, value)

Spec == Init /\ [][Next]_vars

-----------------------------------------------------------------------------
CacheOK(c) ==
    /\ c.capacity \in Capacities
    /\ Cached(c) \subseteq Keys
    /\ c.map \in [Cached(c) -> Values]
    /\ c.order \in Seq(Keys)
    /\ c = [capacity |-> c.capacity, map |-> c.map, order |-> c.order]

TypeOK ==
    /\ CacheOK(cache)
    /\ clock \in Nat
    /\ lastUse \in [Keys -> Nat]
    /\ DOMAIN latest \subseteq Keys
    /\ latest \in [DOMAIN latest -> Values]

(* The map and the recency list never drift apart and the bound holds,     *)
(* whatever the sequence of calls (cache.rs, get, put, touch).             *)
CacheWellFormed == WellFormed(cache)

(* Eviction is by recency: a key that was used and is not cached was last  *)
(* used before every key that is, gets counting as uses (cache.rs, put:    *)
(* "evicting the least-recently-used entry").                              *)
KeepsMostRecent ==
    \A kept \in Cached(cache), gone \in Keys \ Cached(cache) :
        lastUse[gone] < lastUse[kept]

(* Nothing is evicted before it must be: the cache holds as many of the    *)
(* keys ever used as its capacity allows (cache.rs, put: evicts "if the    *)
(* capacity would be exceeded").                                           *)
EvictsOnlyWhenFull ==
    LET used == Cardinality({k \in Keys : lastUse[k] > 0})
    IN Cardinality(Cached(cache)) = Min({used, cache.capacity})

(* The recency list is the history: front least, back most recently used. *)
OrderIsRecency ==
    \A i, j \in DOMAIN cache.order :
        i < j => lastUse[cache.order[i]] < lastUse[cache.order[j]]

(* A hit returns the value last put under the key, never an older one. *)
HoldsLatestValue ==
    \A k \in Cached(cache) : k \in DOMAIN latest /\ cache.map[k] = latest[k]

UsesBounded == \A k \in Keys : lastUse[k] <= clock

(* The inductive invariant behind the four properties above. *)
IInv ==
    /\ TypeOK
    /\ CacheWellFormed
    /\ UsesBounded
    /\ OrderIsRecency
    /\ KeepsMostRecent
    /\ HoldsLatestValue
=============================================================================
