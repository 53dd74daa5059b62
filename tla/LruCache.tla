------------------------------ MODULE LruCache ------------------------------
(***************************************************************************)
(* LruCache<K, V> of crates/statelab-engine/src/cache.rs as operators on   *)
(* cache values, so that a state machine of its own (LruHistory) and the   *)
(* hosts that share one (TrajectoryHost) use the same definitions.         *)
(*                                                                         *)
(* map is a function on the cached keys; order lists them from the least   *)
(* recently used to the most recently used.                                *)
(***************************************************************************)
EXTENDS Naturals, Sequences, FiniteSets, SequencesExt

NewCache(capacity) == [capacity |-> capacity, map |-> <<>>, order |-> <<>>]

Cached(c) == DOMAIN c.map

Touch(c, key) ==
    IF Contains(c.order, key)
    THEN [c EXCEPT !.order = Append(RemoveFirst(c.order, key), key)]
    ELSE c

(* Mutation of Insert: a value that is there is not replaced. *)
KeepOldValue(c, key, value) ==
    [c EXCEPT !.map =
        [k \in Cached(c) \cup {key} |-> IF k \in Cached(c) THEN c.map[k] ELSE value]]

(* HashMap::insert *)
Insert(c, key, value) ==
    [c EXCEPT !.map =
        [k \in Cached(c) \cup {key} |-> IF k = key THEN value ELSE c.map[k]]]

(* Mutations of EvictLru: the map keeps the value; the newest key goes. *)
EvictOrderOnly(c) == [c EXCEPT !.order = Tail(c.order)]
EvictNewest(c) ==
    [c EXCEPT !.map = [k \in Cached(c) \ {Last(c.order)} |-> c.map[k]],
              !.order = Front(c.order)]

EvictLru(c) ==
    [capacity |-> c.capacity,
     map      |-> [k \in Cached(c) \ {Head(c.order)} |-> c.map[k]],
     order    |-> Tail(c.order)]

(* Mutation of Full: one entry too early. *)
NearlyFull(c) == Cardinality(Cached(c)) + 1 >= c.capacity
Full(c) == Cardinality(Cached(c)) >= c.capacity

MakeRoom(c) == IF Full(c) /\ c.order # <<>> THEN EvictLru(c) ELSE c

AddNew(c, key, value) ==
    [Insert(c, key, value) EXCEPT !.order = Append(c.order, key)]

Put(c, key, value) ==
    IF c.capacity = 0 THEN c
    ELSE IF key \in Cached(c) THEN Touch(Insert(c, key, value), key)
    ELSE AddNew(MakeRoom(c), key, value)

(* get changes the recency on a hit and nothing on a miss. *)
AfterGet(c, key) == IF key \in Cached(c) THEN Touch(c, key) ELSE c

(***************************************************************************)
(* The two views of the cache agree: order lists every cached key once and *)
(* nothing else, and there are at most capacity of them.                   *)
(***************************************************************************)
WellFormed(c) ==
    /\ IsInjective(c.order)
    /\ ToSet(c.order) = Cached(c)
    /\ Len(c.order) <= c.capacity
=============================================================================
