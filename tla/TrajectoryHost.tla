--------------------------- MODULE TrajectoryHost ---------------------------
(***************************************************************************)
(* The two shells that serve single trajectories from one shared cache:    *)
(* the HTTP server (statelab-app/src/main.rs, one thread per connection)   *)
(* and the Tauri host (src-tauri/src/commands/mod.rs).  Both lock a Mutex  *)
(* around run_by_id_cached and keep it while the engine computes.          *)
(*                                                                         *)
(* A trajectory is what the engine computes for a system, a state and an   *)
(* iteration limit (StateEvolutionEngine); the request it came from, the   *)
(* cache and the lock are what this module is about.  A handler may panic  *)
(* while it holds the lock: both hosts have a branch for a poisoned lock.  *)
(***************************************************************************)
EXTENDS LruCache

CONSTANTS Requests,         \* connections or invocations, one handler each
          Queries,          \* what they may ask for
          Systems,          \* the registered system ids
          UnknownIds,       \* ids no system has
          Raws, States,     \* what a user types; canonical states
          Canonical,        \* Canonical[system][raw]: what validation makes of it
          Limits, Bounds,   \* max_iterations and cache_max_entries asked for
          Default           \* EngineConfig::default()

Invalid == "invalid"        \* validation refused the input
Absent == "absent"          \* the query has no (readable) maxIterations
Free == "free"
Nothing == [kind |-> "nothing"]

Configs == [limit : Limits, bound : Bounds]

ASSUME CanonicalAssumption ==
    Canonical \in [Systems -> [Raws -> States \cup {Invalid}]]
ASSUME DefaultAssumption == Default \in Configs /\ Bounds \subseteq Nat
ASSUME NamesAssumption ==
    /\ Systems \cap UnknownIds = {}
    /\ Invalid \notin States
    /\ Absent \notin Limits
    /\ Free \notin Requests

VARIABLES host,       \* "http" or "tauri"
          cache,
          lock,       \* the request whose handler holds the Mutex, or Free
          poisoned,   \* a handler panicked while it held the Mutex
          pc,
          request,
          reply

vars == <<host, cache, lock, poisoned, pc, request, reply>>

Asked == [system : Systems \cup UnknownIds, raw : Raws,
          limit : Limits \cup {Absent}, bound : Bounds]

ASSUME QueriesAssumption == Queries \subseteq Asked

-----------------------------------------------------------------------------
(* Mutations of CacheKey: the limit, or the canonical form, is left out. *)
IgnoringLimit(system, raw, config) ==
    [system |-> system, config |-> Default, state |-> Canonical[system][raw]]

(* The memoization key: system, whole configuration, canonical state. *)
CacheKey(system, raw, config) ==
    [system |-> system, config |-> config, state |-> Canonical[system][raw]]

IsValid(system, raw) == Canonical[system][raw] # Invalid

(* StateEvolutionEngine::run, as a function of what it depends on; an      *)
(* invalid input is echoed in a SystemError trajectory.                    *)
Run(system, raw, config) ==
    [system |-> system,
     state  |-> IF IsValid(system, raw) THEN Canonical[system][raw] ELSE raw,
     limit  |-> config.limit,
     error  |-> ~IsValid(system, raw)]

(***************************************************************************)
(* The configuration a request runs under.  The HTTP query carries only    *)
(* the iteration limit, and an unreadable one falls back to the default;   *)
(* the Tauri command passes both fields on.                                *)
(***************************************************************************)
ConfigOf(r) ==
    IF host = "tauri" THEN [limit |-> request[r].limit, bound |-> request[r].bound]
    ELSE [Default EXCEPT !.limit =
            IF request[r].limit = Absent THEN Default.limit ELSE request[r].limit]

KeyOf(r) == CacheKey(request[r].system, request[r].raw, ConfigOf(r))

Trajectory(t, hit) == [kind |-> "trajectory", trajectory |-> t, cache_hit |-> hit]

-----------------------------------------------------------------------------
Init ==
    /\ host \in {"http", "tauri"}
    /\ cache = NewCache(Default.bound)
    /\ lock = Free
    /\ poisoned = FALSE
    /\ pc = [r \in Requests |-> "new"]
    /\ request \in [Requests -> {Nothing}]
    /\ reply = [r \in Requests |-> Nothing]

Become(r, label) == pc' = [pc EXCEPT ![r] = label]

Finish(r, answer) ==
    /\ Become(r, "done")
    /\ reply' = [reply EXCEPT ![r] = answer]

(* Mutation of Release: the guard is leaked. *)
ReleaseNot(r, answer) ==
    /\ Finish(r, answer)
    /\ UNCHANGED <<host, lock, request>>

(* The handler's guard goes out of scope. *)
Release(r, answer) ==
    /\ lock' = Free
    /\ Finish(r, answer)
    /\ UNCHANGED <<host, request>>

Receive(r) ==
    /\ pc[r] = "new"
    /\ \E asked \in Queries :
          /\ host = "tauri" => asked.limit # Absent
          /\ host = "http" => asked.bound = Default.bound
          /\ request' = [request EXCEPT ![r] = asked]
    /\ Become(r, "waiting")
    /\ UNCHANGED <<host, cache, lock, poisoned, reply>>

(* The connection fails before the request line and headers are read. *)
ReadFails(r) ==
    /\ host = "http" /\ pc[r] = "new"
    /\ Finish(r, [kind |-> "closed"])
    /\ UNCHANGED <<host, cache, lock, poisoned, request>>

(* Mutation of Lock: the Tauri command takes a poisoned lock too. *)
LockAnyway(r) ==
    /\ pc[r] = "waiting" /\ lock = Free
    /\ lock' = r
    /\ Become(r, "locked")
    /\ UNCHANGED <<host, cache, poisoned, request, reply>>

Lock(r) ==
    /\ pc[r] = "waiting" /\ lock = Free
    /\ host = "tauri" => ~poisoned
    /\ lock' = r
    /\ Become(r, "locked")
    /\ UNCHANGED <<host, cache, poisoned, request, reply>>

(* The Tauri command gives up on a poisoned lock; the HTTP handler does not. *)
RefusePoisoned(r) ==
    /\ host = "tauri" /\ poisoned
    /\ pc[r] = "waiting" /\ lock = Free
    /\ Finish(r, [kind |-> "lock poisoned"])
    /\ UNCHANGED <<host, cache, lock, poisoned, request>>

Known(r) == request[r].system \in Systems

RejectUnknown(r) ==
    /\ pc[r] = "locked" /\ ~Known(r)
    /\ Release(r, [kind |-> "unknown system_id"])
    /\ UNCHANGED <<cache, poisoned>>

(* An invalid input is run without the cache: it has no key. *)
RunInvalid(r) ==
    /\ pc[r] = "locked" /\ Known(r) /\ ~IsValid(request[r].system, request[r].raw)
    /\ Release(r, Trajectory(Run(request[r].system, request[r].raw, ConfigOf(r)), FALSE))
    /\ UNCHANGED <<cache, poisoned>>

Hit(r) ==
    /\ pc[r] = "locked" /\ Known(r) /\ IsValid(request[r].system, request[r].raw)
    /\ KeyOf(r) \in Cached(cache)
    /\ cache' = AfterGet(cache, KeyOf(r))
    /\ Release(r, Trajectory(cache.map[KeyOf(r)], TRUE))
    /\ UNCHANGED poisoned

(* Mutation of Miss: the guard is dropped while the engine computes. *)
MissUnlocking(r) ==
    /\ pc[r] = "locked" /\ Known(r) /\ IsValid(request[r].system, request[r].raw)
    /\ KeyOf(r) \notin Cached(cache)
    /\ lock' = Free
    /\ Become(r, "computing")
    /\ UNCHANGED <<host, cache, poisoned, request, reply>>

Miss(r) ==
    /\ pc[r] = "locked" /\ Known(r) /\ IsValid(request[r].system, request[r].raw)
    /\ KeyOf(r) \notin Cached(cache)
    /\ cache' = AfterGet(cache, KeyOf(r))
    /\ Become(r, "computing")
    /\ UNCHANGED <<host, lock, poisoned, request, reply>>

(* Mutation of Store: whether it was a hit is asked after the insertion. *)
StoreThenLook(r) ==
    /\ pc[r] = "computing"
    /\ LET t == Run(request[r].system, request[r].raw, ConfigOf(r))
       IN /\ cache' = Put(cache, KeyOf(r), t)
          /\ Release(r, Trajectory(t, KeyOf(r) \in Cached(cache')))
    /\ UNCHANGED poisoned

Store(r) ==
    /\ pc[r] = "computing"
    /\ LET t == Run(request[r].system, request[r].raw, ConfigOf(r))
       IN /\ cache' = Put(cache, KeyOf(r), t)
          /\ Release(r, Trajectory(t, FALSE))
    /\ UNCHANGED poisoned

(* The handler panics: unwinding drops the guard and poisons the lock. *)
Panic(r) ==
    /\ pc[r] \in {"locked", "computing"}
    /\ poisoned' = TRUE
    /\ Release(r, [kind |-> "closed"])
    /\ UNCHANGED cache

(* Every handler has finished: the process waits for the next connection. *)
AllServed ==
    /\ \A r \in Requests : pc[r] = "done"
    /\ UNCHANGED vars

(* What a handler does of itself once its request is in. *)
Progress(r) ==
    \/ Lock(r)
    \/ RefusePoisoned(r)
    \/ RejectUnknown(r)
    \/ RunInvalid(r)
    \/ Hit(r)
    \/ Miss(r)
    \/ Store(r)

Next ==
    \/ \E r \in Requests : Receive(r) \/ ReadFails(r) \/ Progress(r) \/ Panic(r)
    \/ AllServed

(***************************************************************************)
(* A handler thread is scheduled, and a run terminates (TransitionsBounded *)
(* of StateEvolutionEngine).  std's Mutex is not fair, but it is granted   *)
(* to some waiter when it is free, and each handler takes it once.         *)
(***************************************************************************)
Fairness == \A r \in Requests : WF_vars(Progress(r))

Spec == Init /\ [][Next]_vars

FairSpec == Spec /\ Fairness

-----------------------------------------------------------------------------
Keys == [system : Systems, config : Configs, state : States]
Results == [system : Systems, state : States \cup Raws, limit : Limits, error : BOOLEAN]
Replies == [kind : {"nothing", "closed", "lock poisoned", "unknown system_id"}]
           \cup [kind : {"trajectory"}, trajectory : Results, cache_hit : BOOLEAN]

TypeOK ==
    /\ host \in {"http", "tauri"}
    /\ cache = [capacity |-> cache.capacity, map |-> cache.map, order |-> cache.order]
    /\ Cached(cache) \subseteq Keys
    /\ cache.map \in [Cached(cache) -> Results]
    /\ lock \in Requests \cup {Free}
    /\ poisoned \in BOOLEAN
    /\ pc \in [Requests -> {"new", "waiting", "locked", "computing", "done"}]
    /\ request \in [Requests -> Asked \cup {Nothing}]
    /\ reply \in [Requests -> Replies]

(* Only the holder of the Mutex is between lock and unlock, through every  *)
(* panic (main.rs, run_engine; commands/mod.rs, run_trajectory).           *)
SectionExclusive ==
    \A r \in Requests : pc[r] \in {"locked", "computing"} <=> lock = r

(* Each entry is what the engine computes for its key, whoever stored it   *)
(* and whatever failed in between (cache.rs, get_or_compute).              *)
CacheHonest ==
    \A k \in Cached(cache) :
        cache.map[k] = [system |-> k.system, state |-> k.state,
                        limit |-> k.config.limit, error |-> FALSE]

(* A reply is the trajectory a fresh run of this very request would give:  *)
(* two limits, two systems, two spellings of a state never mix (cache.rs:  *)
(* "byte-identical to a fresh computation everywhere it matters").         *)
CacheTransparent ==
    \A r \in Requests :
        reply[r].kind = "trajectory" =>
            reply[r].trajectory = Run(request[r].system, request[r].raw, ConfigOf(r))

(* What a handler is computing nobody has stored meanwhile: a lookup and   *)
(* the store that follows its miss see the same cache.                     *)
NoDuplicateWork ==
    \A r \in Requests : pc[r] = "computing" => KeyOf(r) \notin Cached(cache)

(* One panic ends the Tauri host's trajectories for good: no later request *)
(* is answered with one, nor is the cache used again (commands/mod.rs:67). *)
PoisonEndsTauri ==
    [][host = "tauri" /\ poisoned =>
        /\ cache' = cache
        /\ \A r \in Requests : reply'[r] # reply[r] => reply'[r].kind # "trajectory"]_vars

(* Every request that arrived is finished with, though handlers wait for   *)
(* one another and some of them panic.                                     *)
EveryRequestFinishes ==
    \A r \in Requests : pc[r] = "waiting" ~> pc[r] = "done"

(***************************************************************************)
(* The hosts as a service that answers each question at one instant.       *)
(***************************************************************************)
Questions == [system : Systems \cup UnknownIds, raw : Raws, config : Configs]
Served == {q \in Questions : q.system \in Systems}
Cacheable == {q \in Served : IsValid(q.system, q.raw)}

QuestionOf(r) ==
    IF request[r] = Nothing THEN Nothing
    ELSE [system |-> request[r].system, raw |-> request[r].raw, config |-> ConfigOf(r)]

Service == INSTANCE TrajectoryService WITH
             asked <- [r \in Requests |-> QuestionOf(r)],
             answer <- reply,
             Fresh <- [q \in Served |-> Run(q.system, q.raw, q.config)],
             Key <- [q \in Cacheable |-> CacheKey(q.system, q.raw, q.config)]

(* A host implements the service: its lock, its cache and its panics only  *)
(* show in what the service allows (main.rs, run_engine; commands/mod.rs,  *)
(* run_trajectory; cache.rs, get_or_compute).                              *)
ImplementsService == Service!Spec

(* Behind the invariants above: what each stage of a handler has settled.  *)
StageOK ==
    \A r \in Requests :
        /\ pc[r] # "done" => reply[r] = Nothing
        /\ pc[r] \in {"waiting", "locked", "computing"} =>
              /\ request[r] \in Asked
              /\ host = "tauri" => request[r].limit # Absent
        /\ pc[r] = "computing" => Known(r) /\ IsValid(request[r].system, request[r].raw)

IInv ==
    /\ TypeOK
    /\ StageOK
    /\ SectionExclusive
    /\ CacheHonest
    /\ CacheTransparent
    /\ NoDuplicateWork
=============================================================================
