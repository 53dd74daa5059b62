------------------------ MODULE TrajectoryHostProofs ------------------------
(***************************************************************************)
(* Proofs about the trajectory hosts, for every number of requests, every  *)
(* set of systems, inputs and configurations, and every cache bound.       *)
(***************************************************************************)
EXTENDS TrajectoryHost, TLAPS

USE CanonicalAssumption, DefaultAssumption, NamesAssumption

IsCache(c) == c = [capacity |-> c.capacity, map |-> c.map, order |-> c.order]

(* A lookup changes the order of the entries and nothing they hold. *)
LEMMA GetKeepsEntries ==
    ASSUME NEW c, IsCache(c), NEW key
    PROVE  IsCache(AfterGet(c, key)) /\ AfterGet(c, key).map = c.map
  <1>1. CASE AfterGet(c, key) = c
    BY <1>1
  <1>2. CASE AfterGet(c, key) # c
    <2>1. AfterGet(c, key) = [c EXCEPT !.order = Append(RemoveFirst(c.order, key), key)]
      BY <1>2 DEF AfterGet, Touch
    <2>2. \A o : IsCache([c EXCEPT !.order = o]) /\ [c EXCEPT !.order = o].map = c.map
      BY DEF IsCache
    <2>3. QED
      BY <2>1, <2>2
  <1>3. QED
    BY <1>1, <1>2

(* After a put an entry is the new one, or an old one as it was. *)
LEMMA PutEntries ==
    ASSUME NEW c, IsCache(c), c.map \in [Cached(c) -> Results],
           NEW key \in Keys, NEW value \in Results, Cached(c) \subseteq Keys
    PROVE  LET d == Put(c, key, value) IN
           /\ IsCache(d)
           /\ Cached(d) \subseteq Cached(c) \cup {key}
           /\ d.map \in [Cached(d) -> Results]
           /\ \A k \in Cached(d) :
                \/ k \in Cached(c) /\ d.map[k] = c.map[k]
                \/ k = key /\ d.map[k] = value
  <1> DEFINE Entries(d) ==
               /\ IsCache(d)
               /\ Cached(d) \subseteq Cached(c) \cup {key}
               /\ d.map \in [Cached(d) -> Results]
               /\ \A k \in Cached(d) :
                    \/ k \in Cached(c) /\ d.map[k] = c.map[k]
                    \/ k = key /\ d.map[k] = value
  <1>1. Entries(c)
    OBVIOUS
  <1> HIDE DEF Entries
  <1>2. \A d, o : Entries(d) => Entries([d EXCEPT !.order = o])
    BY DEF IsCache, Cached, Entries
  <1>3. \A d : Entries(d) => Entries(Insert(d, key, value))
    <2>1. SUFFICES ASSUME NEW d, Entries(d) PROVE Entries(Insert(d, key, value))
      OBVIOUS
    <2>2. Insert(d, key, value) =
            [capacity |-> d.capacity,
             map |-> [k \in Cached(d) \cup {key} |-> IF k = key THEN value ELSE d.map[k]],
             order |-> d.order]
      BY <2>1 DEF Insert, IsCache, Entries
    <2> DEFINE e == Insert(d, key, value)
    <2>3. /\ IsCache(e) /\ Cached(e) = Cached(d) \cup {key}
          /\ e.map = [k \in Cached(d) \cup {key} |-> IF k = key THEN value ELSE d.map[k]]
      BY <2>2 DEF IsCache, Cached
    <2> HIDE DEF e
    <2>4. QED
      BY <2>1, <2>3 DEF e, Entries
  <1>4. Entries(EvictLru(c))
    <2>1. /\ IsCache(EvictLru(c)) /\ Cached(EvictLru(c)) = Cached(c) \ {Head(c.order)}
          /\ EvictLru(c).map = [k \in Cached(c) \ {Head(c.order)} |-> c.map[k]]
      BY DEF EvictLru, IsCache, Cached
    <2>2. QED
      BY <2>1 DEF Entries
  <1>5. Entries(MakeRoom(c))
    BY <1>1, <1>4 DEF MakeRoom
  <1>6. Entries(AddNew(MakeRoom(c), key, value))
    BY <1>2, <1>3, <1>5 DEF AddNew
  <1>7. Entries(Touch(Insert(c, key, value), key))
    BY <1>1, <1>2, <1>3 DEF Touch
  <1>8. Entries(Put(c, key, value))
    BY <1>1, <1>6, <1>7 DEF Put
  <1>9. QED
    BY <1>8 DEF Entries

(* What a handler past the arrival of its request works with. *)
LEMMA RequestFacts ==
    ASSUME TypeOK, NEW r \in Requests, request[r] \in Asked, Known(r),
           host = "tauri" => request[r].limit # Absent
    PROVE  /\ ConfigOf(r) \in Configs
           /\ request[r].system \in Systems /\ request[r].raw \in Raws
           /\ Run(request[r].system, request[r].raw, ConfigOf(r)) \in Results
           /\ IsValid(request[r].system, request[r].raw) => KeyOf(r) \in Keys
  <1>1. /\ request[r].system \in Systems /\ request[r].raw \in Raws
        /\ request[r].limit \in Limits \cup {Absent} /\ request[r].bound \in Bounds
    BY DEF Asked, Known
  <1>2. ConfigOf(r) \in Configs
    BY <1>1 DEF ConfigOf, Configs, TypeOK
  <1>3. Canonical[request[r].system][request[r].raw] \in States \cup {Invalid}
    BY <1>1
  <1> DEFINE config == ConfigOf(r)
  <1>4. config.limit \in Limits
    BY <1>2 DEF Configs
  <1> HIDE DEF config
  <1>5. Run(request[r].system, request[r].raw, config) \in Results
    BY <1>1, <1>3, <1>4 DEF Run, Results, IsValid
  <1>6. IsValid(request[r].system, request[r].raw) => KeyOf(r) \in Keys
    BY <1>1, <1>2, <1>3 DEF KeyOf, CacheKey, Keys, IsValid
  <1>7. QED
    BY <1>1, <1>2, <1>5, <1>6 DEF config

(* An honest entry is the run of every request with its key. *)
LEMMA EntryIsRun ==
    ASSUME NEW r \in Requests, IsValid(request[r].system, request[r].raw),
           CacheHonest, KeyOf(r) \in Cached(cache)
    PROVE  cache.map[KeyOf(r)] = Run(request[r].system, request[r].raw, ConfigOf(r))
  <1> DEFINE key == KeyOf(r)
  <1>1. cache.map[key] = [system |-> key.system, state |-> key.state,
                          limit |-> key.config.limit, error |-> FALSE]
    BY DEF CacheHonest
  <1>2. /\ key.system = request[r].system /\ key.config = ConfigOf(r)
        /\ key.state = Canonical[request[r].system][request[r].raw]
    BY DEF KeyOf, CacheKey
  <1> HIDE DEF key
  <1>3. QED
    BY <1>1, <1>2 DEF Run, key

(* What a request means does not change once it has arrived. *)
LEMMA MeaningStable ==
    ASSUME NEW r \in Requests, request'[r] = request[r], host' = host
    PROVE  /\ Known(r)' = Known(r) /\ ConfigOf(r)' = ConfigOf(r) /\ KeyOf(r)' = KeyOf(r)
           /\ Run(request[r].system, request[r].raw, ConfigOf(r))'
                = Run(request[r].system, request[r].raw, ConfigOf(r))
           /\ IsValid(request[r].system, request[r].raw)'
                = IsValid(request[r].system, request[r].raw)
  BY DEF Known, ConfigOf, KeyOf, CacheKey, Run, IsValid

LEMMA InitInv == Init => IInv
  <1> SUFFICES ASSUME Init PROVE IInv
    OBVIOUS
  <1>1. /\ cache = [capacity |-> Default.bound, map |-> <<>>, order |-> <<>>]
        /\ Cached(cache) = {}
    BY DEF Init, NewCache, Cached
  <1>2. /\ \A r \in Requests : pc[r] = "new" /\ reply[r] = Nothing /\ request[r] = Nothing
        /\ lock = Free
    BY DEF Init
  <1>3. TypeOK
    <2>1. Nothing \in Replies
      BY DEF Replies, Nothing
    <2>2. cache.map = <<>> /\ cache.map \in [{} -> Results]
      BY <1>1
    <2>3. cache = [capacity |-> cache.capacity, map |-> cache.map, order |-> cache.order]
      BY <1>1
    <2>4. request \in [Requests -> Asked \cup {Nothing}]
      BY DEF Init
    <2>5. QED
      BY <1>1, <2>1, <2>2, <2>3, <2>4 DEF Init, TypeOK
  <1>4. StageOK /\ SectionExclusive /\ NoDuplicateWork
    BY <1>2 DEF StageOK, SectionExclusive, NoDuplicateWork
  <1>5. CacheHonest /\ CacheTransparent
    BY <1>1, <1>2 DEF CacheHonest, CacheTransparent, Nothing
  <1>6. QED
    BY <1>3, <1>4, <1>5 DEF IInv

(***************************************************************************)
(* The steps in which one handler finishes, releases or never had the      *)
(* lock, and leaves the entries of the cache alone.                        *)
(***************************************************************************)
LEMMA FinishInv ==
    ASSUME IInv, NEW r \in Requests, NEW answer \in Replies,
           Finish(r, answer), UNCHANGED <<host, request>>, poisoned' \in BOOLEAN,
           IsCache(cache'), cache'.map = cache.map,
           \/ pc[r] \in {"locked", "computing"} /\ lock' = Free
           \/ pc[r] \in {"new", "waiting"} /\ lock' = lock,
           answer.kind = "trajectory" =>
              answer.trajectory = Run(request[r].system, request[r].raw, ConfigOf(r))
    PROVE  IInv'
  <1>1. /\ pc' = [pc EXCEPT ![r] = "done"] /\ reply' = [reply EXCEPT ![r] = answer]
        /\ request' = request /\ host' = host /\ Cached(cache') = Cached(cache)
    BY DEF Finish, Become, Cached
  <1>2. /\ pc \in [Requests -> {"new", "waiting", "locked", "computing", "done"}]
        /\ reply \in [Requests -> Replies] /\ lock \in Requests \cup {Free}
    BY DEF IInv, TypeOK
  <1>3. \A q \in Requests : q # r => pc'[q] = pc[q] /\ reply'[q] = reply[q]
    BY <1>1, <1>2
  <1>4. pc'[r] = "done" /\ reply'[r] = answer
    BY <1>1, <1>2
  <1>5. TypeOK'
    BY <1>1, <1>2 DEF IInv, TypeOK, IsCache
  <1>6. StageOK'
    BY <1>1, <1>3, <1>4, MeaningStable DEF IInv, StageOK
  <1>7. SectionExclusive'
    BY <1>2, <1>3, <1>4 DEF IInv, SectionExclusive
  <1>8. CacheHonest'
    BY <1>1 DEF IInv, CacheHonest
  <1>9. CacheTransparent'
    BY <1>1, <1>3, <1>4, MeaningStable DEF IInv, CacheTransparent
  <1>10. NoDuplicateWork'
    BY <1>1, <1>3, <1>4, MeaningStable DEF IInv, NoDuplicateWork
  <1>11. QED
    BY <1>5, <1>6, <1>7, <1>8, <1>9, <1>10 DEF IInv

(* The steps of one handler that neither finish it nor touch an entry. *)
LEMMA AdvanceInv ==
    ASSUME IInv, NEW r \in Requests, NEW label \in {"waiting", "locked", "computing"},
           Become(r, label), UNCHANGED <<host, poisoned, reply>>, pc[r] # "done",
           IsCache(cache'), cache'.map = cache.map,
           \A q \in Requests : q # r => request'[q] = request[q],
           request' \in [Requests -> Asked \cup {Nothing}],
           request'[r] \in Asked, host = "tauri" => request'[r].limit # Absent,
           lock' = (IF label = "waiting" THEN lock ELSE r),
           label = "waiting" => pc[r] = "new",
           label # "waiting" => lock \in {Free, r} /\ request'[r] = request[r],
           label = "computing" =>
              /\ Known(r) /\ IsValid(request[r].system, request[r].raw)
              /\ KeyOf(r) \notin Cached(cache)
    PROVE  IInv'
  <1>1. /\ pc' = [pc EXCEPT ![r] = label] /\ reply' = reply
        /\ host' = host /\ poisoned' = poisoned /\ Cached(cache') = Cached(cache)
    BY DEF Become, Cached
  <1>2. /\ pc \in [Requests -> {"new", "waiting", "locked", "computing", "done"}]
        /\ reply \in [Requests -> Replies] /\ lock \in Requests \cup {Free}
    BY DEF IInv, TypeOK
  <1>3. \A q \in Requests : q # r => pc'[q] = pc[q]
    BY <1>1, <1>2
  <1>4. pc'[r] = label
    BY <1>1, <1>2
  <1>5. TypeOK'
    BY <1>1, <1>2 DEF IInv, TypeOK, IsCache
  <1>6. StageOK'
    <2>1. ASSUME NEW q \in Requests, q # r
          PROVE  /\ pc'[q] # "done" => reply'[q] = Nothing
                 /\ pc'[q] \in {"waiting", "locked", "computing"} =>
                       request'[q] \in Asked /\ (host' = "tauri" => request'[q].limit # Absent)
                 /\ pc'[q] = "computing" =>
                       Known(q)' /\ IsValid(request[q].system, request[q].raw)'
      BY <1>1, <1>3, <2>1, MeaningStable DEF IInv, StageOK
    <2>2. /\ pc'[r] # "done" => reply'[r] = Nothing
          /\ pc'[r] \in {"waiting", "locked", "computing"} =>
                 request'[r] \in Asked /\ (host' = "tauri" => request'[r].limit # Absent)
          /\ pc'[r] = "computing" =>
                 Known(r)' /\ IsValid(request[r].system, request[r].raw)'
      BY <1>1, <1>4, MeaningStable DEF IInv, StageOK
    <2>3. QED
      BY <2>1, <2>2 DEF StageOK
  <1>7. SectionExclusive'
    <2>1. CASE label = "waiting"
      BY <1>2, <1>3, <1>4, <2>1 DEF IInv, SectionExclusive
    <2>2. CASE label # "waiting"
      BY <1>2, <1>3, <1>4, <2>2 DEF IInv, SectionExclusive
    <2>3. QED
      BY <2>1, <2>2
  <1>8. CacheHonest'
    BY <1>1 DEF IInv, CacheHonest
  <1>9. CacheTransparent'
    <2>1. reply[r] = Nothing
      BY DEF IInv, StageOK
    <2>2. QED
      BY <1>1, <2>1, MeaningStable DEF IInv, CacheTransparent, Nothing
  <1>10. NoDuplicateWork'
    <2>1. ASSUME NEW q \in Requests, q # r, pc'[q] = "computing"
          PROVE  KeyOf(q)' \notin Cached(cache')
      BY <1>1, <1>3, <2>1, MeaningStable DEF IInv, NoDuplicateWork
    <2>2. pc'[r] = "computing" => KeyOf(r)' \notin Cached(cache')
      BY <1>1, <1>4, MeaningStable
    <2>3. QED
      BY <2>1, <2>2 DEF NoDuplicateWork
  <1>11. QED
    BY <1>5, <1>6, <1>7, <1>8, <1>9, <1>10 DEF IInv

(* Storing a result: the one step that changes what the cache holds. *)
LEMMA StoreInv == ASSUME IInv, NEW r \in Requests, Store(r) PROVE IInv'
  <1> DEFINE t == Run(request[r].system, request[r].raw, ConfigOf(r))
             key == KeyOf(r)
  <1>1. /\ pc[r] = "computing" /\ cache' = Put(cache, key, t)
        /\ lock' = Free /\ pc' = [pc EXCEPT ![r] = "done"]
        /\ reply' = [reply EXCEPT ![r] = Trajectory(t, FALSE)]
        /\ host' = host /\ request' = request /\ poisoned' = poisoned
    BY DEF Store, Release, Finish, Become
  <1>2. /\ pc \in [Requests -> {"new", "waiting", "locked", "computing", "done"}]
        /\ reply \in [Requests -> Replies] /\ TypeOK
        /\ IsCache(cache) /\ cache.map \in [Cached(cache) -> Results]
        /\ Cached(cache) \subseteq Keys
    BY DEF IInv, TypeOK, IsCache
  <1>3. /\ request[r] \in Asked /\ Known(r) /\ IsValid(request[r].system, request[r].raw)
        /\ host = "tauri" => request[r].limit # Absent
    BY <1>1 DEF IInv, StageOK
  <1>4. t \in Results /\ key \in Keys
    BY <1>2, <1>3, RequestFacts
  <1>5. t = [system |-> key.system, state |-> key.state,
             limit |-> key.config.limit, error |-> FALSE]
    <2>1. /\ key.system = request[r].system /\ key.config = ConfigOf(r)
          /\ key.state = Canonical[request[r].system][request[r].raw]
      BY DEF KeyOf, CacheKey
    <2> HIDE DEF key
    <2>2. QED
      BY <1>3, <2>1 DEF Run
  <1>6. /\ IsCache(cache')
        /\ Cached(cache') \subseteq Cached(cache) \cup {key}
        /\ cache'.map \in [Cached(cache') -> Results]
        /\ \A k \in Cached(cache') :
              \/ k \in Cached(cache) /\ cache'.map[k] = cache.map[k]
              \/ k = key /\ cache'.map[k] = t
    <2> HIDE DEF t, key
    <2>1. QED
      BY <1>1, <1>2, <1>4, PutEntries
  <1>7. \A q \in Requests : q # r => pc'[q] = pc[q] /\ reply'[q] = reply[q]
    BY <1>1, <1>2
  <1>8. pc'[r] = "done" /\ reply'[r] = Trajectory(t, FALSE)
    BY <1>1, <1>2
  <1> HIDE DEF t, key
  <1>9. lock = r /\ \A q \in Requests : q # r => pc[q] \notin {"locked", "computing"}
    BY <1>1 DEF IInv, SectionExclusive
  <1>10. TypeOK'
    <2>1. Trajectory(t, FALSE) \in Replies
      BY <1>4 DEF Trajectory, Replies
    <2>2. reply' \in [Requests -> Replies] /\ pc' \in [Requests -> {"new", "waiting", "locked", "computing", "done"}]
      BY <1>1, <1>2, <2>1
    <2>3. Cached(cache') \subseteq Keys
      BY <1>2, <1>4, <1>6
    <2>4. QED
      BY <1>1, <1>6, <2>2, <2>3 DEF IInv, TypeOK, IsCache
  <1>11. StageOK'
    BY <1>1, <1>7, <1>8, MeaningStable DEF IInv, StageOK
  <1>12. SectionExclusive'
    BY <1>1, <1>2, <1>7, <1>8, <1>9 DEF SectionExclusive
  <1>13. CacheHonest'
    BY <1>5, <1>6 DEF IInv, CacheHonest
  <1>14. CacheTransparent'
    <2>1. Trajectory(t, FALSE).trajectory = t
      BY DEF Trajectory
    <2>2. Run(request[r].system, request[r].raw, ConfigOf(r))' = t
      BY <1>1, MeaningStable DEF t
    <2>3. QED
      BY <1>1, <1>7, <1>8, <2>1, <2>2, MeaningStable DEF IInv, CacheTransparent
  <1>15. NoDuplicateWork'
    BY <1>7, <1>8, <1>9 DEF NoDuplicateWork
  <1>16. QED
    BY <1>10, <1>11, <1>12, <1>13, <1>14, <1>15 DEF IInv

(* A handler that has its request and the lock, or waits for it. *)
LEMMA StageFacts ==
    ASSUME IInv, NEW r \in Requests, pc[r] \in {"waiting", "locked", "computing"}
    PROVE  /\ request[r] \in Asked
           /\ host = "tauri" => request[r].limit # Absent
           /\ pc[r] \in {"locked", "computing"} => lock = r
           /\ IsCache(cache)
           /\ TypeOK
  BY DEF IInv, StageOK, SectionExclusive, TypeOK, IsCache

LEMMA ReceiveInv == ASSUME IInv, NEW r \in Requests, Receive(r) PROVE IInv'
  <1>1. PICK asked \in Asked :
            /\ host = "tauri" => asked.limit # Absent
            /\ request' = [request EXCEPT ![r] = asked]
    BY QueriesAssumption DEF Receive
  <1>2. request \in [Requests -> Asked \cup {Nothing}] /\ IsCache(cache)
    BY DEF IInv, TypeOK, IsCache
  <1>3. /\ request'[r] \in Asked
        /\ host = "tauri" => request'[r].limit # Absent
        /\ \A q \in Requests : q # r => request'[q] = request[q]
        /\ request' \in [Requests -> Asked \cup {Nothing}]
    BY <1>1, <1>2
  <1>4. /\ Become(r, "waiting") /\ pc[r] = "new"
        /\ UNCHANGED <<host, poisoned, reply>> /\ cache' = cache /\ lock' = lock
    BY DEF Receive
  <1>5. /\ IsCache(cache') /\ cache'.map = cache.map
        /\ lock' = (IF "waiting" = "waiting" THEN lock ELSE r)
    BY <1>2, <1>4
  <1>6. "waiting" \in {"waiting", "locked", "computing"} /\ pc[r] # "done"
    BY <1>4
  <1>7. QED
    BY <1>3, <1>4, <1>5, <1>6, AdvanceInv

LEMMA LockInv == ASSUME IInv, NEW r \in Requests, Lock(r) PROVE IInv'
  <1>1. /\ Become(r, "locked") /\ pc[r] = "waiting" /\ lock = Free /\ lock' = r
        /\ UNCHANGED <<host, poisoned, reply>> /\ cache' = cache /\ request' = request
    BY DEF Lock
  <1>2. request \in [Requests -> Asked \cup {Nothing}]
    BY DEF IInv, TypeOK
  <1>3. QED
    BY <1>1, <1>2, StageFacts, AdvanceInv

LEMMA MissInv == ASSUME IInv, NEW r \in Requests, Miss(r) PROVE IInv'
  <1>1. /\ Become(r, "computing") /\ pc[r] = "locked" /\ lock' = lock
        /\ UNCHANGED <<host, poisoned, reply>> /\ request' = request
        /\ Known(r) /\ IsValid(request[r].system, request[r].raw)
        /\ KeyOf(r) \notin Cached(cache) /\ cache' = AfterGet(cache, KeyOf(r))
    BY DEF Miss
  <1>2. request \in [Requests -> Asked \cup {Nothing}]
    BY DEF IInv, TypeOK
  <1>3. IsCache(cache') /\ cache'.map = cache.map
    BY <1>1, StageFacts, GetKeepsEntries
  <1>4. QED
    BY <1>1, <1>2, <1>3, StageFacts, AdvanceInv

LEMMA HitInv == ASSUME IInv, NEW r \in Requests, Hit(r) PROVE IInv'
  <1> DEFINE answer == Trajectory(cache.map[KeyOf(r)], TRUE)
  <1>1. /\ pc[r] = "locked" /\ lock' = Free /\ poisoned' = poisoned
        /\ Finish(r, answer) /\ UNCHANGED <<host, request>>
        /\ Known(r) /\ IsValid(request[r].system, request[r].raw)
        /\ KeyOf(r) \in Cached(cache) /\ cache' = AfterGet(cache, KeyOf(r))
    BY DEF Hit, Release
  <1>2. IsCache(cache') /\ cache'.map = cache.map
    BY <1>1, StageFacts, GetKeepsEntries
  <1>3. cache.map[KeyOf(r)] = Run(request[r].system, request[r].raw, ConfigOf(r))
    BY <1>1, EntryIsRun DEF IInv
  <1>4. answer \in Replies /\ answer.trajectory = cache.map[KeyOf(r)]
    <2>1. cache.map[KeyOf(r)] \in Results
      BY <1>1 DEF IInv, TypeOK
    <2>2. QED
      BY <2>1 DEF Trajectory, Replies
  <1>5. poisoned' \in BOOLEAN
    BY <1>1 DEF IInv, TypeOK
  <1> HIDE DEF answer
  <1>6. QED
    BY <1>1, <1>2, <1>3, <1>4, <1>5, FinishInv

LEMMA RunInvalidInv == ASSUME IInv, NEW r \in Requests, RunInvalid(r) PROVE IInv'
  <1> DEFINE t == Run(request[r].system, request[r].raw, ConfigOf(r))
             answer == Trajectory(t, FALSE)
  <1>1. /\ pc[r] = "locked" /\ lock' = Free /\ poisoned' = poisoned /\ Known(r)
        /\ Finish(r, answer) /\ UNCHANGED <<host, request>> /\ cache' = cache
    BY DEF RunInvalid, Release
  <1>2. t \in Results
    BY <1>1, StageFacts, RequestFacts
  <1> HIDE DEF t
  <1>3. answer \in Replies /\ answer.trajectory = t
    BY <1>2 DEF Trajectory, Replies
  <1>4. IsCache(cache') /\ cache'.map = cache.map /\ poisoned' \in BOOLEAN
    BY <1>1, StageFacts DEF TypeOK
  <1> HIDE DEF answer
  <1>5. QED
    BY <1>1, <1>3, <1>4, FinishInv DEF t

(* The steps that end a request with an answer that is no trajectory. *)
LEMMA PlainAnswer ==
    ASSUME NEW kind \in {"closed", "lock poisoned", "unknown system_id"}
    PROVE  [kind |-> kind] \in Replies /\ [kind |-> kind].kind # "trajectory"
  BY DEF Replies

LEMMA OtherEndings ==
    ASSUME IInv, NEW r \in Requests,
           ReadFails(r) \/ RefusePoisoned(r) \/ RejectUnknown(r) \/ Panic(r)
    PROVE  IInv'
  <1>1. IsCache(cache) /\ poisoned \in BOOLEAN
    BY DEF IInv, TypeOK, IsCache
  <1>2. CASE ReadFails(r)
    BY <1>1, <1>2, PlainAnswer, FinishInv DEF ReadFails
  <1>3. CASE RefusePoisoned(r)
    BY <1>1, <1>3, PlainAnswer, FinishInv DEF RefusePoisoned
  <1>4. CASE RejectUnknown(r)
    BY <1>1, <1>4, PlainAnswer, FinishInv DEF RejectUnknown, Release
  <1>5. CASE Panic(r)
    BY <1>1, <1>5, PlainAnswer, FinishInv DEF Panic, Release
  <1>6. QED
    BY <1>2, <1>3, <1>4, <1>5

(* The invariant holds in every state of every behaviour of either host. *)
THEOREM Invariance == Spec => []IInv
  <1>1. ASSUME IInv, [Next]_vars PROVE IInv'
    <2>1. CASE UNCHANGED vars
      <3>1. UNCHANGED <<host, cache, lock, poisoned, pc, request, reply>>
        BY <2>1 DEF vars
      <3>2. TypeOK' /\ CacheHonest' /\ SectionExclusive'
        BY <1>1, <3>1 DEF IInv, TypeOK, CacheHonest, SectionExclusive
      <3>3. StageOK' /\ CacheTransparent' /\ NoDuplicateWork'
        BY <1>1, <3>1, MeaningStable DEF IInv, StageOK, CacheTransparent, NoDuplicateWork
      <3>4. QED
        BY <3>2, <3>3 DEF IInv
    <2>2. ASSUME NEW r \in Requests,
                 Receive(r) \/ ReadFails(r) \/ Progress(r) \/ Panic(r)
          PROVE  IInv'
      BY <1>1, <2>2, ReceiveInv, LockInv, MissInv, HitInv, RunInvalidInv, StoreInv,
         OtherEndings DEF Progress
    <2>3. CASE AllServed
      BY <2>1, <2>3 DEF AllServed
    <2>4. QED
      BY <1>1, <2>1, <2>2, <2>3 DEF Next
  <1>2. QED
    BY InitInv, <1>1, PTL DEF Spec

(* The Mutex is held exactly by the handler inside the section, so a panic *)
(* never leaves it locked and no two handlers are ever inside.             *)
THEOREM Exclusion == Spec => []SectionExclusive
  <1>1. IInv => SectionExclusive
    BY DEF IInv
  <1>2. QED
    BY Invariance, <1>1, PTL

(* What a host answers is what a fresh run of that request would give. *)
THEOREM Transparency == Spec => []CacheTransparent
  <1>1. IInv => CacheTransparent
    BY DEF IInv
  <1>2. QED
    BY Invariance, <1>1, PTL

(* What a handler computes nobody stores meanwhile: the miss it saw still  *)
(* stands when it stores (cache.rs, get_or_compute, under one lock).       *)
THEOREM WorkIsDoneOnce == Spec => []NoDuplicateWork
  <1>1. IInv => NoDuplicateWork
    BY DEF IInv
  <1>2. QED
    BY Invariance, <1>1, PTL

(* Every cached entry is the engine's result for its key. *)
THEOREM Honesty == Spec => []CacheHonest
  <1>1. IInv => CacheHonest
    BY DEF IInv
  <1>2. QED
    BY Invariance, <1>1, PTL

(***************************************************************************)
(* The end of the Tauri host: once the lock is poisoned nobody is inside   *)
(* the section, for the handler that panicked was the only one there, and  *)
(* nobody enters it again.                                                 *)
(***************************************************************************)
PoisonedIsEmpty == host = "tauri" /\ poisoned => lock = Free

LEMMA PoisonedStaysEmpty ==
    ASSUME IInv, PoisonedIsEmpty, [Next]_vars
    PROVE  PoisonedIsEmpty'
  <1>1. CASE UNCHANGED vars
    BY <1>1 DEF vars, PoisonedIsEmpty
  <1>2. ASSUME NEW r \in Requests, Lock(r) PROVE PoisonedIsEmpty'
    BY <1>2 DEF Lock, PoisonedIsEmpty
  <1>3. ASSUME NEW r \in Requests,
               RejectUnknown(r) \/ RunInvalid(r) \/ Hit(r) \/ Store(r) \/ Panic(r)
        PROVE  PoisonedIsEmpty'
    BY <1>3 DEF RejectUnknown, RunInvalid, Hit, Store, Panic, Release, PoisonedIsEmpty
  <1>4. ASSUME NEW r \in Requests,
               Receive(r) \/ ReadFails(r) \/ RefusePoisoned(r) \/ Miss(r)
        PROVE  PoisonedIsEmpty'
    BY <1>4 DEF Receive, ReadFails, RefusePoisoned, Miss, PoisonedIsEmpty
  <1>5. CASE AllServed
    BY <1>1, <1>5 DEF AllServed
  <1>6. QED
    BY <1>1, <1>2, <1>3, <1>4, <1>5 DEF Next, Progress

LEMMA PoisonedStep ==
    ASSUME IInv, PoisonedIsEmpty, [Next]_vars, host = "tauri", poisoned
    PROVE  /\ cache' = cache
           /\ \A r \in Requests : reply'[r] # reply[r] => reply'[r].kind # "trajectory"
  <1>1. \A q \in Requests : pc[q] \notin {"locked", "computing"}
    BY NamesAssumption DEF IInv, SectionExclusive, PoisonedIsEmpty
  <1>2. CASE UNCHANGED vars
    BY <1>2 DEF vars
  <1>3. ASSUME NEW q \in Requests, Receive(q) PROVE cache' = cache /\ reply' = reply
    BY <1>3 DEF Receive
  <1>4. ASSUME NEW q \in Requests, RefusePoisoned(q)
        PROVE  /\ cache' = cache
               /\ \A r \in Requests : reply'[r] # reply[r] => reply'[r].kind # "trajectory"
    <2>1. reply \in [Requests -> Replies]
      BY DEF IInv, TypeOK
    <2>2. cache' = cache /\ reply' = [reply EXCEPT ![q] = [kind |-> "lock poisoned"]]
      BY <1>4 DEF RefusePoisoned, Finish
    <2>3. QED
      BY <2>1, <2>2
  <1>5. ASSUME NEW q \in Requests,
               ReadFails(q) \/ Lock(q) \/ RejectUnknown(q) \/ RunInvalid(q)
               \/ Hit(q) \/ Miss(q) \/ Store(q) \/ Panic(q)
        PROVE  FALSE
    BY <1>1, <1>5 DEF ReadFails, Lock, RejectUnknown, RunInvalid, Hit, Miss, Store, Panic
  <1>6. CASE AllServed
    BY <1>2, <1>6 DEF AllServed
  <1>7. QED
    BY <1>2, <1>3, <1>4, <1>5, <1>6 DEF Next, Progress

(* After one panic the Tauri host never answers with a trajectory again,   *)
(* nor touches its cache.                                                  *)
THEOREM PoisonIsFinal == Spec => PoisonEndsTauri
  <1>1. Init => PoisonedIsEmpty
    BY DEF Init, PoisonedIsEmpty
  <1>2. IInv /\ PoisonedIsEmpty /\ [Next]_vars => PoisonedIsEmpty'
    BY PoisonedStaysEmpty
  <1>3. IInv /\ PoisonedIsEmpty /\ [Next]_vars =>
            [host = "tauri" /\ poisoned =>
                /\ cache' = cache
                /\ \A r \in Requests :
                      reply'[r] # reply[r] => reply'[r].kind # "trajectory"]_vars
    BY PoisonedStep
  <1>4. QED
    BY Invariance, <1>1, <1>2, <1>3, PTL DEF Spec, PoisonEndsTauri

-----------------------------------------------------------------------------
(***************************************************************************)
(* Proof that the trajectory hosts implement TrajectoryService, for every  *)
(* number of requests, every system, input and configuration.  What is     *)
(* needed beyond the invariant of the hosts is a witness in the abstract   *)
(* state for what the concrete state remembers in its own way: somebody    *)
(* was answered for each entry of the cache, and somebody's handler died   *)
(* if the lock is poisoned.                                                *)
(***************************************************************************)
KeyOfQuestion(q) == CacheKey(q.system, q.raw, q.config)

AnsweredFor(r, key) ==
    /\ reply[r].kind = "trajectory"
    /\ QuestionOf(r) \in Cacheable
    /\ KeyOfQuestion(QuestionOf(r)) = key

EntriesWereServed ==
    \A key \in Cached(cache) : \E r \in Requests : AnsweredFor(r, key)

PoisonHasVictim == poisoned => \E r \in Requests : reply[r] = [kind |-> "closed"]

RequestsReadable ==
    \A r \in Requests :
        /\ pc[r] = "new" => request[r] = Nothing
        /\ request[r] # Nothing =>
              request[r] \in Asked /\ (host = "tauri" => request[r].limit # Absent)

Witnessed == EntriesWereServed /\ PoisonHasVictim /\ RequestsReadable

-----------------------------------------------------------------------------
(* Nothing is neither a question, nor a request, nor an answer. *)
LEMMA NothingIsNone ==
    /\ \A q \in Questions : q # Nothing
    /\ \A asked \in Asked : asked # Nothing
    /\ \A t, hit : Trajectory(t, hit) # Nothing /\ Trajectory(t, hit).kind = "trajectory"
    /\ [kind |-> "closed"] # Nothing
    /\ Nothing.kind # "trajectory"
  <1>1. DOMAIN Nothing = {"kind"} /\ Nothing.kind = "nothing"
    BY DEF Nothing
  <1>2. \A q \in Questions : DOMAIN q = {"system", "raw", "config"}
    BY DEF Questions
  <1>3. \A asked \in Asked : DOMAIN asked = {"system", "raw", "limit", "bound"}
    BY DEF Asked
  <1>4. \A t, hit : Trajectory(t, hit).kind = "trajectory"
    BY DEF Trajectory
  <1>5. "system" \notin {"kind"}
    OBVIOUS
  <1>6. QED
    BY <1>1, <1>2, <1>3, <1>4, <1>5

(* The question a request stands for once it has arrived. *)
LEMMA QuestionFacts ==
    ASSUME IInv, NEW r \in Requests, request[r] \in Asked,
           host = "tauri" => request[r].limit # Absent
    PROVE  /\ QuestionOf(r) = [system |-> request[r].system, raw |-> request[r].raw,
                               config |-> ConfigOf(r)]
           /\ QuestionOf(r) \in Questions
           /\ QuestionOf(r).system = request[r].system
           /\ QuestionOf(r).raw = request[r].raw
           /\ QuestionOf(r).config = ConfigOf(r)
           /\ Known(r) <=> QuestionOf(r) \in Served
           /\ Known(r) /\ IsValid(request[r].system, request[r].raw)
                <=> QuestionOf(r) \in Cacheable
           /\ KeyOfQuestion(QuestionOf(r)) = KeyOf(r)
  <1> DEFINE q == [system |-> request[r].system, raw |-> request[r].raw, config |-> ConfigOf(r)]
  <1>1. QuestionOf(r) = q
    BY NothingIsNone DEF QuestionOf
  <1>2. q.system = request[r].system /\ q.raw = request[r].raw /\ q.config = ConfigOf(r)
    OBVIOUS
  <1>3. request[r].system \in Systems \cup UnknownIds /\ request[r].raw \in Raws
    BY DEF Asked
  <1>4. ConfigOf(r) \in Configs
    <2>1. request[r].limit \in Limits \cup {Absent} /\ request[r].bound \in Bounds
      BY DEF Asked
    <2>2. host \in {"http", "tauri"}
      BY DEF IInv, TypeOK
    <2>3. CASE host = "tauri"
      BY <2>1, <2>3 DEF ConfigOf, Configs
    <2>4. CASE host = "http"
      BY <2>1, <2>4 DEF ConfigOf, Configs
    <2>5. QED
      BY <2>2, <2>3, <2>4
  <1>5. q \in Questions
    BY <1>3, <1>4 DEF Questions
  <1> HIDE DEF q
  <1>6. /\ Known(r) <=> q \in Served
        /\ Known(r) /\ IsValid(request[r].system, request[r].raw) <=> q \in Cacheable
    BY <1>2, <1>5 DEF Served, Cacheable, Known
  <1>7. KeyOfQuestion(q) = KeyOf(r)
    BY <1>2 DEF KeyOfQuestion, KeyOf
  <1>8. QED
    BY <1>1, <1>2, <1>5, <1>6, <1>7 DEF q

(* Once the request is in, no step of any handler changes what was asked. *)
LEMMA QuestionStable ==
    ASSUME NEW r \in Requests, request'[r] = request[r], host' = host
    PROVE  QuestionOf(r)' = QuestionOf(r)
  BY DEF QuestionOf, ConfigOf

(* An answer given stays, and with it the witness it is. *)
LEMMA WitnessKept ==
    ASSUME NEW r \in Requests, reply'[r] = reply[r], request'[r] = request[r], host' = host,
           NEW key
    PROVE  AnsweredFor(r, key)' <=> AnsweredFor(r, key)
  <1>1. QuestionOf(r)' = QuestionOf(r)
    BY QuestionStable
  <1>2. Cacheable' = Cacheable
    BY DEF Cacheable, Served, Questions, IsValid, Configs
  <1>3. KeyOfQuestion(QuestionOf(r))' = KeyOfQuestion(QuestionOf(r))
    BY <1>1 DEF KeyOfQuestion, CacheKey
  <1>4. QED
    BY <1>1, <1>2, <1>3 DEF AnsweredFor

-----------------------------------------------------------------------------
LEMMA InitWitnessed == Init => Witnessed
  BY DEF Init, NewCache, Cached, Witnessed, EntriesWereServed, PoisonHasVictim, RequestsReadable

(* A step of one handler loses no witness: it had none to offer before.    *)
LEMMA StepKeepsWitnesses ==
    ASSUME IInv, Witnessed, NEW r \in Requests, NEW label, NEW answer \in Replies,
           pc[r] # "done", label # "new", Become(r, label),
           reply' = [reply EXCEPT ![r] = answer], host' = host,
           \A q \in Requests : q # r => request'[q] = request[q],
           request'[r] \in Asked \/ request'[r] = Nothing,
           request'[r] = Nothing \/ (host = "tauri" => request'[r].limit # Absent),
           \A key \in Cached(cache') : key \in Cached(cache) \/ AnsweredFor(r, key)',
           poisoned' => poisoned \/ answer = [kind |-> "closed"]
    PROVE  Witnessed'
  <1>1. /\ pc \in [Requests -> {"new", "waiting", "locked", "computing", "done"}]
        /\ reply \in [Requests -> Replies]
    BY DEF IInv, TypeOK
  <1>2. /\ pc'[r] = label /\ reply'[r] = answer
        /\ \A q \in Requests : q # r => pc'[q] = pc[q] /\ reply'[q] = reply[q]
    BY <1>1 DEF Become
  <1>3. reply[r] = Nothing
    BY DEF IInv, StageOK
  <1>4. EntriesWereServed'
    <2>1. SUFFICES ASSUME NEW key \in Cached(cache')
                   PROVE  \E q \in Requests : AnsweredFor(q, key)'
      BY DEF EntriesWereServed, AnsweredFor, QuestionOf, ConfigOf, KeyOfQuestion, CacheKey
    <2>2. CASE AnsweredFor(r, key)'
      BY <2>2
    <2>3. CASE key \in Cached(cache)
      <3>1. PICK q \in Requests : AnsweredFor(q, key)
        BY <2>3 DEF Witnessed, EntriesWereServed
      <3>2. q # r
        BY <1>3, <3>1, NothingIsNone DEF AnsweredFor
      <3>3. AnsweredFor(q, key)'
        BY <1>2, <3>1, <3>2, WitnessKept
      <3>4. QED
        BY <3>3
    <2>4. QED
      BY <2>1, <2>2, <2>3
  <1>5. PoisonHasVictim'
    <2>1. CASE answer = [kind |-> "closed"]
      BY <1>2, <2>1 DEF PoisonHasVictim
    <2>2. CASE poisoned
      <3>1. PICK q \in Requests : reply[q] = [kind |-> "closed"]
        BY <2>2 DEF Witnessed, PoisonHasVictim
      <3>2. q # r
        BY <1>3, <3>1, NothingIsNone
      <3>3. QED
        BY <1>2, <3>1, <3>2 DEF PoisonHasVictim
    <2>3. QED
      BY <2>1, <2>2 DEF PoisonHasVictim
  <1>6. RequestsReadable'
    BY <1>2 DEF Witnessed, RequestsReadable
  <1>7. QED
    BY <1>4, <1>5, <1>6 DEF Witnessed

(* The steps that leave the entries of the cache and the answers alone. *)
LEMMA QuietStepsWitnessed ==
    ASSUME IInv, Witnessed, NEW r \in Requests, Receive(r) \/ Lock(r) \/ Miss(r)
    PROVE  Witnessed'
  <1>1. /\ reply' = reply /\ host' = host /\ poisoned' = poisoned
        /\ pc[r] \in {"new", "waiting", "locked"}
        /\ \E label \in {"waiting", "locked", "computing"} : Become(r, label)
    BY DEF Receive, Lock, Miss
  <1>2. reply \in [Requests -> Replies] /\ request \in [Requests -> Asked \cup {Nothing}]
    BY DEF IInv, TypeOK
  <1>3. reply' = [reply EXCEPT ![r] = reply[r]] /\ reply[r] \in Replies
    BY <1>1, <1>2
  <1>4. cache'.map = cache.map
    <2>1. IsCache(cache)
      BY DEF IInv, TypeOK, IsCache
    <2>2. cache' = cache \/ cache' = AfterGet(cache, KeyOf(r))
      BY DEF Receive, Lock, Miss
    <2>3. QED
      BY <2>1, <2>2, GetKeepsEntries
  <1>5. \A key \in Cached(cache') : key \in Cached(cache)
    BY <1>4 DEF Cached
  <1>6. /\ \A q \in Requests : q # r => request'[q] = request[q]
        /\ request'[r] \in Asked \/ request'[r] = Nothing
        /\ request'[r] = Nothing \/ (host = "tauri" => request'[r].limit # Absent)
    <2>1. CASE Receive(r)
      <3>1. PICK asked \in Asked :
                /\ host = "tauri" => asked.limit # Absent
                /\ request' = [request EXCEPT ![r] = asked]
        BY <2>1, QueriesAssumption DEF Receive
      <3>2. QED
        BY <1>2, <3>1
    <2>2. CASE Lock(r) \/ Miss(r)
      <3>1. request' = request
        BY <2>2 DEF Lock, Miss
      <3>2. QED
        BY <1>2, <3>1 DEF Witnessed, RequestsReadable
    <2>3. QED
      BY <2>1, <2>2
  <1>7. pc[r] # "done"
    BY <1>1
  <1>8. QED
    BY <1>1, <1>3, <1>5, <1>6, <1>7, StepKeepsWitnesses

(* A handler that has its request in front of it: waiting, for the service. *)
LEMMA StageWaits ==
    ASSUME IInv, NEW r \in Requests, pc[r] \in {"waiting", "locked", "computing"}
    PROVE  /\ Service!Waiting(r)
           /\ request[r] \in Asked
           /\ host = "tauri" => request[r].limit # Absent
           /\ reply[r] = Nothing
  <1>1. /\ request[r] \in Asked /\ reply[r] = Nothing
        /\ host = "tauri" => request[r].limit # Absent
    BY DEF IInv, StageOK
  <1>2. QuestionOf(r) # Nothing
    BY <1>1, QuestionFacts, NothingIsNone
  <1>3. QED
    BY <1>1, <1>2 DEF Service!Waiting

(* Ending with an answer answers, and asks nothing. *)
LEMMA FinishAnswers ==
    ASSUME NEW r \in Requests, NEW answer, Finish(r, answer), UNCHANGED <<host, request>>
    PROVE  Service!Answer(r, answer)
  <1>1. \A q \in Requests : QuestionOf(q)' = QuestionOf(q)
    BY QuestionStable
  <1>2. QED
    BY <1>1 DEF Service!Answer, Finish

(* The steps that end a request with a trajectory. *)
LEMMA ServingSteps ==
    ASSUME IInv, Witnessed, NEW r \in Requests, RunInvalid(r) \/ Hit(r) \/ Store(r)
    PROVE  Service!Serve(r) /\ Witnessed'
  <1> DEFINE t == Run(request[r].system, request[r].raw, ConfigOf(r))
             hit == IF Hit(r) THEN TRUE ELSE FALSE
             answer == Trajectory(t, hit)
             question == QuestionOf(r)
  <1>1. pc[r] \in {"locked", "computing"} /\ poisoned' = poisoned
        /\ UNCHANGED <<host, request>> /\ Known(r)
    BY DEF RunInvalid, Hit, Store, Release, IInv, StageOK
  <1>2. /\ request[r] \in Asked /\ (host = "tauri" => request[r].limit # Absent)
        /\ Service!Waiting(r) /\ TypeOK /\ IsCache(cache)
    BY <1>1, StageWaits DEF IInv, TypeOK, IsCache
  <1>3. /\ question \in Served /\ question.system = request[r].system
        /\ question.raw = request[r].raw /\ question.config = ConfigOf(r)
        /\ KeyOfQuestion(question) = KeyOf(r)
        /\ IsValid(request[r].system, request[r].raw) <=> question \in Cacheable
    BY <1>1, <1>2, QuestionFacts
  <1>4. Finish(r, answer)
    <2>1. CASE RunInvalid(r)
      BY <2>1, <1>1 DEF RunInvalid, Hit, Release
    <2>2. CASE Hit(r)
      BY <2>2, EntryIsRun DEF Hit, Release, IInv
    <2>3. CASE Store(r)
      BY <2>3, <1>1 DEF Store, Hit, Release
    <2>4. QED
      BY <2>1, <2>2, <2>3
  <1>5. t \in Results
    BY <1>1, <1>2, RequestFacts
  <1>6. hit \in BOOLEAN /\ (hit => Hit(r))
    OBVIOUS
  <1> HIDE DEF t, hit
  <1>7. answer = [kind |-> "trajectory", trajectory |-> t, cache_hit |-> hit]
    BY DEF Trajectory
  <1>8. answer \in Replies
    <2>1. [kind |-> "trajectory", trajectory |-> t, cache_hit |-> hit] \in Replies
      BY <1>5, <1>6 DEF Replies
    <2>2. QED
      BY <1>7, <2>1
  <1>9. Service!Serve(r)
    <2>1. hit => question \in Cacheable /\ Service!AnsweredBefore(question)
      <3>1. SUFFICES ASSUME hit PROVE question \in Cacheable /\ Service!AnsweredBefore(question)
        OBVIOUS
      <3>2. question \in Cacheable /\ KeyOf(r) \in Cached(cache)
        BY <1>3, <1>6, <3>1 DEF Hit
      <3>3. PICK q \in Requests : AnsweredFor(q, KeyOf(r))
        BY <3>2 DEF Witnessed, EntriesWereServed
      <3>4. /\ reply[q] # Nothing /\ reply[q].kind = "trajectory"
            /\ QuestionOf(q) \in Cacheable
            /\ CacheKey(QuestionOf(q).system, QuestionOf(q).raw, QuestionOf(q).config)
                 = CacheKey(question.system, question.raw, question.config)
        BY <1>3, <3>3, NothingIsNone DEF AnsweredFor, KeyOfQuestion
      <3> HIDE DEF question
      <3>5. Service!AnsweredBefore(question)
        BY <3>2, <3>4 DEF Service!AnsweredBefore
      <3>6. QED
        BY <3>2, <3>5
    <2>2. Service!Answer(r, answer)
      BY <1>1, <1>4, FinishAnswers
    <2>3. t = Run(question.system, question.raw, question.config)
      BY <1>3 DEF t
    <2>4. QED
      BY <1>2, <1>3, <1>6, <1>7, <2>1, <2>2, <2>3 DEF Service!Serve
  <1>10. Witnessed'
    <2>1. \A key \in Cached(cache') :
              key \in Cached(cache) \/ (key = KeyOf(r) /\ question \in Cacheable)
      <3>1. CASE RunInvalid(r)
        BY <3>1 DEF RunInvalid
      <3>2. CASE Hit(r)
        <4>1. cache'.map = cache.map
          BY <3>2, <1>2, GetKeepsEntries DEF Hit
        <4>2. QED
          BY <4>1 DEF Cached
      <3>3. CASE Store(r)
        <4>1. cache.map \in [Cached(cache) -> Results] /\ Cached(cache) \subseteq Keys
          BY DEF IInv, TypeOK
        <4>2. IsValid(request[r].system, request[r].raw) /\ cache' = Put(cache, KeyOf(r), t)
          BY <3>3 DEF Store, IInv, StageOK, t
        <4>3. KeyOf(r) \in Keys
          BY <1>1, <1>2, <4>2, RequestFacts
        <4>4. Cached(cache') \subseteq Cached(cache) \cup {KeyOf(r)}
          BY <1>2, <1>5, <4>1, <4>2, <4>3, PutEntries
        <4>5. QED
          BY <1>3, <4>2, <4>4
      <3>4. QED
        BY <3>1, <3>2, <3>3
    <2>2. reply'[r] = answer
      BY <1>2, <1>4 DEF Finish, TypeOK
    <2>3. QuestionOf(r)' = QuestionOf(r) /\ Cacheable' = Cacheable
      BY <1>1, QuestionStable DEF Cacheable, Served, Questions, IsValid, Configs
    <2>4. \A key \in Cached(cache') : key \in Cached(cache) \/ AnsweredFor(r, key)'
      BY <1>3, <1>7, <2>1, <2>2, <2>3 DEF AnsweredFor, KeyOfQuestion, CacheKey
    <2>5. /\ Become(r, "done") /\ reply' = [reply EXCEPT ![r] = answer]
      BY <1>4 DEF Finish
    <2> HIDE DEF answer
    <2>6. QED
      BY <1>1, <1>2, <1>8, <2>4, <2>5, StepKeepsWitnesses
  <1>11. QED
    BY <1>9, <1>10

(* The steps that end a request without a trajectory. *)
LEMMA RefusingSteps ==
    ASSUME IInv, Witnessed, NEW r \in Requests,
           ReadFails(r) \/ RefusePoisoned(r) \/ RejectUnknown(r) \/ Panic(r)
    PROVE  (Service!Die(r) \/ Service!TurnAway(r) \/ Service!Reject(r)) /\ Witnessed'
  <1> DEFINE Ends(kind) ==
               /\ Finish(r, [kind |-> kind])
               /\ poisoned' => poisoned \/ kind = "closed"
               /\ kind = "lock poisoned" => poisoned /\ pc[r] = "waiting"
               /\ kind = "unknown system_id" => pc[r] = "locked" /\ ~Known(r)
  <1>1. PICK kind \in {"closed", "lock poisoned", "unknown system_id"} : Ends(kind)
    <2>1. CASE ReadFails(r) \/ Panic(r)
      <3>1. Ends("closed")
        BY <2>1 DEF ReadFails, Panic, Release
      <3>2. QED
        BY <3>1
    <2>2. CASE RefusePoisoned(r)
      <3>1. Ends("lock poisoned")
        BY <2>2 DEF RefusePoisoned
      <3>2. QED
        BY <3>1
    <2>3. CASE RejectUnknown(r)
      <3>1. Ends("unknown system_id")
        BY <2>3 DEF RejectUnknown, Release
      <3>2. QED
        BY <3>1
    <2>4. QED
      BY <2>1, <2>2, <2>3
  <1>2. /\ pc[r] \in {"new", "waiting", "locked", "computing"} /\ cache' = cache
        /\ UNCHANGED <<host, request>>
    BY DEF ReadFails, RefusePoisoned, RejectUnknown, Panic, Release
  <1>3. reply[r] = Nothing /\ request \in [Requests -> Asked \cup {Nothing}]
    BY <1>2 DEF IInv, StageOK, TypeOK
  <1>4. Service!Answer(r, [kind |-> kind])
    BY <1>1, <1>2, FinishAnswers
  <1>5. Service!Die(r) \/ Service!TurnAway(r) \/ Service!Reject(r)
    <2>1. CASE kind = "closed"
      BY <1>3, <1>4, <2>1 DEF Service!Die
    <2>2. CASE kind = "lock poisoned"
      BY <1>1, <1>4, <2>2, StageWaits DEF Service!TurnAway, Witnessed, PoisonHasVictim
    <2>3. CASE kind = "unknown system_id"
      <3>1. QuestionOf(r) \notin Served
        BY <1>1, <2>3, StageWaits, QuestionFacts
      <3>2. QED
        BY <1>1, <1>4, <2>3, <3>1, StageWaits DEF Service!Reject
    <2>4. QED
      BY <2>1, <2>2, <2>3
  <1>6. Witnessed'
    <2>1. [kind |-> kind] \in Replies
      BY PlainAnswer
    <2>2. /\ Become(r, "done") /\ reply' = [reply EXCEPT ![r] = [kind |-> kind]]
          /\ poisoned' => poisoned \/ [kind |-> kind] = [kind |-> "closed"]
      BY <1>1 DEF Finish
    <2>3. /\ request'[r] \in Asked \/ request'[r] = Nothing
          /\ request'[r] = Nothing \/ (host = "tauri" => request'[r].limit # Absent)
      BY <1>2, <1>3 DEF Witnessed, RequestsReadable
    <2>4. \A key \in Cached(cache') : key \in Cached(cache) \/ AnsweredFor(r, key)'
      BY <1>2
    <2>5. pc[r] # "done"
      BY <1>2
    <2>6. QED
      BY <1>2, <2>1, <2>2, <2>3, <2>4, <2>5, StepKeepsWitnesses
  <1>7. QED
    BY <1>5, <1>6

(* A request that arrives is a question asked. *)
LEMMA ReceiveAsks ==
    ASSUME IInv, Witnessed, NEW r \in Requests, Receive(r)
    PROVE  Service!Ask(r)
  <1>1. PICK asked \in Asked :
            /\ host = "tauri" => asked.limit # Absent
            /\ request' = [request EXCEPT ![r] = asked]
    BY QueriesAssumption DEF Receive
  <1>2. pc[r] = "new" /\ reply' = reply /\ host' = host /\ IInv'
    BY ReceiveInv DEF Receive
  <1>3. reply[r] = Nothing /\ request[r] = Nothing
    BY <1>2 DEF IInv, StageOK, Witnessed, RequestsReadable
  <1>4. request \in [Requests -> Asked \cup {Nothing}]
    BY DEF IInv, TypeOK
  <1>5. QuestionOf(r)' \in Questions
    <2>1. request'[r] = asked
      BY <1>1, <1>4
    <2>2. host' \in {"http", "tauri"}
      BY <1>2 DEF IInv, TypeOK
    <2>3. request[r]' \in Asked /\ (host' = "tauri" => request[r]'.limit # Absent)
      BY <1>1, <1>2, <2>1
    <2>4. ConfigOf(r)' \in Configs
      <3>1. request[r]'.limit \in Limits \cup {Absent} /\ request[r]'.bound \in Bounds
        BY <2>3 DEF Asked
      <3>2. QED
        BY <2>2, <2>3, <3>1 DEF ConfigOf, Configs
    <2>5. request[r]'.system \in Systems \cup UnknownIds /\ request[r]'.raw \in Raws
      BY <2>3 DEF Asked
    <2>6. QuestionOf(r)' = [system |-> request[r]'.system, raw |-> request[r]'.raw,
                            config |-> ConfigOf(r)']
      BY <2>3, NothingIsNone DEF QuestionOf, Nothing
    <2>7. Questions' = Questions
      BY DEF Questions, Configs
    <2>8. QED
      BY <2>4, <2>5, <2>6 DEF Questions
  <1>6. \A q \in Requests : q # r => QuestionOf(q)' = QuestionOf(q)
    BY <1>1, <1>2, <1>4, QuestionStable
  <1>7. [q \in Requests |-> QuestionOf(q)]'
          = [[q \in Requests |-> QuestionOf(q)] EXCEPT ![r] = QuestionOf(r)']
    BY <1>6
  <1>8. QuestionOf(r) = Nothing
    BY <1>3 DEF QuestionOf
  <1>9. QED
    BY <1>2, <1>3, <1>5, <1>7, <1>8 DEF Service!Ask

(* Every step of a host is a step of the service, or shows nothing of it. *)
LEMMA StepServes ==
    ASSUME IInv, Witnessed, [Next]_vars
    PROVE  Witnessed' /\ [Service!Next]_(Service!serviceVars)
  <1>1. CASE UNCHANGED vars
    <2>1. UNCHANGED <<host, cache, lock, poisoned, pc, request, reply>>
      BY <1>1 DEF vars
    <2>2. \A r \in Requests : QuestionOf(r)' = QuestionOf(r)
      BY <2>1, QuestionStable
    <2>3. \A r \in Requests : \A key : AnsweredFor(r, key)' <=> AnsweredFor(r, key)
      BY <2>1, WitnessKept
    <2>4. Cached(cache') = Cached(cache)
      BY <2>1
    <2>5. EntriesWereServed'
      <3>1. \A key \in Cached(cache') : \E r \in Requests : AnsweredFor(r, key)'
        BY <2>3, <2>4 DEF Witnessed, EntriesWereServed
      <3>2. QED
        BY <3>1 DEF EntriesWereServed, AnsweredFor, QuestionOf, ConfigOf, KeyOfQuestion, CacheKey
    <2>6. PoisonHasVictim' /\ RequestsReadable'
      BY <2>1 DEF Witnessed, PoisonHasVictim, RequestsReadable
    <2>7. QED
      BY <2>1, <2>2, <2>5, <2>6 DEF Witnessed, Service!serviceVars
  <1>2. ASSUME NEW r \in Requests, Receive(r) \/ ReadFails(r) \/ Progress(r) \/ Panic(r)
        PROVE  Witnessed' /\ [Service!Next]_(Service!serviceVars)
    <2>1. CASE Receive(r)
      BY <2>1, ReceiveAsks, QuietStepsWitnessed DEF Service!Next
    <2>2. CASE Lock(r) \/ Miss(r)
      <3>1. reply' = reply /\ \A q \in Requests : QuestionOf(q)' = QuestionOf(q)
        BY <2>2, QuestionStable DEF Lock, Miss
      <3>2. QED
        BY <2>2, <3>1, QuietStepsWitnessed DEF Service!serviceVars
    <2>3. CASE RunInvalid(r) \/ Hit(r) \/ Store(r)
      BY <2>3, ServingSteps DEF Service!Next
    <2>4. CASE ReadFails(r) \/ RefusePoisoned(r) \/ RejectUnknown(r) \/ Panic(r)
      BY <2>4, RefusingSteps DEF Service!Next
    <2>5. QED
      BY <1>2, <2>1, <2>2, <2>3, <2>4 DEF Progress
  <1>3. CASE AllServed
    BY <1>1, <1>3 DEF AllServed
  <1>4. QED
    BY <1>1, <1>2, <1>3 DEF Next

(* Both hosts, with their one lock, their cache and their panics, implement *)
(* the service that answers each question at one instant as a fresh run     *)
(* would (main.rs, run_engine; commands/mod.rs, run_trajectory).            *)
THEOREM Implementation == Spec => ImplementsService
  <1>1. Init => Service!Init
    BY DEF Init, QuestionOf, Service!Init
  <1>2. QED
    BY <1>1, InitWitnessed, Invariance, StepServes, PTL
    DEF Spec, ImplementsService, Service!Spec
=============================================================================
