------------------------ MODULE SchemaMigrationProofs ------------------------
(***************************************************************************)
(* Proofs about the walk of MigrationRegistry::migrate, for any versions,  *)
(* any target and any number of migrations registered in any order: the    *)
(* bound on its steps, one per migration and one more, never costs a       *)
(* document its target.                                                    *)
(***************************************************************************)
EXTENDS SchemaMigration, SequenceTheorems, FiniteSetTheorems, TLAPS

Deadends == {"no version", "no migration", "failed", "did not advance"}

TypeOK ==
    /\ registry \in Seq(Migrations)
    /\ origin \in Versions \cup {NoVersion} /\ version \in Versions \cup {NoVersion}
    /\ target \in Versions
    /\ left \in Nat
    /\ outcome \in {"registering", "walking", "migrated", "gave up"} \cup Deadends

(* The walk cannot leave a set that is closed but at the target. *)
Led ==
    /\ origin = NoVersion <=> version = NoVersion
    /\ \A S \in SUBSET Versions :
          origin \in S /\ Closed(S) /\ target \notin S => version \in S

(* V is what was visited on the way from the origin to a version. *)
VisitedTo(V, to) ==
    /\ V \in SUBSET (Versions \ {target})
    /\ origin \in V \cup {to}
    /\ \A v \in V : \A w \in Versions : LeadsTo(v, w) => w \in V \cup {to}

(* Versions that lead to one another and never to the target. *)
LoopWith(S, v) ==
    /\ S \in SUBSET (Versions \ {target})
    /\ v \in S
    /\ Closed(S)
    /\ \A u \in S : \E w \in S \ {u} : LeadsTo(u, w)

(* f is a walk of k steps to a version, on which none occurs twice. *)
WalkTo(f, k, v) ==
    /\ f \in [0 .. k -> Versions]
    /\ f[k] = v
    /\ \A m \in 0 .. k - 1 : f[m] # target /\ LeadsTo(f[m], f[m + 1])
    /\ \A m, n \in 0 .. k : f[m] = f[n] => m = n

(* As many different versions as steps taken, unless the walk is in a loop. *)
Progressing ==
    /\ left <= MaxSteps
    /\ version = NoVersion => left = MaxSteps
    /\ version # NoVersion =>
          \/ \E S : LoopWith(S, version)
          \/ \E f : WalkTo(f, MaxSteps - left, version)

(* Where the walk stopped, the document has nowhere to go. *)
Stuck ==
    version # NoVersion =>
        version # target /\ \A w \in Versions : LeadsTo(version, w) => w = version

IInv ==
    /\ TypeOK
    /\ outcome # "registering" =>
          Led /\ (\E V : VisitedTo(V, version)) /\ Progressing
    /\ outcome = "migrated" => version = target
    /\ outcome = "gave up" => \E S : LoopWith(S, version)
    /\ outcome \in Deadends => Stuck

-----------------------------------------------------------------------------
LEMMA RegistryType ==
    ASSUME TypeOK
    PROVE  /\ Len(registry) \in Nat /\ DOMAIN registry = 1 .. Len(registry)
           /\ \A i \in DOMAIN registry : registry[i] \in Migrations
  <1>1. registry \in Seq(Migrations)
    BY DEF TypeOK
  <1>2. Len(registry) \in Nat /\ registry \in [1 .. Len(registry) -> Migrations]
    BY <1>1, LenProperties
  <1>3. QED
    BY <1>2

(* Only the first migration registered from a version is ever used. *)
LEMMA OneSuccessor ==
    ASSUME TypeOK, NEW v, NEW a, NEW b, LeadsTo(v, a), LeadsTo(v, b)
    PROVE  a = b
  <1>1. PICK i \in DOMAIN registry :
          /\ registry[i] = [from |-> v, to |-> a]
          /\ \A j \in 1 .. i - 1 : registry[j].from # v
    BY DEF LeadsTo
  <1>2. PICK k \in DOMAIN registry :
          /\ registry[k] = [from |-> v, to |-> b]
          /\ \A j \in 1 .. k - 1 : registry[j].from # v
    BY DEF LeadsTo
  <1>3. i \in 1 .. Len(registry) /\ k \in 1 .. Len(registry) /\ Len(registry) \in Nat
    BY RegistryType
  <1>4. registry[i].from = v /\ registry[k].from = v
    BY <1>1, <1>2
  <1>5. ~(i < k) /\ ~(k < i)
    BY <1>1, <1>2, <1>3, <1>4
  <1>6. i = k
    BY <1>3, <1>5
  <1>7. [from |-> v, to |-> a].to = [from |-> v, to |-> b].to
    BY <1>1, <1>2, <1>6
  <1>8. QED
    BY <1>7

(* The migration that find returns is where the version leads. *)
LEMMA FoundLeads ==
    ASSUME TypeOK, NEW i, Found(i)
    PROVE  i \in DOMAIN registry /\ LeadsTo(version, registry[i].to)
  <1>1. i \in DOMAIN registry /\ registry[i].from = version
    BY DEF Found, From
  <1>2. registry[i] \in Migrations /\ i \in 1 .. Len(registry) /\ Len(registry) \in Nat
    BY <1>1, RegistryType
  <1>3. registry[i] = [from |-> version, to |-> registry[i].to]
    BY <1>1, <1>2 DEF Migrations
  <1>4. ASSUME NEW j \in 1 .. i - 1 PROVE registry[j].from # version
    <2>1. j \in DOMAIN registry /\ ~(i <= j)
      BY <1>2, <1>4, RegistryType
    <2>2. QED
      BY <2>1 DEF Found, From
  <1>5. QED
    BY <1>1, <1>3, <1>4 DEF LeadsTo

(* With nothing registered from a version it leads nowhere. *)
LEMMA NoneLeads ==
    ASSUME TypeOK, From = {}, NEW w
    PROVE  ~LeadsTo(version, w)
  <1>1. SUFFICES ASSUME NEW i \in DOMAIN registry,
                        registry[i] = [from |-> version, to |-> w]
                 PROVE  FALSE
    BY DEF LeadsTo
  <1>2. registry[i].from = version
    BY <1>1
  <1>3. QED
    BY <1>2 DEF From

(* While the registry stays, so does what the walk is about. *)
LEMMA Kept ==
    ASSUME UNCHANGED <<registry, origin, target>>
    PROVE  /\ \A v, w : LeadsTo(v, w)' <=> LeadsTo(v, w)
           /\ \A S : Closed(S)' <=> Closed(S)
           /\ \A V, v : VisitedTo(V, v)' <=> VisitedTo(V, v)
           /\ \A S, v : LoopWith(S, v)' <=> LoopWith(S, v)
           /\ \A f, k, v : WalkTo(f, k, v)' <=> WalkTo(f, k, v)
           /\ MaxSteps' = MaxSteps
  <1>1. \A v, w : LeadsTo(v, w)' <=> LeadsTo(v, w)
    BY DEF LeadsTo
  <1>2. \A S : Closed(S)' <=> Closed(S)
    BY <1>1 DEF Closed
  <1>3. \A V, v : VisitedTo(V, v)' <=> VisitedTo(V, v)
    BY <1>1 DEF VisitedTo
  <1>4. \A S, v : LoopWith(S, v)' <=> LoopWith(S, v)
    BY <1>1, <1>2 DEF LoopWith
  <1>5. \A f, k, v : WalkTo(f, k, v)' <=> WalkTo(f, k, v)
    BY <1>1 DEF WalkTo
  <1>6. QED
    BY <1>1, <1>2, <1>3, <1>4, <1>5 DEF MaxSteps

-----------------------------------------------------------------------------
(* A loop keeps the walk. *)
LEMMA LoopStays ==
    ASSUME NEW S, NEW v, NEW w \in Versions, LoopWith(S, v), LeadsTo(v, w)
    PROVE  LoopWith(S, w)
  <1>1. v \in S \ {target} /\ Closed(S)
    BY DEF LoopWith
  <1>2. w \in S
    BY <1>1 DEF Closed
  <1>3. QED
    BY <1>2 DEF LoopWith

(* A step to a version not met before makes a longer walk. *)
LEMMA WalkGrows ==
    ASSUME NEW k \in Nat, NEW f, NEW v, NEW w \in Versions,
           WalkTo(f, k, v), LeadsTo(v, w), v # target, \A m \in 0 .. k : f[m] # w
    PROVE  \E g : WalkTo(g, k + 1, w)
  <1> DEFINE g == [m \in 0 .. k + 1 |-> IF m = k + 1 THEN w ELSE f[m]]
  <1>1. /\ f \in [0 .. k -> Versions] /\ f[k] = v
        /\ \A m \in 0 .. k - 1 : f[m] # target /\ LeadsTo(f[m], f[m + 1])
        /\ \A m, n \in 0 .. k : f[m] = f[n] => m = n
    BY DEF WalkTo
  <1>2. /\ g \in [0 .. k + 1 -> Versions] /\ g[k + 1] = w
        /\ \A m \in 0 .. k : g[m] = f[m]
    BY <1>1
  <1> HIDE DEF g
  <1>3. ASSUME NEW m \in 0 .. (k + 1) - 1 PROVE g[m] # target /\ LeadsTo(g[m], g[m + 1])
    <2>1. CASE m = k
      BY <1>1, <1>2, <2>1
    <2>2. CASE m # k
      <3>1. m \in 0 .. k - 1 /\ m \in 0 .. k /\ m + 1 \in 0 .. k
        BY <2>2
      <3>2. QED
        BY <1>1, <1>2, <3>1
    <2>3. QED
      BY <2>1, <2>2
  <1>4. ASSUME NEW m \in 0 .. k + 1, NEW n \in 0 .. k + 1, g[m] = g[n] PROVE m = n
    <2>1. \A p \in 0 .. k + 1 : p # k + 1 => p \in 0 .. k
      OBVIOUS
    <2>2. QED
      BY <1>1, <1>2, <1>4, <2>1
  <1>5. WalkTo(g, k + 1, w)
    BY <1>2, <1>3, <1>4 DEF WalkTo
  <1>6. QED
    BY <1>5

(* A step back to a version of the walk closes a loop. *)
LEMMA WalkCloses ==
    ASSUME TypeOK, NEW k \in Nat, NEW f, NEW v, NEW w \in Versions,
           WalkTo(f, k, v), LeadsTo(v, w), v # target, w # v,
           NEW j \in 0 .. k, f[j] = w
    PROVE  \E S : LoopWith(S, w)
  <1> DEFINE S == {f[m] : m \in j .. k}
  <1>1. /\ f \in [0 .. k -> Versions] /\ f[k] = v
        /\ \A m \in 0 .. k - 1 : f[m] # target /\ LeadsTo(f[m], f[m + 1])
        /\ \A m, n \in 0 .. k : f[m] = f[n] => m = n
    BY DEF WalkTo
  <1>2. j < k /\ j \in j .. k /\ k \in j .. k /\ \A m \in j .. k : m \in 0 .. k
    BY <1>1
  <1>3. S \in SUBSET (Versions \ {target})
    <2>1. \A m \in j .. k : f[m] \in Versions /\ f[m] # target
      BY <1>1, <1>2
    <2>2. QED
      BY <2>1
  <1>4. ASSUME NEW m \in j .. k PROVE \E u \in S \ {f[m]} : LeadsTo(f[m], u)
    <2>1. CASE m = k
      <3>1. w \in S \ {f[m]} /\ LeadsTo(f[m], w)
        BY <1>1, <1>2, <2>1
      <3>2. QED
        BY <3>1
    <2>2. CASE m # k
      <3>1. m \in 0 .. k - 1 /\ m + 1 \in j .. k /\ m \in 0 .. k /\ m + 1 \in 0 .. k /\ m + 1 # m
        BY <1>2, <2>2
      <3>2. f[m + 1] \in S \ {f[m]} /\ LeadsTo(f[m], f[m + 1])
        BY <1>1, <3>1
      <3>3. QED
        BY <3>2
    <2>3. QED
      BY <2>1, <2>2
  <1>5. w \in S
    BY <1>2
  <1>6. \A u \in S : \E x \in S \ {u} : LeadsTo(u, x)
    BY <1>4
  <1> HIDE DEF S
  <1>7. Closed(S)
    <2>1. SUFFICES ASSUME NEW u \in S, NEW x \in Versions \ S, LeadsTo(u, x) PROVE FALSE
      BY DEF Closed
    <2>2. PICK y \in S \ {u} : LeadsTo(u, y)
      BY <1>6
    <2>3. x = y
      BY <2>1, <2>2, OneSuccessor
    <2>4. QED
      BY <2>3
  <1>8. LoopWith(S, w)
    BY <1>3, <1>5, <1>6, <1>7 DEF LoopWith
  <1>9. QED
    BY <1>8

(* A walk that never meets a version twice has no more steps than there    *)
(* are migrations: each step uses another one.                             *)
LEMMA WalkIsShort ==
    ASSUME TypeOK, NEW f, NEW v, WalkTo(f, Len(registry) + 1, v)
    PROVE  FALSE
  <1> DEFINE n == Len(registry)
             Used(m) == CHOOSE i \in 1 .. n : registry[i].from = f[m]
             used == [m \in 0 .. n |-> Used(m)]
  <1>1. n \in Nat /\ DOMAIN registry = 1 .. n
    BY RegistryType
  <1>2. ASSUME NEW m \in 0 .. n PROVE \E i \in 1 .. n : registry[i].from = f[m]
    <2>1. m \in 0 .. (n + 1) - 1
      BY <1>1
    <2>2. LeadsTo(f[m], f[m + 1])
      BY <2>1 DEF WalkTo
    <2>3. PICK i \in 1 .. n : registry[i] = [from |-> f[m], to |-> f[m + 1]]
      BY <1>1, <2>2 DEF LeadsTo
    <2>4. registry[i].from = f[m]
      BY <2>3
    <2>5. QED
      BY <2>4
  <1>3. \A m \in 0 .. n : used[m] \in 1 .. n /\ registry[used[m]].from = f[m]
    BY <1>2
  <1>4. used \in [0 .. n -> 1 .. n]
    BY <1>3
  <1> HIDE DEF used
  <1>5. /\ IsFiniteSet(0 .. n) /\ Cardinality(0 .. n) = n + 1
        /\ IsFiniteSet(1 .. n) /\ Cardinality(1 .. n) = n
    <2>1. IsFiniteSet(0 .. n) /\ Cardinality(0 .. n) = IF 0 > n THEN 0 ELSE n - 0 + 1
      BY <1>1, FS_Interval
    <2>2. IsFiniteSet(1 .. n) /\ Cardinality(1 .. n) = IF 1 > n THEN 0 ELSE n - 1 + 1
      BY <1>1, FS_Interval, SMTT(30)
    <2>3. QED
      BY <1>1, <2>1, <2>2
  <1>6. Cardinality(1 .. n) < Cardinality(0 .. n)
    BY <1>1, <1>5
  <1>7. PICK x, y \in 0 .. n : x # y /\ used[x] = used[y]
    BY <1>4, <1>5, <1>6, FS_PigeonHole
  <1>8. f[x] = f[y]
    BY <1>3, <1>7
  <1>9. x \in 0 .. n + 1 /\ y \in 0 .. n + 1
    BY <1>1
  <1>10. QED
    BY <1>7, <1>8, <1>9 DEF WalkTo

-----------------------------------------------------------------------------
LEMMA InitInv == Init => IInv
  <1>1. <<>> \in Seq(Migrations)
    BY EmptySeq
  <1>2. QED
    BY <1>1 DEF Init, IInv, TypeOK, Deadends

LEMMA RegisterInv ==
    ASSUME IInv, NEW m \in Migrations, Register(m)
    PROVE  IInv'
  <1>1. Append(registry, m) \in Seq(Migrations)
    BY AppendProperties DEF IInv, TypeOK
  <1>2. TypeOK'
    BY <1>1 DEF IInv, TypeOK, Register
  <1>3. outcome' = "registering"
    BY DEF Register
  <1>4. QED
    BY <1>2, <1>3 DEF IInv, Deadends

(* The walk begins where it is, with a step for each migration and one more. *)
LEMMA MigrateInv ==
    ASSUME IInv, NEW document \in Versions \cup {NoVersion}, Migrate(document)
    PROVE  IInv'
  <1>1. /\ origin' = document /\ version' = document /\ left' = MaxSteps /\ outcome' = "walking"
        /\ UNCHANGED <<registry, target>> /\ TypeOK
    BY DEF Migrate, IInv
  <1>2. MaxSteps \in Nat /\ MaxSteps' = MaxSteps
    BY <1>1, RegistryType DEF MaxSteps
  <1>3. TypeOK'
    BY <1>1, <1>2 DEF TypeOK
  <1>4. Led'
    BY <1>1 DEF Led
  <1>5. VisitedTo({}, version)'
    BY <1>1 DEF VisitedTo
  <1>6. Progressing'
    <2>1. ASSUME document # NoVersion PROVE \E f : WalkTo(f, 0, document)'
      <3> DEFINE f == [m \in 0 .. 0 |-> document]
      <3>1. f \in [0 .. 0 -> Versions] /\ f[0] = document
        BY <2>1
      <3>2. \A m \in 0 .. 0 : m = 0
        OBVIOUS
      <3> HIDE DEF f
      <3>3. WalkTo(f, 0, document)'
        BY <3>1, <3>2 DEF WalkTo
      <3>4. QED
        BY <3>3
    <2>2. MaxSteps' - left' = 0 /\ left' <= MaxSteps' /\ left' = MaxSteps'
      BY <1>1, <1>2
    <2>3. version' # NoVersion => \E f : WalkTo(f, MaxSteps - left, version)'
      BY <1>1, <2>1, <2>2
    <2>4. QED
      BY <2>2, <2>3 DEF Progressing
  <1>7. QED
    BY <1>1, <1>3, <1>4, <1>5, <1>6 DEF IInv, Deadends

(* What migrate returns changes nothing else. *)
LEMMA ReturnInv ==
    ASSUME IInv, outcome = "walking", NEW how, Return(how),
           \/ how = "migrated" /\ version = target
           \/ how = "gave up" /\ (\E S : LoopWith(S, version))
           \/ how \in Deadends /\ Stuck
    PROVE  IInv'
  <1>1. UNCHANGED <<registry, origin, target, version, left>> /\ outcome' = how
    BY DEF Return
  <1>2. TypeOK /\ Led /\ (\E V : VisitedTo(V, version)) /\ Progressing
    BY DEF IInv
  <1>3. TypeOK'
    BY <1>1, <1>2 DEF TypeOK, Deadends
  <1>4. Led'
    BY <1>1, <1>2, Kept DEF Led
  <1>5. \E V : VisitedTo(V, version)'
    BY <1>1, <1>2, Kept
  <1>6. Progressing'
    BY <1>1, <1>2, Kept DEF Progressing
  <1>7. how = "migrated" => (version = target)'
    BY <1>1 DEF Deadends
  <1>8. how = "gave up" => \E S : LoopWith(S, version)'
    BY <1>1, Kept DEF Deadends
  <1>9. how \in Deadends => Stuck'
    BY <1>1, Kept DEF Stuck, Deadends
  <1>10. QED
    BY <1>1, <1>3, <1>4, <1>5, <1>6, <1>7, <1>8, <1>9 DEF IInv

(* The steps that return before a migration is applied. *)
LEMMA StopsInv ==
    ASSUME IInv, MissingVersion \/ Reached \/ NoMigration
    PROVE  IInv'
  <1>1. CASE MissingVersion
    BY <1>1, ReturnInv DEF MissingVersion, Iterating, Stuck, Deadends
  <1>2. CASE Reached
    BY <1>2, ReturnInv DEF Reached, Iterating
  <1>3. CASE NoMigration
    <2>1. Stuck
      BY <1>3, NoneLeads DEF NoMigration, Stuck, IInv
    <2>2. QED
      BY <1>3, <2>1, ReturnInv DEF NoMigration, Iterating, Deadends
  <1>4. QED
    BY <1>1, <1>2, <1>3

(* When no step is left the walk is in a loop. *)
LEMMA ExhaustedInv ==
    ASSUME IInv, Exhausted
    PROVE  IInv'
  <1>1. outcome = "walking" /\ left = 0 /\ Return("gave up") /\ TypeOK /\ Progressing
    BY DEF Exhausted, IInv
  <1>2. MaxSteps = Len(registry) + 1 /\ Len(registry) \in Nat
    BY <1>1, RegistryType DEF MaxSteps
  <1>3. version # NoVersion /\ MaxSteps - left = Len(registry) + 1
    <2>1. version = NoVersion => left = MaxSteps
      BY <1>1 DEF Progressing
    <2>2. left # MaxSteps /\ MaxSteps - left = Len(registry) + 1
      <3>1. left = 0
        BY <1>1
      <3>2. \A n \in Nat : 0 # n + 1 /\ (n + 1) - 0 = n + 1
        OBVIOUS
      <3>3. QED
        BY <1>2, <3>1, <3>2
    <2>3. QED
      BY <2>1, <2>2
  <1>4. \A f : ~WalkTo(f, Len(registry) + 1, version)
    BY <1>1, WalkIsShort
  <1>5. \E S : LoopWith(S, version)
    BY <1>1, <1>3, <1>4 DEF Progressing
  <1>6. QED
    BY <1>1, <1>5, ReturnInv

(* A step of the walk: what was visited grows, and a walk that meets a     *)
(* version again has entered a loop.                                       *)
LEMMA AdvanceInv ==
    ASSUME IInv, outcome = "walking", left > 0, version \notin {NoVersion, target},
           NEW to \in Versions \ {version}, LeadsTo(version, to),
           version' = to, left' = left - 1, UNCHANGED <<registry, origin, target, outcome>>
    PROVE  IInv'
  <1>1. TypeOK /\ Led /\ (\E V : VisitedTo(V, version)) /\ Progressing
    BY DEF IInv
  <1>2. version \in Versions /\ to # NoVersion /\ left \in Nat /\ left - 1 \in Nat
    BY <1>1, MarksAssumption DEF TypeOK
  <1>3. TypeOK'
    BY <1>1, <1>2 DEF TypeOK
  <1>4. Led'
    <2>1. (origin = NoVersion <=> version = NoVersion)'
      BY <1>1, <1>2 DEF Led
    <2>2. ASSUME NEW S \in SUBSET Versions, origin \in S, Closed(S), target \notin S
          PROVE  to \in S
      <3>1. version \in S
        BY <1>1, <2>2 DEF Led
      <3>2. QED
        BY <2>2, <3>1 DEF Closed
    <2>3. QED
      BY <2>1, <2>2, Kept DEF Led
  <1>5. \E V : VisitedTo(V, version)'
    <2>1. PICK V : VisitedTo(V, version)
      BY <1>1
    <2>2. \A w \in Versions : LeadsTo(version, w) => w = to
      BY <1>1, OneSuccessor
    <2>3. VisitedTo(V \cup {version}, to)
      BY <1>2, <2>1, <2>2 DEF VisitedTo
    <2>4. QED
      BY <2>3, Kept
  <1>6. Progressing'
    <2>1. MaxSteps \in Nat /\ MaxSteps' = MaxSteps
      BY <1>1, RegistryType, Kept DEF MaxSteps
    <2> DEFINE k == MaxSteps - left
    <2>2. k \in Nat /\ MaxSteps' - left' = k + 1 /\ left' <= MaxSteps'
      BY <1>1, <1>2, <2>1 DEF Progressing
    <2> HIDE DEF k
    <2>3. (\E S : LoopWith(S, to)) \/ (\E f : WalkTo(f, k + 1, to))
      <3>1. CASE \E S : LoopWith(S, version)
        BY <3>1, LoopStays
      <3>2. CASE \E f : WalkTo(f, k, version)
        <4>1. PICK f : WalkTo(f, k, version)
          BY <3>2
        <4>2. CASE \A m \in 0 .. k : f[m] # to
          BY <2>2, <4>1, <4>2, WalkGrows
        <4>3. CASE \E m \in 0 .. k : f[m] = to
          BY <1>1, <2>2, <4>1, <4>3, WalkCloses
        <4>4. QED
          BY <4>2, <4>3
      <3>3. QED
        BY <1>1, <1>2, <3>1, <3>2 DEF Progressing, k
    <2>4. (\E S : LoopWith(S, version)') \/ (\E f : WalkTo(f, MaxSteps - left, version)')
      BY <2>2, <2>3, Kept
    <2>5. version' # NoVersion
      BY <1>2
    <2>6. QED
      BY <2>2, <2>4, <2>5 DEF Progressing
  <1>7. QED
    BY <1>3, <1>4, <1>5, <1>6 DEF IInv, Deadends

LEMMA ApplyInv ==
    ASSUME IInv, NEW i \in DOMAIN registry, Apply(i)
    PROVE  IInv'
  <1> DEFINE to == registry[i].to
  <1>1. /\ outcome = "walking" /\ left > 0 /\ version \notin {NoVersion, target} /\ Found(i)
        /\ TypeOK
    BY DEF Apply, Iterating, IInv
  <1>2. LeadsTo(version, to)
    BY <1>1, FoundLeads
  <1>3. \A w \in Versions : LeadsTo(version, w) => w = to
    BY <1>1, <1>2, OneSuccessor
  <1>4. CASE to = Fails /\ Return("failed")
    BY <1>1, <1>3, <1>4, MarksAssumption, ReturnInv DEF Stuck, Deadends
  <1>5. CASE to = NoVersion /\ Return("no version")
    BY <1>1, <1>3, <1>5, MarksAssumption, ReturnInv DEF Stuck, Deadends
  <1>6. CASE to = version /\ Return("did not advance")
    BY <1>1, <1>3, <1>6, ReturnInv DEF Stuck, Deadends
  <1>7. CASE /\ to \in Versions \ {version} /\ version' = to /\ left' = left - 1
             /\ UNCHANGED <<registry, origin, target, outcome>>
    BY <1>1, <1>2, <1>7, AdvanceInv
  <1>8. QED
    BY <1>4, <1>5, <1>6, <1>7 DEF Apply

(* The invariant holds of every walk through every registry. *)
THEOREM Invariance == Spec => []IInv
  <1>1. ASSUME IInv, UNCHANGED vars PROVE IInv'
    <2>1. UNCHANGED <<registry, origin, target, version, left, outcome>>
      BY <1>1 DEF vars
    <2>2. TypeOK'
      BY <1>1, <2>1 DEF IInv, TypeOK
    <2>3. Led => Led'
      BY <2>1, Kept DEF Led
    <2>4. (\E V : VisitedTo(V, version)) => \E V : VisitedTo(V, version)'
      BY <2>1, Kept
    <2>5. Progressing => Progressing'
      BY <2>1, Kept DEF Progressing
    <2>6. (\E S : LoopWith(S, version)) => \E S : LoopWith(S, version)'
      BY <2>1, Kept
    <2>7. Stuck => Stuck'
      BY <2>1, Kept DEF Stuck
    <2>8. QED
      BY <1>1, <2>1, <2>2, <2>3, <2>4, <2>5, <2>6, <2>7 DEF IInv, Deadends
  <1>2. ASSUME IInv, Next PROVE IInv'
    BY <1>1, <1>2, RegisterInv, MigrateInv, StopsInv, ApplyInv, ExhaustedInv
       DEF Next, Returned
  <1>3. QED
    BY InitInv, <1>1, <1>2, PTL DEF Spec

(* migrate gives up only where versions lead to one another for ever       *)
(* (migration.rs:95), however many migrations there are.                   *)
THEOREM LoopsOnly == Spec => []GivesUpOnlyOnALoop
  <1>1. ASSUME IInv PROVE GivesUpOnlyOnALoop
    BY <1>1 DEF IInv, GivesUpOnlyOnALoop, LoopWith
  <1>2. QED
    BY Invariance, <1>1, PTL

(* migrate succeeds exactly when the first migrations registered lead from *)
(* the document to the target: no chain is too long for its bound.         *)
THEOREM TargetFound == Spec => []FindsTheTarget
  <1>1. ASSUME IInv, outcome \notin {"registering", "walking"}
        PROVE  outcome = "migrated" <=> Reachable
    <2>1. TypeOK /\ Led /\ (\E V : VisitedTo(V, version))
      BY <1>1 DEF IInv
    <2>2. ASSUME outcome = "migrated" PROVE Reachable
      <3>1. version = target /\ origin \in Versions
        BY <1>1, <2>1, <2>2, MarksAssumption DEF IInv, TypeOK, Led
      <3>2. QED
        BY <2>1, <3>1 DEF Led, Reachable
    <2>3. ASSUME outcome # "migrated", Reachable PROVE FALSE
      <3>1. PICK V : VisitedTo(V, version)
        BY <2>1
      <3>2. origin \in Versions /\ version \in Versions /\ version # NoVersion
        BY <2>1, <2>3, MarksAssumption DEF Reachable, TypeOK, Led
      <3>3. \E S : S \in SUBSET (Versions \ {target}) /\ version \in S /\ Closed(S)
        <4>1. CASE outcome = "gave up"
          BY <1>1, <4>1 DEF IInv, LoopWith
        <4>2. CASE outcome \in Deadends
          <5>1. version # target /\ \A w \in Versions : LeadsTo(version, w) => w = version
            BY <1>1, <3>2, <4>2 DEF IInv, Stuck
          <5>2. Closed({version})
            BY <5>1 DEF Closed
          <5>3. QED
            BY <3>2, <5>1, <5>2
        <4>3. QED
          BY <1>1, <2>1, <2>3, <4>1, <4>2 DEF TypeOK
      <3>4. PICK S : S \in SUBSET (Versions \ {target}) /\ version \in S /\ Closed(S)
        BY <3>3
      <3>5. Closed(V \cup S)
        <4>1. SUFFICES ASSUME NEW v \in V \cup S, NEW w \in Versions \ (V \cup S),
                              LeadsTo(v, w)
                       PROVE  FALSE
          BY DEF Closed
        <4>2. CASE v \in S
          BY <3>4, <4>1, <4>2 DEF Closed
        <4>3. CASE v \in V
          BY <3>1, <3>4, <4>1, <4>3 DEF VisitedTo
        <4>4. QED
          BY <4>1, <4>2, <4>3
      <3>6. /\ V \cup S \in SUBSET Versions /\ origin \in V \cup S /\ target \notin V \cup S
        BY <3>1, <3>4 DEF VisitedTo
      <3>7. QED
        BY <2>3, <3>5, <3>6 DEF Reachable
    <2>4. QED
      BY <2>2, <2>3
  <1>2. IInv => FindsTheTarget
    BY <1>1 DEF FindsTheTarget
  <1>3. QED
    BY Invariance, <1>2, PTL
=============================================================================
