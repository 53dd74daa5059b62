---------------------------- MODULE RngLifecycle ----------------------------
(***************************************************************************)
(* The forward-secure generators of statelab-crypto (generator.rs) put     *)
(* through the process lifecycles of lifecycle.rs: processes that boot,    *)
(* fork, are restored from a snapshot, are handed entropy, and draw output *)
(* in any order.                                                           *)
(*                                                                         *)
(* Data is symbolic and comes in units of 32 bytes, the size of a key and  *)
(* of the collision window.  ChaCha20 is a function without collisions:    *)
(* unit `index` of the keystream under a key is the key's seed, the number *)
(* of ratchets since, and the index.  Unit 0 becomes the next key.         *)
(***************************************************************************)
EXTENDS Naturals, Sequences, SequencesExt

CONSTANTS BufferUnits,    \* buffer_bytes / 32
          ReseedUnits,    \* the same for the generator a reseed builds, 256 / 32
          Sizes,          \* units asked for by one fill
          MaxInstances,   \* bound on the processes and copies
          MaxSeeds,       \* bound on the seeds the kernel hands out
          MaxOutput       \* bound on the units an instance draws

ASSUME UnitsAssumption ==
    /\ BufferUnits \in Nat /\ BufferUnits >= 2
    /\ ReseedUnits \in Nat /\ ReseedUnits >= 2
    /\ Sizes \subseteq Nat \ {0}
    /\ {MaxInstances, MaxSeeds, MaxOutput} \subseteq Nat

Instances == 1 .. MaxInstances
NoSeed == 0
Erased == [erased |-> TRUE]

VARIABLES construction,  \* "naive", "fke" (fast key erasure) or "wipe"
          booted,        \* instances 1 .. booted exist
          seeds,         \* seeds 1 .. seeds have been handed out
          rng,           \* rng[i]: the state of an instance
          want,          \* want[i]: units the fill in progress still owes
          out,           \* out[i]: the units it has drawn, oldest first
          past,          \* past[i]: what its ancestors drew before the copy
          family         \* family[i]: whose unannotated copy it is

vars == <<construction, booted, seeds, rng, want, out, past, family>>

Unit(seed, ratchets, index) == [seed |-> seed, ratchets |-> ratchets, index |-> index]

-----------------------------------------------------------------------------
(* FastKeyErasureRng::new: an empty buffer, so that the first fill refills. *)
(* The fields below pos are those of WipeOnForkRng, unused by the others.   *)
New(seed, units) ==
    [seed |-> seed, ratchets |-> 0,
     buffer |-> [p \in 1 .. units |-> Erased], pos |-> units,
     marker |-> TRUE, fresh |-> NoSeed, flagged |-> FALSE]

(* Mutations of Refill: the key is not ratcheted; it stays in the buffer. *)
RefillSameKey(g) ==
    [g EXCEPT !.buffer = [p \in DOMAIN g.buffer |->
                            IF p = 1 THEN Erased ELSE Unit(g.seed, g.ratchets, p - 1)],
              !.pos = 1]
RefillWithKey(g) ==
    [g EXCEPT !.buffer = [p \in DOMAIN g.buffer |-> Unit(g.seed, g.ratchets, p - 1)],
              !.ratchets = @ + 1,
              !.pos = 0]

(* The rest of a generator stays as it is. *)
WithBuffer(g, buffer, ratchets, pos) ==
    [seed |-> g.seed, ratchets |-> ratchets, buffer |-> buffer, pos |-> pos,
     marker |-> g.marker, fresh |-> g.fresh, flagged |-> g.flagged]

(* The first unit of a new buffer becomes the key and is erased. *)
Refill(g) ==
    WithBuffer(g, [p \in DOMAIN g.buffer |->
                     IF p = 1 THEN Erased ELSE Unit(g.seed, g.ratchets, p - 1)],
               g.ratchets + 1, 1)

Refilled(g) == IF g.pos = Len(g.buffer) THEN Refill(g) ELSE g

(* Mutation of Consumed: what was drawn stays in the buffer. *)
ConsumedUnerased(g, take) == [g EXCEPT !.pos = @ + take]

Consumed(g, take) ==
    WithBuffer(g, [p \in DOMAIN g.buffer |->
                     IF p \in g.pos + 1 .. g.pos + take THEN Erased ELSE g.buffer[p]],
               g.ratchets, g.pos + take)

TakeOf(g, wanted) == Min({wanted, Len(g.buffer) - g.pos})

(* NaiveRekeyRng: outputs come from block 1 on, block 0 is the next key. *)
Rekeyed(g) == [g EXCEPT !.ratchets = @ + 1]

(* WipeOnForkRng::reseed_if_wiped *)
Reseeded(g) ==
    IF g.marker THEN g
    ELSE IF g.fresh # NoSeed
         THEN [New(g.fresh, ReseedUnits) EXCEPT !.flagged = g.flagged]
         ELSE [g EXCEPT !.flagged = TRUE]

-----------------------------------------------------------------------------
Init ==
    /\ construction \in {"naive", "fke", "wipe"}
    /\ booted = 0 /\ seeds = 0
    /\ rng = [i \in Instances |-> New(NoSeed, BufferUnits)]
    /\ want = [i \in Instances |-> 0]
    /\ out = [i \in Instances |-> <<>>]
    /\ past = [i \in Instances |-> {}]
    /\ family = [i \in Instances |-> i]

Idle(i) == i \in 1 .. booted /\ want[i] = 0

(* A process of its own, with a seed of its own. *)
Boot ==
    /\ booted < MaxInstances /\ seeds < MaxSeeds
    /\ booted' = booted + 1 /\ seeds' = seeds + 1
    /\ rng' = [rng EXCEPT ![booted + 1] = New(seeds + 1, BufferUnits)]
    /\ UNCHANGED <<construction, want, out, past, family>>

(* fill of the naive generator: whole blocks, then the ratchet. *)
FillNaive(i, n) ==
    /\ construction = "naive"
    /\ Idle(i) /\ Len(out[i]) + n <= MaxOutput
    /\ out' = [out EXCEPT ![i] =
                @ \o [u \in 1 .. n |-> Unit(rng[i].seed, rng[i].ratchets, u + 1)]]
    /\ rng' = [rng EXCEPT ![i] = Rekeyed(@)]
    /\ UNCHANGED <<construction, booted, seeds, want, past, family>>

(* fill of the other two, up to its loop. *)
Fill(i, n) ==
    /\ construction # "naive"
    /\ Idle(i) /\ Len(out[i]) + n <= MaxOutput
    /\ rng' = [rng EXCEPT ![i] = Reseeded(@)]
    /\ want' = [want EXCEPT ![i] = n]
    /\ UNCHANGED <<construction, booted, seeds, out, past, family>>

(* One iteration of the loop. *)
Take(i) ==
    /\ want[i] > 0
    /\ LET g == Refilled(rng[i])
           take == TakeOf(g, want[i])
       IN /\ out' = [out EXCEPT ![i] = @ \o SubSeq(g.buffer, g.pos + 1, g.pos + take)]
          /\ rng' = [rng EXCEPT ![i] = Consumed(g, take)]
          /\ want' = [want EXCEPT ![i] = @ - take]
    /\ UNCHANGED <<construction, booted, seeds, past, family>>

(* A copy of instance i becomes the next instance. *)
Copy(i, state, kin) ==
    /\ Idle(i) /\ booted < MaxInstances
    /\ booted' = booted + 1
    /\ rng' = [rng EXCEPT ![booted + 1] = state]
    /\ past' = [past EXCEPT ![booted + 1] = past[i] \cup ToSet(out[i])]
    /\ family' = [family EXCEPT ![booted + 1] = kin]
    /\ UNCHANGED <<construction, seeds, want, out>>

Snapshot(i) == Copy(i, rng[i], family[i])

(* Mutation of ForkChild: the page with the marker is not wiped. *)
UnwipedChild(g) == [g EXCEPT !.fresh = NoSeed]

ForkChild(g) == [g EXCEPT !.marker = FALSE, !.fresh = NoSeed]

(* fork_child is overridden by the wipe-on-fork generator only. *)
Fork(i) ==
    IF construction = "wipe" THEN Copy(i, ForkChild(rng[i]), booted + 1)
    ELSE Copy(i, rng[i], family[i])

(* on_fork: entropy from outside the process; the default ignores it. *)
OnFork(i) ==
    /\ Idle(i) /\ seeds < MaxSeeds
    /\ seeds' = seeds + 1
    /\ rng' = IF construction = "wipe" THEN [rng EXCEPT ![i].fresh = seeds + 1] ELSE rng
    /\ UNCHANGED <<construction, booted, want, out, past, family>>

(* Every bound is reached. *)
Spent ==
    /\ booted = MaxInstances /\ seeds = MaxSeeds
    /\ \A i \in Instances : want[i] = 0 /\ \A n \in Sizes : Len(out[i]) + n > MaxOutput
    /\ UNCHANGED vars

Next ==
    \/ Boot
    \/ \E i \in Instances :
          \/ \E n \in Sizes : FillNaive(i, n) \/ Fill(i, n)
          \/ Take(i)
          \/ Snapshot(i)
          \/ Fork(i)
          \/ OnFork(i)
    \/ Spent

Spec == Init /\ [][Next]_vars

-----------------------------------------------------------------------------

(* What the state of an instance gives away: what is left in its buffer,   *)
(* and all that its key, those it ratchets to, and the entropy it has been *)
(* handed will ever generate.                                              *)
Derivable(i, u) ==
    \/ \E p \in DOMAIN rng[i].buffer : rng[i].buffer[p] = u
    \/ u.seed = rng[i].seed /\ u.ratchets >= rng[i].ratchets
    \/ u.seed = rng[i].fresh

Drawn(i) == past[i] \cup ToSet(out[i])

(* Forward secrecy through every lifecycle: the state of an instance never *)
(* gives away what it or its ancestors drew (generator.rs:20).             *)
ForwardSecret == \A i \in Instances : \A u \in Drawn(i) : ~Derivable(i, u)

(* No instance draws a unit twice, nor one its ancestors drew before the   *)
(* copy, however fills, refills and reseeds fall (generator.rs, fill).     *)
NeverRepeats ==
    \A i \in Instances : IsInjective(out[i]) /\ ToSet(out[i]) \cap past[i] = {}

(* The unit that becomes a key is never handed out (generator.rs:181): no  *)
(* output gives away the outputs that follow it.                           *)
KeysStayInside == \A i \in Instances : \A u \in Drawn(i) : u.index # 0

(* Two instances that draw the same unit are copies nobody annotated, or   *)
(* one of them knows that it was forked and got no entropy: the wipe and   *)
(* the delivery together are enough, whatever forks what and whenever the  *)
(* entropy comes (lifecycle.rs, WipeOnForkRng).                            *)
CollisionsAreKnown ==
    \A i, j \in Instances :
        /\ family[i] # family[j]
        /\ ToSet(out[i]) \cap ToSet(out[j]) # {}
        => rng[i].flagged \/ rng[j].flagged

-----------------------------------------------------------------------------
(***************************************************************************)
(* Behind the invariants above.  A buffer holds, past its position, the    *)
(* units of the key before the last ratchet, and nothing before it; what   *)
(* an instance drew is of an older key, or of that one and before the      *)
(* position, and of no entropy still to be used.                           *)
(***************************************************************************)
Units == [seed : Nat \ {0}, ratchets : Nat, index : Nat \ {0}]

Generators ==
    [seed : Nat, ratchets : Nat, buffer : Seq(Units \cup {Erased}), pos : Nat,
     marker : BOOLEAN, fresh : Nat, flagged : BOOLEAN]

BufferHolds(g) ==
    /\ Len(g.buffer) >= 2 /\ g.pos \in 1 .. Len(g.buffer)
    /\ \A p \in 1 .. Len(g.buffer) :
          g.buffer[p] = IF p <= g.pos THEN Erased ELSE Unit(g.seed, g.ratchets - 1, p - 1)

IsBehind(u, g) ==
    /\ u.seed # g.fresh
    /\ u.seed = g.seed =>
          /\ u.ratchets < g.ratchets
          /\ u.ratchets = g.ratchets - 1 => g.pos = Len(g.buffer) \/ u.index < g.pos

TypeOK ==
    /\ construction \in {"naive", "fke", "wipe"}
    /\ booted \in 0 .. MaxInstances /\ seeds \in Nat
    /\ rng \in [Instances -> Generators]
    /\ want \in [Instances -> Nat]
    /\ out \in [Instances -> Seq(Units)]
    /\ past \in [Instances -> SUBSET Units]
    /\ family \in [Instances -> Nat]

(* Seeds an instance has drawn under, or may yet draw under unflagged.     *)
Knows(i, s) ==
    /\ s # NoSeed
    /\ \/ \E u \in ToSet(out[i]) : u.seed = s
       \/ rng[i].marker /\ rng[i].seed = s
       \/ rng[i].fresh = s

InstanceOK(i) ==
    /\ BufferHolds(rng[i])
    /\ \A u \in Drawn(i) : u.seed <= seeds /\ IsBehind(u, rng[i])
    /\ IsInjective(out[i]) /\ ToSet(out[i]) \cap past[i] = {}
    /\ rng[i].seed <= seeds /\ rng[i].fresh <= seeds
    /\ IF i <= booted THEN rng[i].seed # NoSeed /\ rng[i].fresh # rng[i].seed
       ELSE /\ out[i] = <<>> /\ past[i] = {} /\ want[i] = 0
            /\ rng[i].seed = NoSeed /\ rng[i].fresh = NoSeed /\ ~rng[i].flagged
    /\ want[i] > 0 => construction # "naive" /\ (rng[i].marker \/ rng[i].flagged)
    /\ construction = "naive" => rng[i].pos = Len(rng[i].buffer)
    /\ construction # "wipe" => rng[i].marker

SeedsApart ==
    \A i, j \in Instances :
        family[i] # family[j] =>
            \/ rng[i].flagged \/ rng[j].flagged
            \/ \A s \in Nat : ~(Knows(i, s) /\ Knows(j, s))

IInv == TypeOK /\ (\A i \in Instances : InstanceOK(i)) /\ SeedsApart
=============================================================================
