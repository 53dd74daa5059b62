------------------------------ MODULE DesignCalls ------------------------------
(***************************************************************************)
(* Questions asked of the word designs: whether the functions that the     *)
(* repository writes more than once are the same function, how far the     *)
(* flip of one bit travels over a wiring, and where the two hill climbs    *)
(* over wirings, topology_climb.rs and topology_climb2.rs, get to, turn by *)
(* turn until the budget is spent.  What a mutation and a restart draw is  *)
(* any choice.                                                             *)
(***************************************************************************)
EXTENDS SearchPrograms, CallState

CONSTANTS Budget,       \* scored wirings of a climb
          Moves,        \* the mutations that may be drawn: [p, g1, g2, i, j]
          Shuffles,     \* the draws of a shuffle of the sixteen lanes
          Given,        \* the states a design is called on
          Others,       \* more wirings to look at
          MostRounds    \* the longest diffusion followed

(* A partition as four groups of four, a wiring as two of them. *)
Partitions == [1 .. 4 -> [1 .. 4 -> Lanes]]
Topologies == {t \in [1 .. 2 -> Partitions] : IsBalanced(t)}

(* The moves of mutate, and the draws of random_partition: a place at or   *)
(* below the one it is exchanged with.                                     *)
AllMoves == [p : 1 .. 2, g1 : 1 .. 4, g2 : 1 .. 4, i : 1 .. 4, j : 1 .. 4]
AllShuffles == {d \in [1 .. 15 -> Nat] : \A i \in 1 .. 15 : d[i] <= i}

(* The budget covers the two wirings scored before the first turn, and a   *)
(* climb may stall once at least.                                          *)
ClimbBounds ==
    /\ Patience \in Nat \ {0} /\ Budget \in Nat \ {0, 1}
    /\ Moves \subseteq AllMoves /\ Shuffles \subseteq AllShuffles

DesignAssumption ==
    /\ WordSize \in Nat \ {0}
    /\ Given \subseteq [Lanes -> Word(WordSize)]
    /\ Others \subseteq Topologies
    /\ Shuffles \subseteq AllShuffles
    /\ MostRounds \in Nat

-----------------------------------------------------------------------------
(* The climbs. *)
(* The wirings random_topology makes of these draws. *)
Wirings == {RandomTopology(d, e) : d, e \in Shuffles}

Begins ==
    \/ call' = [op |-> "climb", at |-> Start(BestRandom)]
    \/ call' = [op |-> "climb2", at |-> Start(BestClimbed)]

(* A wiring that falls apart is drawn again, at no charge. *)
Climbs ==
    /\ call.op = "climb"
    /\ call.at.evals < Budget
    /\ \E m \in Moves, fresh \in Wirings :
          call' = [call EXCEPT !.at = ClimbTurn(@, Mutate(@.cur, m), fresh)]

ClimbsOn ==
    /\ call.op = "climb2"
    /\ call.at.evals < Budget /\ call.at.fit > 0
    /\ \E m \in Moves : call' = [call EXCEPT !.at = Climb2Turn(@, Mutate(@.cur, m))]

ClimbInit == call = None

ClimbNext ==
    \/ call = None /\ Begins
    \/ Climbs
    \/ ClimbsOn

ClimbSpec == ClimbInit /\ [][ClimbNext]_call

-----------------------------------------------------------------------------
(* The designs. *)
Candidates == Wirings \cup {ChaChaTopology, BestRandom, BestClimbed} \cup Others

(* One round of ChaCha, as four files of the crate write it. *)
RoundsOnce(w, round) ==
    call' = [op |-> "same", rounds |->
                {ChaChaRound(w, ChaChaRot, round),
                 TopologyRound(w, ChaChaTopology, ChaChaQr, round),
                 StructureRound(w, "double-cross", "diag-1", ChaChaRot, round),
                 StepsRound(w, 4, round)}]

BlocksOnce(w) ==
    call' = [op |-> "same", rounds |-> {StepsBlock(w, 4, 20), ChaChaBlock(w)}]

(* BLAKE2b's mixing of nothing, which has rotations at 64 bits only. *)
MixesNothing(w, g) ==
    /\ WordSize = 64
    /\ call' = [op |-> "same", rounds |->
                   {G(w, g[1], g[2], g[3], g[4], {}, {}),
                    QuarterRound(w, g[1], g[2], g[3], g[4], Blake2bRot)}]

Groupings(pattern, round) ==
    call' = [op |-> "groups", groups |-> IF round % 2 = 0 THEN ColumnGroups ELSE Groups(pattern)]

(* The lanes that a flip in `lane` reaches, from one state or another. *)
Reached(t, lane, rounds) ==
    LET After(w) == TopologyRounds(w, t, ChaChaQr, rounds)
        Flipped(w) == [w EXCEPT ![lane] = Xor(@, {0})]
        Differing(v, u) == {i \in Lanes : v[i] # u[i]}
    IN UNION {Differing(After(w), After(Flipped(w))) : w \in Given}

Diffuses(t, lane, rounds) ==
    call' = [op |-> "diffuse", topology |-> t, lane |-> lane, rounds |-> rounds,
             changed |-> Reached(t, lane, rounds)]

(* The screen of topology_search, and the diffusion it spares. *)
Considers(t) ==
    call' = [op |-> "consider", pruned |-> Prunes(t), connected |-> Diameter(t) # Disconnected,
             reached |-> [lane \in Lanes |-> Reached(t, lane, ScreenRounds)]]

Writes ==
    \/ \E w \in Given, round \in 0 .. 1 : RoundsOnce(w, round)
    \/ \E w \in Given : BlocksOnce(w)
    \/ \E w \in Given, k \in 1 .. 4 : MixesNothing(w, Columns[k])

Spreads ==
    \/ \E pattern \in Patterns, round \in 0 .. 1 : Groupings(pattern, round)
    \/ \E t \in Candidates, lane \in Lanes, rounds \in 0 .. MostRounds : Diffuses(t, lane, rounds)
    \/ \E t \in Candidates : Considers(t)

DesignsNext == call = None /\ (Writes \/ Spreads)

DesignsSpec == ClimbInit /\ [][DesignsNext]_call

-----------------------------------------------------------------------------
(* ChaCha's round is written for its own system, for wirings, for          *)
(* structures and for the search over step counts, its block once more for *)
(* the timing, and BLAKE2b's mixing for the hash and for arx64: what they  *)
(* write is the same, on every state (systems.rs:118, topology.rs:207,     *)
(* arx_structure.rs:238, arx_step_search.rs:239, arx_step_cycles.rs:321,   *)
(* arx64.rs:180).                                                          *)
DesignsAgree == call.op = "same" => \A v, w \in call.rounds : v = w

(* No flip travels faster than its wiring, drawn or climbed to, so that a  *)
(* diameter bounds the rounds to full diffusion (topology.rs:151) and a    *)
(* wiring pruned for it could not have passed the screen                   *)
(* (topology_search.rs:131); every pattern of a structure puts each lane   *)
(* in one group (arx_structure.rs:150).                                    *)
DiffusionIsBounded ==
    /\ call.op = "diffuse" =>
         /\ IsBalanced(call.topology)
         /\ call.changed \subseteq Ball(call.topology, call.lane, call.rounds)
    /\ call.op = "groups" => IsPartition(call.groups)
    /\ call.op = "consider" =>
         /\ call.pruned => \E lane \in Lanes : call.reached[lane] # Lanes
         /\ ~call.connected => call.pruned

(* A climb only visits wirings of sixteen lanes that hang together, knows  *)
(* the score of the one it is at, is never worse off than where it began,  *)
(* and scores at most one wiring over its budget: the restart's            *)
(* (topology_climb.rs:89, 143, 165; topology_climb2.rs:150).               *)
ClimbsStayLegal ==
    LET c == call.at
        start == IF call.op = "climb" THEN BestRandom ELSE BestClimbed
    IN call.op \in {"climb", "climb2"} =>
         /\ IsBalanced(c.cur) /\ Diameter(c.cur) # Disconnected
         /\ c.fit = Fitness(c.cur) /\ c.fit <= Fitness(start)
         /\ c.evals <= Budget + (IF call.op = "climb" THEN 1 ELSE 0)
         /\ c.stalls < Patience \/ call.op = "climb2"
=============================================================================
