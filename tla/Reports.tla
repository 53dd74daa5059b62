-------------------------------- MODULE Reports --------------------------------
(***************************************************************************)
(* The report programs of ReportPrograms at work: the real arithmetic of   *)
(* their designs on small words, and their conclusions on measurements     *)
(* that come in every order, or that a cause known beforehand brought      *)
(* about: stolen cycles, a drift of the machine, a cheaper instruction.    *)
(***************************************************************************)
EXTENDS Integers, Sequences, SequencesExt, FiniteSetsExt, Functions, TLC, CallState

CONSTANTS Series,       \* eleven measurements, one for every round count
          Correlations, \* the same for each seed
          Readings,     \* rows of the branch number table
          Screens,      \* six deviations of each of the twenty structures
          Stolen        \* the cycles others take at a load level, by repeat

(* A permutation that turns and flips the bytes of its state. *)
Xor(x, y) == (x \ y) \cup (y \ x)
Turned(bytes, n) ==
    [k \in DOMAIN bytes |-> Xor(bytes[((k + n - 1) % Len(bytes)) + 1], {k % 2})]

P == INSTANCE ReportPrograms WITH WordSize <- 4, LaneBytes <- 2, ByteBits <- 2, WindowBytes <- 2,
                                  RoundsOf <- Turned

Init == call = None

Tolerance == 2
Floor == 20

-----------------------------------------------------------------------------
Filled(a, b) == [i \in P!Lanes |-> {k \in 0 .. 3 : ((a * i + b) \div 2^k) % 2 = 1}]

Cores(a, b, rot, round) ==
    call' = [op |-> "same", rounds |-> {P!CoreRound(Filled(a, b), rot, round),
                                        P!ChaChaRound(Filled(a, b), rot, round)}]

Blocks(a, b) ==
    call' = [op |-> "same", rounds |-> {P!BudgetBlock(Filled(a, b), 20),
                                        P!ScalarBlock(Filled(a, b), P!ChaChaRot),
                                        P!ChaChaBlock(Filled(a, b))}]

Budgets(devs, correlations) ==
    call' = [op |-> "budget", devs |-> devs, correlations |-> correlations,
             result |-> P!RoundBudget(devs, correlations, Tolerance, Floor)]

(* The machine takes cost[i] for case i and drift[k] more in place k.      *)
Timed(n, batteries, cost, drift) ==
    [p \in (0 .. batteries - 1) \X (0 .. n - 1) |->
        cost[P!RotatedCase(n, p[1], p[2])] + drift[p[2]]]

Rotations(cost, drift) ==
    call' = [op |-> "rotation", cost |-> cost, drift |-> drift,
             result |-> P!ScalarRotationCost(P!RotatedBattery(4, 5, Timed(4, 5, cost, drift)))]

Costs(perRound) ==
    LET n == Len(P!RoundCounts)
        cost == [i \in 0 .. n - 1 |-> perRound * P!RoundCounts[i + 1]]
    IN call' = [op |-> "cost", cost |-> cost,
                steady |-> P!BudgetCost(Timed(n, 3, cost, [k \in 0 .. n - 1 |-> 0])),
                disturbed |-> P!BudgetCost([Timed(n, 3, cost, [k \in 0 .. n - 1 |-> 0])
                                              EXCEPT ![1, 5] = 1000])]

Branches(rows, three, agree, reach) ==
    call' = [op |-> "branch number", rows |-> rows, reach |-> reach, agree |-> agree,
             result |-> P!BranchNumber(rows, [c \in P!BranchDesigns \X (1 .. 2) |-> three[c[1]]],
                                       agree, reach)]

(* A call costs 50 cycles of its thread, more where others disturbed it.   *)
(* The clock counts what they took meanwhile as well.                      *)
Level(jitter, stolen) ==
    LET thread == [i \in DOMAIN stolen |-> 50 + jitter[i]]
    IN P!MeasureDual([i \in DOMAIN stolen |-> thread[i] + stolen[i]], thread)

Validates(jitter, stolen) ==
    call' = [op |-> "validate", jitter |-> jitter, stolen |-> stolen,
             result |-> P!InstrumentValidation([k \in DOMAIN stolen |-> Level(jitter[k], stolen[k])])]

Structures(series) ==
    call' = [op |-> "structures", series |-> series,
             result |-> P!StructureSearch(series, Tolerance, [k \in 1 .. 20 |-> <<5, 4, 4>>])]

Vectors ==
    <<[words |-> <<{0}, {1, 3}, {}, {2}>>, bits |-> <<0, 1, 2, 3>>],
      [words |-> <<{0, 1, 2, 3}, {2}, {0, 3}, {1}>>, bits |-> <<3, 3, 0, 1>>]>>

Searches(own) ==
    call' = [op |-> "quarter", n |-> 3, result |-> P!QrVsCore(3, own, Vectors),
             matrix |-> [k \in 1 .. 9 |-> P!Diffusion("chacha", P!AllRotations(3)[9 * k], Vectors)]]

Machine == [lanes |-> 3, default |-> 2]
Keyed(rounds) == [seed |-> {}, rounds |-> rounds, extract |-> "raw", zeroed |-> 0, bit_reverse |-> FALSE]

Rows(rounds, seeds) ==
    call' = [op |-> "row", seeds |-> seeds,
             row |-> P!StreamRow(Machine, Keyed(rounds), seeds, seeds, <<{}, {1}, {0, 3}>>, seeds, 4, 24)]

Judges(row, floors) ==
    call' = [op |-> "judge", row |-> row, floors |-> floors,
             verdict |-> P!StreamVerdict(row, floors, Tolerance)]

Verdicts == {"independent", "CORRELATED", "UNDER-SAMPLED"}

Controls(verdicts) ==
    call' = [op |-> "controls", verdicts |-> verdicts, hold |-> P!ControlsHold(verdicts)]

Token(text, number) == [text |-> text, number |-> number]
Flag(text) == Token(text, P!NotANumber)
Flags == {Flag(text) : text \in {"--seed", "--interleave", "--bytes", "--zero-frac", "--extract",
                                 "--system", "--keyed", "--bit-reverse"}}
Values == {Flag("strong"), Token("0", 0), Token("2", 2), Token("200", 200)}
Lines ==
    UNION {[1 .. n -> Flags \cup Values] : n \in 0 .. 3}
    \cup {<<f, v, g, w>> : f, g \in Flags, v, w \in Values}

Streams(tokens) ==
    call' = [op |-> "stream", tokens |-> tokens, parsed |-> P!ParseArgs(tokens),
             result |-> P!StreamProgram(tokens, "chacha" :> Machine, 2)]

Calls ==
    \/ \E a, b \in {1, 3}, rot \in {P!ChaChaRot, <<1, 2, 3, 0>>}, round \in 0 .. 1 : Cores(a, b, rot, round)
    \/ \E a \in {1, 3} : Blocks(a, 1)
    \/ \E devs \in Series, correlations \in Correlations : Budgets(devs, correlations)
    \/ \E c, d \in {98, 99, 100}, e \in {100, 108}, drift \in {<<0, 0, 0, 0>>, <<1, 2, 3, 5>>, <<4, 2, 9, 1>>} :
          Rotations(0 :> 100 @@ 1 :> e @@ 2 :> c @@ 3 :> d, [k \in 0 .. 3 |-> drift[k + 1]])
    \/ \E perRound \in {1, 3} : Costs(perRound)
    \/ \E first, three, four, five \in Readings, from \in 1 .. 3, agree \in BOOLEAN,
          reach \in {[n \in 3 .. 5 |-> 2], [n \in 3 .. 5 |-> 6 - n], [n \in 3 .. 5 |-> n]} :
          Branches([c \in P!BranchDesigns \X (0 .. 4) |->
                       IF c[2] < from THEN first ELSE <<three, four, five>>[c[1] - 2]],
                   [n \in 3 .. 5 |-> 17], agree, reach)
    \/ \E jitter \in [1 .. 3 -> {<<0, 0, 0>>, <<0, 8, 9>>}], stolen \in [1 .. 3 -> Stolen] :
          Validates(jitter, stolen)
    \/ \E series \in Screens : Structures(series)
    \/ \E own \in {<<0, 1, 2, 1>>, <<2, 1, 1, 0>>} : Searches(own)
    \/ \E seeds \in {<<{}, {0}>>, <<{1}, {1}>>, <<{2, 3}, {0, 2}>>} : Rows(1, seeds)
    \/ \E n1, n2, n3 \in {1, 2, 3}, n4 \in [1 .. 5 -> {1, 3}], floor \in {2, 3} :
          Judges([n1 |-> n1, n2 |-> n2, n3 |-> n3, n4 |-> n4], <<1, 2, floor, 1>>)
    \/ \E chacha, counter, other \in Verdicts :
          Controls("chacha" :> chacha @@ "counter" :> counter @@ "salsa" :> other)
    \/ \E tokens \in Lines : Streams(tokens)

Next == call = None /\ Calls

-----------------------------------------------------------------------------
(* Every row from the reported point on is low on every seed, and the row  *)
(* before it is not on some.                                               *)
SettlesAt(point, IsLow(_)) ==
    /\ point # P!Never =>
         /\ \A i \in 1 .. 11 : P!RoundCounts[i] >= point => IsLow(i)
         /\ \A i \in 2 .. 11 : P!RoundCounts[i] = point => ~IsLow(i - 1)
    /\ point = P!Never => ~IsLow(11)

LowDeviation(i) == call.devs[i] <= Tolerance
LowCorrelation(i) == \A s \in DOMAIN call.correlations[i] : 100 * call.correlations[i][s] <= 115 * Floor

BudgetsAreSound ==
    LET r == call.result
    IN /\ SettlesAt(r.avalanche, LowDeviation) /\ SettlesAt(r.bic, LowCorrelation)
       /\ r.verdict = "bic binds" =>
            \E i \in 1 .. 11 : LowDeviation(i) /\ ~LowCorrelation(i) /\ P!RoundCounts[i] < r.bic
       /\ r.verdict = "agree" =>
            \A i \in 1 .. 11 : P!RoundCounts[i] >= r.avalanche => LowDeviation(i) /\ LowCorrelation(i)

(* On a steady machine the medians are the costs, so that the control      *)
(* tells exactly whether the cheaper constants show, and nothing passes    *)
(* for noise.  Alike cases on a drifting one never read as different.      *)
RotationsAreSound ==
    LET r == call.result
        steady == \A k \in 0 .. 3 : call.drift[k] = 0
        drifting == \A k \in 1 .. 3 : call.drift[k - 1] < call.drift[k]
    IN /\ steady => /\ r.medians = call.cost
                    /\ r.control <=> 100 * call.cost[3] < 99 * call.cost[0]
                    /\ ~r.within_noise
       /\ drifting /\ Cardinality({call.cost[i] : i \in 0 .. 2}) = 1 => r.within_noise

(* A design that is killed reads low in some column, where the metric      *)
(* discriminates; totals are compared at equal cost.                       *)
BranchesAreSound ==
    LET r == call.result
    IN /\ ~call.agree => r.holds = {}
       /\ call.agree =>
            /\ 4 \notin r.holds => 3 \notin r.holds
            /\ {1, 2} \subseteq r.holds =>
                 \A n \in P!BranchDesigns, c \in 1 .. 2 : P!Lowest(call.rows[n, c]) = P!Lowest(call.rows[4, c])
            /\ \A n \in P!BranchDesigns :
                 r.totals[n] < r.totals[4] <=> n * call.reach[n] < 4 * call.reach[4]

(* The cycles of a thread hide what others stole, so the instrument is     *)
(* flat whenever the test concludes.  No credit goes to the counter when   *)
(* every level had a clean repeat, nor to the statistic when as much was   *)
(* stolen in each repeat of undisturbed threads.                           *)
ValidationsAreSound ==
    LET r == call.result
        clean == \A k \in DOMAIN call.stolen : \E i \in 1 .. 3 : call.stolen[k][i] = 0 /\ call.jitter[k][i] = 0
        constant == \A k \in DOMAIN call.stolen :
                        Cardinality(Range(call.stolen[k])) = 1 /\ Range(call.jitter[k]) = {0}
    IN /\ r.stopped = "" => 2 \in r.holds
       /\ r.stopped = "" /\ clean => r.credit # "counter"
       /\ r.stopped = "" /\ constant => r.credit # "statistic"
       /\ Cardinality(Range(call.stolen)) = 1 /\ Cardinality(Range(call.jitter)) = 1 => r.stopped # ""

StructuresAreSound ==
    LET r == call.result
        verified == Range(r.verify)
        chacha == CHOOSE k \in 1 .. 20 : P!IsChaCha(P!Structures[k])
        Full(k, round) == call.series[k][round - P!MinRounds + 1] <= Tolerance
    IN /\ chacha \in verified /\ IsInjective(r.verify)
       /\ \A k \in 1 .. 20 :
            (\E round \in P!MinRounds .. r.reached[chacha] - 1 : Full(k, round)) <=> k \in Range(r.candidates)
       /\ Range(r.candidates) \subseteq verified
       /\ \A k \in verified : r.total_ns[k] <= r.total_ns[chacha]
       /\ Len(r.verify) > 6 => Len(r.verify) = Len(r.candidates) + 1

(* The last rotation moves bits inside one word, which no distance sees.   *)
QuartersAreSound ==
    LET r == call.result
        rotations == P!AllRotations(call.n)
    IN /\ \A j, k \in DOMAIN r.means :
            (\A i \in 1 .. 3 : rotations[j][i] = rotations[k][i]) => r.means[j] = r.means[k]
       /\ r.better % call.n = 0
       /\ \A k \in r.finalists, j \in DOMAIN r.means \ r.finalists : r.means[j] <= r.means[k]
       /\ \A k \in DOMAIN call.matrix :
            MapThenSumSet(LAMBDA c : call.matrix[k][c], (1 .. 4) \X (1 .. 4)) = r.means[9 * k]

(* Two equal seeds are caught by the first test, if by no other. *)
RowsAreSound ==
    call.seeds[1] = call.seeds[2] =>
        P!StreamVerdict(call.row, <<1, 1, 1, 1>>, 23) = "CORRELATED"

JudgesAreSound ==
    LET quiet == {k \in 1 .. 5 : call.row.n4[k] <= Tolerance}
        adequate == \A k \in DOMAIN call.floors : call.floors[k] <= Tolerance
    IN /\ call.verdict = "independent" <=>
            adequate /\ {call.row.n1, call.row.n2, call.row.n3} \subseteq 0 .. Tolerance
                     /\ 2 * Cardinality(quiet) > 5
       /\ call.verdict = "UNDER-SAMPLED" <=> ~adequate

(* What round_budget.rs:232, scalar_rotation_cost.rs:218, branch_number.rs:229, *)
(* instrument_validation.rs:165, task1_structure_search.rs:143,             *)
(* phase_b_qr_vs_core.rs:74 and task3_stream_independence.rs:128 conclude   *)
(* is so of what they measured.                                             *)
ReportsAreSound ==
    /\ call.op = "budget" => BudgetsAreSound
    /\ call.op = "rotation" => RotationsAreSound
    /\ call.op = "cost" => call.steady = call.cost /\ call.disturbed = call.cost
    /\ call.op = "branch number" => BranchesAreSound
    /\ call.op = "validate" => ValidationsAreSound
    /\ call.op = "structures" => StructuresAreSound
    /\ call.op = "quarter" => QuartersAreSound
    /\ call.op = "row" => RowsAreSound
    /\ call.op = "judge" => JudgesAreSound
    /\ call.op = "controls" /\ call.hold =>
         call.verdicts["chacha"] = "independent" /\ call.verdicts["counter"] = "CORRELATED"

(* A command line that is accepted names only values in range, of a        *)
(* repeated flag the last; one that is refused writes nothing              *)
(* (statelab_stream.rs:95, 109, 171).                                      *)
ArgumentsAreChecked ==
    call.op = "stream" =>
        LET a == call.parsed.args
            SeedAt(i) == call.tokens[i].text = "--seed" /\ call.tokens[i + 1].number # P!NotANumber
        IN /\ ~call.parsed.refused => a.interleave > 0 /\ a.zero_frac \in 0 .. 100
           /\ call.parsed.refused => call.result.exit = 2
           /\ call.result.exit = 2 => call.result.written = <<>>
           /\ call.result.exit = 0 =>
                /\ a.bytes = 0 <=> call.result.written = <<>>
                /\ \A i \in 1 .. Len(call.tokens) - 1 :
                     SeedAt(i) /\ (\A j \in i + 1 .. Len(call.tokens) - 1 : ~SeedAt(j))
                       => a.seed = call.tokens[i + 1].number
=============================================================================
