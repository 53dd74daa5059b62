----------------------------- MODULE ReportPrograms ----------------------------
(***************************************************************************)
(* The report programs of crates/statelab-crypto: what each concludes from *)
(* the library's measurements, under which control.  round_budget.rs,      *)
(* scalar_rotation_cost.rs, branch_number.rs, instrument_validation.rs,    *)
(* task1_structure_search.rs, phase_b_qr_vs_core.rs with qr_diffusion.rs,  *)
(* and task3_stream_independence.rs.                                       *)
(*                                                                         *)
(* A measurement is an integer, those of one program on one scale; tables  *)
(* that are only printed are left out.                                     *)
(***************************************************************************)
EXTENDS Streams

Never == 0

(* A conclusion under a control that may stop it. *)
Stopped(name) == [stopped |-> name, holds |-> {}]

-----------------------------------------------------------------------------
(* round_budget.rs: devs[i] is the deviation at the i-th round count,      *)
(* correlations[i] the largest |r| of each seed.                           *)
RoundCounts == <<2, 3, 4, 5, 6, 7, 8, 10, 12, 16, 20>>

ByRounds(values) == [i \in DOMAIN values |-> <<RoundCounts[i], values[i]>>]

SettlesIn(values, floor, band) ==
    LET i == SaturationPoint(ByRounds(values), floor, band)
    IN IF i = 0 THEN Never ELSE RoundCounts[i]

WorstSeeds(correlations) == [i \in DOMAIN correlations |-> Max(Range(correlations[i]))]

RoundBudget(devs, correlations, tolerance, floor) ==
    LET avalanche == SettlesIn(devs, tolerance, <<1, 1>>)
        bic == SettlesIn(WorstSeeds(correlations), floor, <<115, 100>>)
    IN [avalanche |-> avalanche, bic |-> bic,
        crossings |-> CrossingsAbove(ByRounds(WorstSeeds(correlations)), floor, 4),
        verdict |-> IF Never \in {avalanche, bic} \/ bic < avalanche THEN "mixed"
                    ELSE IF bic = avalanche THEN "agree" ELSE "bic binds"]

BudgetCost(measured) ==
    LET n == Len(RoundCounts) IN [i \in 0 .. n - 1 |-> Median(RotatedBattery(n, 3, measured)[i])]

(* The block functions that are timed, from the loaded state on. *)
BudgetBlock(w, rounds) ==
    LET v == FoldLeft(LAMBDA u, r : Strictly(LAMBDA s : ChaChaRound(s, ChaChaRot, r), u),
                      w, [r \in 1 .. rounds |-> r - 1])
    IN [i \in Lanes |-> Plus(v[i], w[i])]

ScalarBlock(w, rot) ==
    LET Quarters(u) == FoldLeft(LAMBDA s, g : QuarterRound(s, g[1], g[2], g[3], g[4], rot), u,
                                Columns \o Diagonals)
        v == FoldLeft(LAMBDA u, i : Strictly(Quarters, u), w, [i \in 1 .. 10 |-> i])
    IN [i \in Lanes |-> Plus(v[i], w[i])]

(* scalar_rotation_cost.rs: ChaCha, all aligned, none aligned and the      *)
(* control that lacks an instruction, in this order.                       *)
ScalarRotationCost(cases) ==
    LET reading == [i \in 0 .. 3 |-> Median(cases[i])]
        alike == {reading[i] : i \in 0 .. 2}
    IN [medians |-> reading,
        control |-> 100 * (reading[3] - reading[0]) < -reading[0],
        within_noise |-> IsLess(<<Max(alike) - Min(alike), reading[0]>>, NoiseFloor(cases))]

-----------------------------------------------------------------------------
(* branch_number.rs: rows by design and rounds, deep those of weight three,*)
(* reach[n] the first of six rounds whose pattern reads the maximum.       *)
BranchDesigns == 3 .. 5
MaxBranch == 17
BranchOps(n) == n * 3 * 4

Lowest(row) == Min({row.pattern, row.w1, row.w2})

BranchNumber(rows, deep, agree, reach) ==
    LET All(r, k) == \A n \in BranchDesigns : rows[n, r] = [pattern |-> k, w1 |-> k, w2 |-> k]
        discriminates == \/ \E n \in BranchDesigns, r \in 0 .. 4 : rows[n, r] # rows[3, r]
                         \/ \E n \in BranchDesigns, r \in 1 .. 2 : deep[n, r] # deep[3, r]
        killed == \E r \in 1 .. 4 : Lowest(rows[5, r]) < Lowest(rows[4, r])
        predictions == <<All(1, 5), All(2, MaxBranch), ~discriminates, ~killed>>
    IN IF ~agree THEN Stopped("void")
       ELSE [stopped |-> "", holds |-> {p \in 1 .. 4 : predictions[p]},
             totals |-> [n \in BranchDesigns |-> reach[n] * BranchOps(n)]]

-----------------------------------------------------------------------------
(* instrument_validation.rs: rows[k] is what measure_dual reads at the     *)
(* k-th load level.                                                        *)

(* a - b is more than half as much again as a - c. *)
Outweighs(a, b, c) ==
    3 * c[1] * a[2] * b[2] > a[1] * b[2] * c[2] + 2 * b[1] * a[2] * c[2]

InstrumentValidation(rows) ==
    LET Across(field) == Spread([k \in DOMAIN rows |-> rows[k][field]])
        original == Across("tsc_median")
        statistic == Across("tsc")
        counter == Across("thread_median")
        both == Across("thread")
    IN IF 10 * original[1] <= original[2] THEN Stopped("inconclusive")
       ELSE [stopped |-> "",
             holds |-> {1} \cup {p \in {2} : 50 * both[1] < both[2]},
             credit |-> IF Outweighs(original, statistic, counter) THEN "statistic"
                        ELSE IF Outweighs(original, counter, statistic) THEN "counter" ELSE "both"]

-----------------------------------------------------------------------------
(* task1_structure_search.rs: the structures in the order of the screen;   *)
(* series[k] are the deviations of structure k from MinRounds on.          *)
MinRounds == 2

Structures ==
    LET shapes == <<"double-cross", "salsa-cycle", "chain", "parallel-cross", "wide-cross">>
        patterns == <<"diag-1", "diag-2", "diag-3", "row">>
    IN [k \in 1 .. 20 |-> [qr |-> shapes[((k - 1) \div 4) + 1], pattern |-> patterns[((k - 1) % 4) + 1]]]

IsChaCha(structure) == structure = [qr |-> "double-cross", pattern |-> "diag-1"]

Reached(series, tolerance) ==
    LET full == {i \in DOMAIN series : series[i] <= tolerance}
    IN IF full = {} THEN Never ELSE Min(full) + MinRounds - 1

(* Those that are faster than ChaCha are verified on more seeds, with      *)
(* ChaCha itself and, up to six, its equals; nsPerRound[k] are timings.    *)
StructureSearch(series, tolerance, nsPerRound) ==
    LET all == [k \in DOMAIN Structures |-> k]
        chacha == CHOOSE k \in DOMAIN Structures : IsChaCha(Structures[k])
        reached == [k \in DOMAIN series |-> Reached(series[k], tolerance)]
        candidates == SelectSeq(all, LAMBDA k : k # chacha /\ reached[k] \in 1 .. reached[chacha] - 1)
        Fill(v, k) == IF Len(v) < 6 /\ reached[k] = reached[chacha] /\ k \notin Range(v)
                      THEN Append(v, k) ELSE v
        verify == FoldLeft(Fill, Append(candidates, chacha), all)
    IN [reached |-> reached, candidates |-> candidates, verify |-> verify,
        target |-> Max({reached[chacha] - 1, MinRounds}),
        total_ns |-> [k \in Range(verify) |-> Median(nsPerRound[k]) * reached[k]]]

-----------------------------------------------------------------------------
(* qr_diffusion.rs: a quarter round on four words; a vector is the words   *)
(* and the bit to flip in each.                                            *)
Group4 == <<1, 2, 3, 4>>
ChaChaQuarter(x, rot) == ApplyShape("double-cross", x, Group4, rot)
SalsaQuarter(x, rot) == ApplyShape("salsa-cycle", x, Group4, rot)

Quarter(qr, x, rot) == IF qr = "salsa" THEN SalsaQuarter(x, rot) ELSE ChaChaQuarter(x, rot)

(* Bits of word out that the flip in word in changes. *)
BitsChanged(qr, rot, vector, in, out) ==
    Cardinality(Xor(Quarter(qr, vector.words, rot)[out],
                    Quarter(qr, [vector.words EXCEPT ![in] = Flip(@, vector.bits[in])], rot)[out]))

(* The matrix, as sums over the vectors. *)
Diffusion(qr, rot, vectors) ==
    [c \in (1 .. 4) \X (1 .. 4) |->
        SumFunction([v \in DOMAIN vectors |-> BitsChanged(qr, rot, vectors[v], c[1], c[2])])]

(* mean_diffusion, as the sum over vectors and words. *)
MeanDiffusion(qr, rot, vectors) ==
    SumFunction([v \in DOMAIN vectors |->
        LET x == vectors[v].words
            base == Quarter(qr, x, rot)
            From(in) == LET other == Quarter(qr, [x EXCEPT ![in] = Flip(@, vectors[v].bits[in])], rot)
                        IN MapThenSumSet(LAMBDA out : Cardinality(Xor(base[out], other[out])), 1 .. 4)
        IN MapThenSumSet(From, 1 .. 4)])

(* ChaChaRot: four words are taken out, mixed, and put back. *)
CoreRound(w, rot, round) ==
    LET Mixed(v, g) ==
            LET x == ChaChaQuarter([k \in 1 .. 4 |-> v[g[k]]], rot)
            IN [i \in Lanes |-> IF i \in Range(g) THEN x[CHOOSE k \in 1 .. 4 : g[k] = i] ELSE v[i]]
    IN FoldLeft(Mixed, w, IF round % 2 = 0 THEN Columns ELSE Diagonals)

(* phase_b_qr_vs_core.rs over all constants below n, in the order of the   *)
(* loops: how many score above ChaCha's own, and the best five.            *)
AllRotations(n) ==
    [k \in 1 .. n^4 |-> <<(k - 1) \div n^3, ((k - 1) \div n^2) % n, ((k - 1) \div n) % n, (k - 1) % n>>]

QrVsCore(n, own, vectors) ==
    LET mean == [k \in 1 .. n^4 |-> MeanDiffusion("chacha", AllRotations(n)[k], vectors)]
        baseline == MeanDiffusion("chacha", own, vectors)
        Above(k) == Occurrences(DOMAIN mean, LAMBDA j : mean[j] > mean[k] \/ (mean[j] = mean[k] /\ j < k))
    IN [better |-> Occurrences(DOMAIN mean, LAMBDA k : mean[k] > baseline),
        means |-> mean, finalists |-> {k \in DOMAIN mean : Above(k) < 5}]

-----------------------------------------------------------------------------
(* task3_stream_independence.rs.  Headlines are in units of one unit-th    *)
(* of 1/2; floors[k] the noise floor of grid k, adequate when in tolerance *)
(* as well.                                                                *)
Scaled(fraction, unit) == fraction[1] * (unit \div fraction[2])

Headline(grid, n, unit) == Scaled(<<MaxDeviation(grid, n), n>>, unit)

(* The four tests on one permutation.  N3 is taken with all of the tail    *)
(* zeroed, since a keyed tail would score the key schedule.  N4 takes one  *)
(* lag for the code's eight, which four blocks, for its 4096, cannot have. *)
StreamRow(perm, cfg, seeds, woven, bases, own, blocks, unit) ==
    LET cols == OutputColumns(cfg, perm)
        Stream(seed) == CollectStream(perm, [cfg EXCEPT !.seed = seed], blocks)
        bare == [cfg EXCEPT !.zeroed = (perm.lanes - 2) * LaneBytes]
        weave == [k \in DOMAIN woven |-> Stream(woven[k])]
        Four(seed) == Scaled(ProfileDeviation(Profile(Stream(seed), cols, 1), blocks), unit)
    IN [n1 |-> Headline(SeedPairGrid([k \in DOMAIN seeds |-> Stream(seeds[k])], cols), blocks, unit),
        n2 |-> Scaled(ProfileDeviation(InterleavedProfile(weave, cols), blocks * Len(woven)), unit),
        n3 |-> Headline(SeedDiffusion(perm, bare, {}, bases), Len(bases), unit),
        n4 |-> [k \in DOMAIN own |-> Four(own[k])]]

StreamVerdict(row, floors, tolerance) ==
    IF Max(Range(floors)) > tolerance THEN "UNDER-SAMPLED"
    ELSE IF Max({row.n1, row.n2, row.n3, Median(row.n4)}) <= tolerance THEN "independent"
    ELSE "CORRELATED"

MustPass == {"chacha", "chacha64", "blake2b", "ascon"}
MustFail == {"counter", "lcg", "klimov-shamir", "xoshiro256++"}

ControlsHold(verdicts) ==
    /\ \A name \in MustPass \cap DOMAIN verdicts : verdicts[name] = "independent"
    /\ \A name \in MustFail \cap DOMAIN verdicts : verdicts[name] = "CORRELATED"
=============================================================================
