------------------------------- MODULE Batteries -------------------------------
(***************************************************************************)
(* The statistical batteries of crates/statelab-crypto over a permutation  *)
(* that is a table: avalanche.rs, bic.rs, structural.rs, saturation.rs,    *)
(* linearity.rs and branch.rs; and how bench.rs reads repeated timings.    *)
(*                                                                         *)
(* A state is the set of the positions of its one bits, a design is a      *)
(* function of states for each round, and a battery is given the base      *)
(* states its Probe would draw.  A probability p over n samples is the     *)
(* count p * n; a deviation |p - 1/2| is in units of 1 / 2n.  A tolerance  *)
(* is a fraction <<num, den>>.  The noise floors, logarithms of the sample *)
(* counts, only enter as "the sampling is adequate".                       *)
(***************************************************************************)
EXTENDS ArxDesigns, Functions, TLC

(* permutation.rs *)
Rounds(design, x, n) ==
    FoldLeft(LAMBDA s, r : design[r][s], x, [r \in 1 .. n |-> r])

Flip(x, i) == Xor(x, {i})

Occurrences(S, Test(_)) == Cardinality({k \in S : Test(k)})
Magnitude(n) == IF n < 0 THEN -n ELSE n

-----------------------------------------------------------------------------
(* avalanche.rs *)
Changed(F, x, i) == Xor(F[x], F[Flip(x, i)])

AvalancheMatrix(F, bits, samples) ==
    [c \in Positions(bits) \X Positions(bits) |->
        Occurrences(DOMAIN samples, LAMBDA k : c[2] \in Changed(F, samples[k], c[1]))]

Deviation(count, n) == Magnitude(2 * count - n)
MaxDeviation(grid, n) == Max({0} \cup {Deviation(grid[c], n) : c \in DOMAIN grid})
SumOfDeviations(grid, n) == MapThenSumSet(LAMBDA c : Deviation(grid[c], n), DOMAIN grid)
DeadPairs(grid) == Occurrences(DOMAIN grid, LAMBDA c : grid[c] = 0)

Within(deviation, n, tolerance) == deviation * tolerance[2] <= 2 * n * tolerance[1]
IsFullAvalanche(grid, n, tolerance) == Within(MaxDeviation(grid, n), n, tolerance)

(* rounds_to_avalanche: the sweep, and its first full round, 0 for none.   *)
AvalancheSweep(design, bits, samples, tolerance) ==
    LET n == Len(samples)
        after == [r \in DOMAIN design |->
                    AvalancheMatrix([x \in Word(bits) |-> Rounds(design, x, r)], bits, samples)]
        full == {r \in DOMAIN design : IsFullAvalanche(after[r], n, tolerance)}
    IN [per_round |-> [r \in DOMAIN design |->
                         <<MaxDeviation(after[r], n), SumOfDeviations(after[r], n), DeadPairs(after[r])>>],
        rounds_to_avalanche |-> IF full = {} THEN 0 ELSE Min(full)]

-----------------------------------------------------------------------------
(* bic.rs: a cell is <<input bit, output bit, later output bit>>.          *)
BicCells(bits) ==
    {c \in Positions(bits) \X Positions(bits) \X Positions(bits) : c[2] < c[3]}

(* phi, None as NoPhi: the numerator and the square of the denominator *)
NoPhi == <<0, 0>>

(* Mutation of Phi: a column that never changes passes as uncorrelated. *)
PhiOfConstants(n, n11, nj, nk) ==
    IF nj = 0 \/ nk = 0 \/ nj = n \/ nk = n THEN <<0, 1>>
    ELSE <<n * n11 - nj * nk, nj * (n - nj) * nk * (n - nk)>>

Phi(n, n11, nj, nk) ==
    IF nj = 0 \/ nk = 0 \/ nj = n \/ nk = n THEN NoPhi
    ELSE <<n * n11 - nj * nk, nj * (n - nj) * nk * (n - nk)>>

(* samples[i] are the base states of input bit i, disjoint per input bit.  *)
BicCorrelations(F, bits, samples) ==
    LET Column(i, j) == {s \in DOMAIN samples[i] : j \in Changed(F, samples[i][s], i)}
        columns == [c \in Positions(bits) \X Positions(bits) |-> Column(c[1], c[2])]
    IN [c \in BicCells(bits) |->
          LET a == columns[c[1], c[2]]
              b == columns[c[1], c[3]]
          IN Phi(Len(samples[c[1]]), Cardinality(a \cap b), Cardinality(a), Cardinality(b))]

Precedes(c, d) ==
    \/ c[1] < d[1]
    \/ c[1] = d[1] /\ (c[2] < d[2] \/ (c[2] = d[2] /\ c[3] < d[3]))

(* |r| of one cell against another, both defined. *)
Stronger(r, q) == r[1] * r[1] * q[2] > q[1] * q[1] * r[2]

BicResult(F, bits, samples) ==
    LET r == BicCorrelations(F, bits, samples)
        defined == {c \in DOMAIN r : r[c] # NoPhi}
        strongest == {c \in defined : r[c][1] # 0 /\ \A d \in defined : ~Stronger(r[d], r[c])}
        at == CHOOSE c \in strongest : \A d \in strongest \ {c} : Precedes(c, d)
    IN [cells |-> Cardinality(DOMAIN r),
        undefined |-> Cardinality(DOMAIN r \ defined),
        max |-> IF strongest = {} THEN <<0, 1>> ELSE r[at],
        max_at |-> IF strongest = {} THEN <<0, 0, 0>> ELSE at]

(* coverage above 99 % and no |r| above the tolerance. *)
IsIndependent(result, adequate, tolerance) ==
    /\ adequate
    /\ 100 * (result.cells - result.undefined) > 99 * result.cells
    /\ result.max[1] * result.max[1] * tolerance[2] * tolerance[2]
         <= result.max[2] * tolerance[1] * tolerance[1]

-----------------------------------------------------------------------------
(* structural.rs, over maps of 0 .. 2^bits - 1. *)
NoPair == <<>>

Bijectivity(F) ==
    LET again == {x \in DOMAIN F : \E w \in DOMAIN F : w < x /\ F[w] = F[x]}
        x == Min(again)
    IN [unreached |-> Cardinality(DOMAIN F \ {F[y] : y \in DOMAIN F}),
        collision |-> IF again = {} THEN NoPair
                      ELSE <<Min({w \in DOMAIN F : F[w] = F[x]}), x>>]

IsBijection(b) == b.unreached = 0 /\ b.collision = NoPair

(* cycle_spectrum, for a bijection: the length of every cycle by its least *)
(* member, where the scan meets it.                                        *)
Iterate(F, x, n) == FoldLeft(LAMBDA y, i : F[y], x, [i \in 1 .. n |-> i])
CycleLength(F, x) == Min({n \in 1 .. Cardinality(DOMAIN F) : Iterate(F, x, n) = x})
IsLeast(F, x) == \A n \in 1 .. CycleLength(F, x) : x <= Iterate(F, x, n)

CycleSpectrum(F) ==
    LET starts == {x \in DOMAIN F : IsLeast(F, x)}
    IN [x \in starts |-> CycleLength(F, x)]

IsSingleCycle(spectrum) == Cardinality(DOMAIN spectrum) = 1
WeakSeeds(spectrum, threshold) ==
    MapThenSumSet(LAMBDA x : spectrum[x], {x \in DOMAIN spectrum : spectrum[x] < threshold})

-----------------------------------------------------------------------------
(* saturation.rs; 0 for None. *)
StaysWithinFrom(within) ==
    LET from == {i \in DOMAIN within : \A k \in i .. Len(within) : within[k]}
    IN IF from = {} THEN 0 ELSE Min(from)

(* samples are <<x, y>>; the band is a fraction of the floor. *)
SaturationPoint(samples, floor, band) ==
    StaysWithinFrom([i \in DOMAIN samples |-> samples[i][2] * band[2] <= floor * band[1]])

CrossingsAbove(samples, floor, from) ==
    LET considered == {i \in DOMAIN samples : samples[i][1] >= from}
    IN <<Occurrences(considered, LAMBDA i : samples[i][2] > floor), Cardinality(considered)>>

-----------------------------------------------------------------------------
(* linearity.rs *)
Exchanged(rows, i, j) == [rows EXCEPT ![i] = rows[j], ![j] = rows[i]]

(* One column of gf2_rank. *)
Eliminate(s, col) ==
    LET pivots == {r \in s.rank + 1 .. Len(s.rows) : col \in s.rows[r]}
        rows == Exchanged(s.rows, s.rank + 1, Min(pivots))
    IN IF pivots = {} THEN s
       ELSE [rank |-> s.rank + 1,
             rows |-> [r \in DOMAIN rows |->
                         IF r # s.rank + 1 /\ col \in rows[r] THEN Xor(rows[r], rows[s.rank + 1])
                         ELSE rows[r]]]

Gf2Rank(rows, bits) ==
    FoldLeft(Eliminate, [rows |-> rows, rank |-> 0], [c \in 1 .. bits |-> c - 1]).rank

(* Directions: bits of one lane, or one bit in every lane in turn. *)
LaneBits(lane, first, count, laneWidth) ==
    [i \in 1 .. count |-> {lane * laneWidth + first + i - 1}]

AcrossLanes(lanes, count, laneWidth) ==
    [i \in 1 .. count |->
        {((i - 1) % lanes) * laneWidth + ((((i - 1) \div lanes) * 7) % laneWidth)}]

Combined(base, directions, choice) == FoldSet(LAMBDA d, x : Xor(x, directions[d]), base, choice)

(* subspace_rank; choices[i] are the directions row i draws, perhaps none. *)
SubspaceRank(F, bits, base, directions, choices) ==
    Gf2Rank([i \in DOMAIN choices |-> Xor(F[Combined(base, directions, choices[i])], F[base])], bits)

CollapsedToSubspace(rank, dim) == rank <= dim

(* affine_residual: the bits in which F differs from its derivative.       *)
AffineResidual(F, bits, base, samples) ==
    LET Approx(x) == FoldSet(LAMBDA i, y : Xor(y, Changed(F, base, i)), F[base], Xor(x, base))
    IN SumFunction([k \in DOMAIN samples |-> Cardinality(Xor(F[samples[k]], Approx(samples[k])))])

(* full_rank_probability as a fraction: every row is outside the span of   *)
(* those before it.                                                        *)
FullRankProbability(rows, cols) ==
    FoldLeft(LAMBDA f, i : <<f[1] * (2^(cols - i) - 1), f[2] * 2^(cols - i)>>, <<1, 1>>,
             [i \in 1 .. rows |-> i - 1])

Summarise(rows, ranks) ==
    LET Short(k) == rows - ranks[k]
    IN [full_rank |-> Occurrences(DOMAIN ranks, LAMBDA k : Short(k) = 0),
        deficiency |-> SumFunction([k \in DOMAIN ranks |-> Short(k)]),
        histogram |-> [d \in 0 .. 4 |-> Occurrences(DOMAIN ranks, LAMBDA k : Min({Short(k), 4}) = d)]]

-----------------------------------------------------------------------------
(* branch.rs: the ChaCha wiring with xor for addition, n steps per group.  *)
WordWeight(w) == Occurrences(DOMAIN w, LAMBDA i : w[i] # {})

LinearQuarter(w, n, g) ==
    LET Step(v, i) == IF i % 2 = 0
                      THEN XorRot([v EXCEPT ![g[1]] = Xor(@, v[g[2]])], g[4], g[1], ChaChaRot[(i % 4) + 1])
                      ELSE XorRot([v EXCEPT ![g[3]] = Xor(@, v[g[4]])], g[2], g[3], ChaChaRot[(i % 4) + 1])
    IN FoldLeft(Step, w, [i \in 1 .. n |-> i - 1])

LinearRounds(w, n, rounds) ==
    LET Round(v, r) == FoldLeft(LAMBDA u, g : LinearQuarter(u, n, g), v,
                                IF r % 2 = 0 THEN Columns ELSE Diagonals)
    IN FoldLeft(Round, w, [r \in 1 .. rounds |-> r - 1])

StateBits(w) == Positions(16 * w)
State(bits) == [l \in Lanes |-> {b - l * WordSize : b \in {c \in bits : c \div WordSize = l}}]

(* LinearMap: its columns, its application and what it looks at. *)
LinearMap(n, rounds) == [j \in StateBits(WordSize) |-> LinearRounds(State({j}), n, rounds)]
ApplyMap(map, bits) ==
    [i \in Lanes |-> {b \in Positions(WordSize) :
                        Cardinality({j \in bits : b \in map[j][i]}) % 2 = 1}]
DependencyMatrix(map) ==
    [i \in Lanes |-> {l \in Lanes : \E j \in StateBits(WordSize) : j \div WordSize = l /\ map[j][i] # {}}]

BranchTotal(map, bits) == WordWeight(State(bits)) + WordWeight(ApplyMap(map, bits))

BitwiseBranchBound(map, maxWeight) ==
    Min({BranchTotal(map, bits) :
            bits \in UNION {kSubset(k, StateBits(WordSize)) : k \in 1 .. Min({Max({maxWeight, 1}), 3})}})

(* The least pattern of active words, its image under the dependencies.    *)
PatternImage(dependencies, v) == {i \in Lanes : dependencies[i] \cap v # {}}
PatternBranchNumber(dependencies) ==
    Min({Cardinality(v) + Cardinality(PatternImage(dependencies, v)) : v \in SUBSET Lanes \ {{}}})

(* bitwise_branch_witness: a difference of at most two bits that attains   *)
(* the bound, run through the rounds themselves.  The code keeps the first *)
(* of several.                                                             *)
BitwiseBranchWitness(n, rounds) ==
    LET Total(bits) == WordWeight(State(bits)) + WordWeight(LinearRounds(State(bits), n, rounds))
        considered == {<<bits, Total(bits)>> : bits \in kSubset(1, StateBits(WordSize)) \cup kSubset(2, StateBits(WordSize))}
        best == CHOOSE c \in considered : \A d \in considered : c[2] <= d[2]
    IN [bits |-> best[1], total |-> best[2]]

-----------------------------------------------------------------------------
(* bench.rs.  A reading is a cost in integers; NoCycles stands for a       *)
(* counter the platform does not have.                                     *)
NoCycles == -1

(* The reading with k below it, from 0, in any function to integers.       *)
Ranked(readings, k) ==
    LET Rank(i) == Occurrences(DOMAIN readings, LAMBDA j :
                      readings[j] < readings[i] \/ (readings[j] = readings[i] /\ j < i))
    IN readings[CHOOSE i \in DOMAIN readings : Rank(i) = k]

Median(readings) == Ranked(readings, Cardinality(DOMAIN readings) \div 2)

(* measure_dual; thread is empty where cycles of a thread cannot be read.  *)
MeasureDual(tsc, thread) ==
    [tsc |-> Min(Range(tsc)), tsc_median |-> Median(tsc),
     thread |-> IF thread = <<>> THEN NoCycles ELSE Min(Range(thread)),
     thread_median |-> IF thread = <<>> THEN NoCycles ELSE Median(thread)]

(* The case a battery runs in its k-th place, both from 0. *)
RotatedCase(n, battery, k) == (battery + k) % n

(* Readings in the order of the batteries; measured[b, k] is what place k  *)
(* of battery b reads.                                                     *)
RotatedBattery(n, batteries, measured) ==
    [i \in 0 .. n - 1 |->
        [b \in 1 .. batteries |->
            measured[b - 1, CHOOSE k \in 0 .. n - 1 : RotatedCase(n, b - 1, k) = i]]]

(* Spread as the fraction (hi - lo) / lo, and the worst of several.        *)
Spread(readings) == <<Max(Range(readings)) - Min(Range(readings)), Min(Range(readings))>>

IsLess(f, g) == f[1] * g[2] < g[1] * f[2]

NoiseFloor(cases) ==
    LET spreads == {Spread(cases[i]) : i \in DOMAIN cases}
    IN CHOOSE s \in spreads : \A other \in spreads : ~IsLess(s, other)
=============================================================================
