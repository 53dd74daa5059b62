---------------------------- MODULE SearchPrograms ----------------------------
(***************************************************************************)
(* The search programs under crates/statelab-crypto/examples: what each    *)
(* concludes from what its batteries measure, the gates and controls that  *)
(* stop it early, and the two hill climbs over wirings.                    *)
(*                                                                         *)
(* A measurement of a design is, for each seed, the series of its greatest *)
(* deviations round by round.  Deviations, tolerances and cycle counts are *)
(* integers on one scale.  Tables that are only printed are left out.      *)
(***************************************************************************)
EXTENDS SearchDesigns

CONSTANTS Fitness(_),   \* the score of a wiring: any function, lower is better
          Patience,     \* stalls before a restart; 40 in the code
          MostChecked   \* hits looked at again on other seeds; 10 in topology_search.rs

Never == 0
ChaChaOps == 48
Bar == 192

-----------------------------------------------------------------------------
(* saturates: the worst seed, and never as soon as one seed never does.    *)
SettlesAt(devs, tolerance) ==
    SaturationPoint([r \in DOMAIN devs |-> <<r, devs[r]>>], tolerance, <<1, 1>>)

(* Mutation of Saturates: a seed that never saturates is passed over. *)
SaturatesSomewhere(seeds, tolerance) ==
    Max({SettlesAt(seeds[s], tolerance) : s \in DOMAIN seeds})

Saturates(seeds, tolerance) ==
    LET points == {SettlesAt(seeds[s], tolerance) : s \in DOMAIN seeds}
    IN IF Never \in points THEN Never ELSE Max(points)

(* sat gives each design the round it saturates at. *)
Winners(sat, ops, bar) == {d \in DOMAIN sat : sat[d] # Never /\ sat[d] * ops[d] < bar}

Fastest(sat, designs) ==
    LET seen == {sat[d] : d \in designs} \ {Never} IN IF seen = {} THEN Never ELSE Min(seen)

(* windows(2) over the designs that saturated *)
Falls(sat) ==
    LET seen == SelectSeq(sat, LAMBDA r : r # Never)
    IN \A i \in 1 .. Len(seen) - 1 : seen[i + 1] <= seen[i]

Gate(name, passes) == [name |-> name, passes |-> passes]

(* What a program reports: the gate it stopped at, or the designs that     *)
(* beat the bar and the numbers of the predictions that hold; 3 is always  *)
(* that none does.                                                         *)
Report(gates, winners, holds) ==
    LET failed == {i \in DOMAIN gates : ~gates[i].passes}
    IN IF failed # {} THEN [stopped |-> gates[Min(failed)].name, winners |-> {}, holds |-> {}]
       ELSE [stopped |-> "", winners |-> winners,
             holds |-> {p \in DOMAIN holds : holds[p]} \cup {p \in {3} : winners = {}}]

(* hits and ranks are those of the gates, full the number of states. *)
ChiChiGates(odd, even, full, ranks) ==
    <<Gate("lossy split", odd \subseteq {full}), Gate("even split passed", full \notin even),
      Gate("singular layer", ranks \subseteq {WordSize})>>

ChiChiSearch(designs, gates, control, sat) ==
    LET ops == [d \in DOMAIN designs |-> AndOpsPerRound(designs[d], 16)]
        best == Fastest(sat, DOMAIN sat)
    IN Report(Append(gates, Gate("control", control # Never)),
              Winners(sat, ops, Bar), <<FALSE, best # Never /\ best <= 9>>)

ChiInvertible(designs, hits, full, ranks, sat) ==
    LET ops == [d \in DOMAIN designs |-> AndOpsPerRound(designs[d], 16)]
        best == Fastest(sat, DOMAIN sat)
    IN Report(<<Gate("not a permutation", hits \subseteq {full} /\ ranks \subseteq {WordSize})>>,
              Winners(sat, ops, Bar), <<TRUE, best # Never /\ best < 6>>)

(* The bar is what the control needs. *)
ShapeSearch(shapes, control, sat) ==
    Report(<<Gate("control", control # Never)>>,
           Winners(sat, [d \in DOMAIN shapes |-> ShapeOps(shapes[d], 16)], control * ChaChaOps),
           <<control = 4, FALSE>>)

Strides == <<1, 2, 3, 5, 7, 8>>

ChiStrideSearch(sat) ==
    LET wide == Fastest(sat, 2 .. 5)
    IN Report(<<>>, Winners(sat, [d \in DOMAIN Strides |-> StrideOps(16)], Bar),
              <<sat[1] # Never /\ wide # Never /\ wide < sat[1],
                sat[6] = Never \/ (wide # Never /\ sat[6] > wide)>>)

GroupSizes == <<4, 8, 16>>

ArxGroupSearch(invertible, control, sat) ==
    LET ops == [d \in DOMAIN GroupSizes |-> GroupOps(GroupSizes[d], 16)]
    IN Report(<<Gate("not a permutation", invertible),
                Gate("cost varies", \A d \in DOMAIN ops : ops[d] = ChaChaOps),
                Gate("control", control # Never)>>,
              Winners(sat, ops, Bar),
              <<TRUE, Falls(sat) /\ Cardinality({d \in DOMAIN sat : sat[d] # Never}) > 1>>)

StepCounts == <<2, 3, 4, 5, 6, 8>>

ArxStepSearch(sat) ==
    LET ops == [d \in DOMAIN StepCounts |-> StepsOps(StepCounts[d])]
    IN Report(<<Gate("control", sat[3] = 4 /\ sat[3] * ops[3] = Bar)>>,
              Winners(sat, ops, Bar), <<TRUE, Falls(sat)>>)

(* One row of the margin analysis, from the deviations of all seeds. *)
Margin(devs, tolerance) ==
    LET worst == Max(Range(devs))
    IN [worst |-> worst, best |-> Min(Range(devs)),
        verdict |-> IF worst > tolerance THEN "fail"
                    ELSE IF 10 * (tolerance - worst) < tolerance THEN "PASS marginal" ELSE "PASS"]

-----------------------------------------------------------------------------
(* arx_step_cycles.rs: a timing has the cycles of its thread, unless there *)
(* are none to read, and those of the clock.                               *)
PerByte(t) == IF t.thread # NoCycles THEN t.thread ELSE t.tsc

Better(t, prev) ==
    IF t.thread # NoCycles /\ prev.thread # NoCycles
    THEN t.thread < prev.thread ELSE t.tsc < prev.tsc

(* timed[b, k] is what place k of battery b reads. *)
RotatedMin(n, batteries, timed) ==
    LET Reading(i, b) == timed[b, CHOOSE k \in 0 .. n - 1 : RotatedCase(n, b, k) = i]
    IN [i \in 0 .. n - 1 |->
          FoldLeft(LAMBDA best, b : IF Better(Reading(i, b), best) THEN Reading(i, b) ELSE best,
                   Reading(i, 0), [b \in 1 .. batteries - 1 |-> b])]

(* Timings in hundredths of a cycle per byte; margin[1] is the control.    *)
StepCycles(canary, margin) ==
    LET reading == PerByte(canary)
        control == PerByte(margin[1])
    IN Report(<<Gate("canary", reading \in 740 .. 830),
                Gate("control", 100 * Magnitude(control - reading) <= 5 * reading)>>,
              {i \in {0, 2} : 100 * (control - PerByte(margin[i])) > control}, <<>>)

-----------------------------------------------------------------------------
(* topology_search.rs: candidates in the order they are drawn.  devs[i] is *)
(* the series of candidate i over the confirming seeds, the first of which *)
(* also screens.  The first hits are confirmed on all of them.             *)
ScreenRounds == 3
Disconnected == 16

Prunes(topology) == Diameter(topology) > ScreenRounds

EarliestLeast(values, among) ==
    CHOOSE i \in among : \A j \in among : values[i] < values[j] \/ (values[i] = values[j] /\ i <= j)

(* take(n) of the hits *)
FirstOf(hits, n) == {i \in hits : Cardinality({j \in hits : j < i}) < n}

TopologySearch(control, candidates, devs, tolerance) ==
    LET screened == {i \in DOMAIN candidates : ~Prunes(candidates[i])}
        screen == [i \in DOMAIN devs |-> devs[i][1]]
        hits == {i \in screened : screen[i] <= tolerance}
        looked == FirstOf(hits, MostChecked)
    IN IF control # 4 THEN [stopped |-> "control"]
       ELSE [stopped |-> "", screened |-> screened, hits |-> hits,
             disconnected |-> {i \in DOMAIN candidates : Diameter(candidates[i]) = Disconnected},
             best |-> IF screened = {} THEN {} ELSE {EarliestLeast(screen, screened)},
             confirmed |-> {i \in looked : \A s \in DOMAIN devs[i] : devs[i][s] <= tolerance}]

(* qr_search.rs, topology_climb2.rs: cells out of tolerance *)
Offenders(grid, n, tolerance) ==
    Occurrences(DOMAIN grid, LAMBDA c : ~Within(Deviation(grid[c], n), n, tolerance))

Measured(grid, n, tolerance) ==
    [full |-> IsFullAvalanche(grid, n, tolerance), off |-> Offenders(grid, n, tolerance),
     dev |-> MaxDeviation(grid, n)]

(* run_arm of qr_search, over what its candidates measure.                 *)
QrArm(measured) ==
    LET off == [i \in DOMAIN measured |-> measured[i].off]
        best == EarliestLeast(off, DOMAIN off)
    IN [hits |-> {i \in DOMAIN measured : measured[i].full},
        best_off |-> off[best], best_dev |-> measured[best].dev]

(* Of the hits of the aligned arm the first five are confirmed, those      *)
(* clean on every seed; clean[i] are the seeds candidate i is full on.     *)
QrSearch(control, aligned, clean, seeds) ==
    LET hits == QrArm(aligned).hits
        looked == FirstOf(hits, 5)
    IN IF control # 4 THEN [stopped |-> "control", confirmed |-> {}]
       ELSE IF hits = {} THEN [stopped |-> "no hit", confirmed |-> {}]
       ELSE [stopped |-> "", confirmed |-> {i \in looked : clean[i] = seeds}]

-----------------------------------------------------------------------------
(* The climbs. *)
Start(best) == [cur |-> best, fit |-> Fitness(best), evals |-> 2, accepted |-> 0, stalls |-> 0]

BestRandom ==
    <<<<<<10, 4, 1, 12>>, <<7, 0, 11, 14>>, <<15, 2, 6, 9>>, <<8, 5, 13, 3>>>>,
      <<<<11, 12, 0, 2>>, <<10, 15, 1, 3>>, <<7, 5, 4, 6>>, <<8, 14, 9, 13>>>>>>
BestClimbed ==
    <<<<<<9, 4, 3, 12>>, <<7, 0, 11, 14>>, <<1, 2, 6, 10>>, <<8, 5, 13, 15>>>>,
      <<<<11, 9, 0, 2>>, <<10, 15, 1, 3>>, <<7, 5, 4, 6>>, <<8, 14, 12, 13>>>>>>

(* Mutation of Mutate: one lane is copied, not exchanged. *)
MutateCopying(t, m) == [t EXCEPT ![m.p][m.g1][m.i] = t[m.p][m.g2][m.j]]

(* m draws the partition, two groups and a place in each. *)
Mutate(t, m) ==
    [t EXCEPT ![m.p][m.g1][m.i] = t[m.p][m.g2][m.j], ![m.p][m.g2][m.j] = t[m.p][m.g1][m.i]]

Scored(c) == [c EXCEPT !.evals = @ + 1]
MovedTo(c, wiring) == [c EXCEPT !.cur = wiring, !.fit = Fitness(wiring)]

(* The restart: a fresh wiring that hangs together is scored as well.      *)
Restarted(c, fresh) ==
    LET tried == IF Diameter(fresh) = Disconnected THEN c ELSE Scored(c)
        better == Diameter(fresh) # Disconnected /\ Fitness(fresh) < c.fit
    IN [(IF better THEN MovedTo(tried, fresh) ELSE tried) EXCEPT !.stalls = 0]

(* One turn of the loop of topology_climb; fresh is only looked at when    *)
(* the climb has stalled long enough.                                      *)
ClimbTurn(c, cand, fresh) ==
    IF Diameter(cand) = Disconnected THEN c
    ELSE IF Fitness(cand) < c.fit
    THEN [MovedTo(Scored(c), cand) EXCEPT !.accepted = @ + 1, !.stalls = 0]
    ELSE IF c.stalls + 1 >= Patience THEN Restarted(Scored(c), fresh)
    ELSE [Scored(c) EXCEPT !.stalls = @ + 1]

(* topology_climb2 never restarts, and stops once nothing offends. *)
Climb2Turn(c, cand) ==
    IF Diameter(cand) = Disconnected THEN c
    ELSE IF Fitness(cand) < c.fit THEN [MovedTo(Scored(c), cand) EXCEPT !.accepted = @ + 1]
    ELSE Scored(c)

(* What a climb is confirmed by: the deviations of its wiring and of       *)
(* ChaCha's on the same seeds.  topology_confirm.rs confirms the best of   *)
(* the screen so.                                                          *)
Summary(devs) == [total |-> SumFunction(devs), low |-> Min(Range(devs)), high |-> Max(Range(devs))]

Wins(candidate, chacha) == Occurrences(DOMAIN candidate, LAMBDA s : candidate[s] < chacha[s])

(* rounds_to_avalanche of a series of deviations *)
FirstFull(devs, tolerance) ==
    LET full == {r \in DOMAIN devs : devs[r] <= tolerance} IN IF full = {} THEN Never ELSE Min(full)

(* candidate[s] and chacha[s] are the series of seed s. *)
TopologyConfirm(candidate, chacha, tolerance) ==
    LET At(series) == [s \in DOMAIN series |-> series[s][ScreenRounds]]
    IN [wins |-> Wins(At(candidate), At(chacha)),
        candidate |-> Summary(At(candidate)), chacha |-> Summary(At(chacha)),
        rounds |-> [s \in DOMAIN candidate |->
                      <<FirstFull(candidate[s], tolerance), FirstFull(chacha[s], tolerance)>>]]

(* The report of topology_climb: its gap is the total over the confirming  *)
(* seeds less what the score of the climb would make of as many.           *)
ClimbReport(fit, candidate, chacha, tolerance) ==
    LET confirmed == TopologyConfirm(candidate, chacha, tolerance)
    IN [confirmed |-> confirmed, gap |-> confirmed.candidate.total - fit * Len(candidate)]

(* The report of topology_climb2, over the offenders on each seed.         *)
Climb2Report(fit, offenders, chacha) ==
    [wins |-> Wins(offenders, chacha), gap |-> SumFunction(offenders) - fit * Len(offenders),
     clean |-> Occurrences(DOMAIN offenders, LAMBDA s : offenders[s] = 0)]

-----------------------------------------------------------------------------
(* topology_screen2.rs: every wiring that hangs together is measured at    *)
(* two rounds, and ranked by its dead pairs.                               *)
Rounded(num, den) == (2 * num + den) \div (2 * den)

TwoRoundScreen(control, candidates, measured) ==
    LET rows == {i \in DOMAIN candidates : Diameter(candidates[i]) # Disconnected}
        dead == [i \in rows |-> measured[i].dead]
        Bucket(d) == {i \in rows : Min({Diameter(candidates[i]), 7}) = d}
        Quantile(percent) == Ranked(dead, Rounded((Cardinality(rows) - 1) * percent, 100))
    IN [rows |-> rows, hits |-> {i \in rows : measured[i].full},
        best |-> IF rows = {} THEN {} ELSE {EarliestLeast(dead, rows)},
        better |-> Occurrences(rows, LAMBDA i : dead[i] < control.dead),
        quantiles |-> IF rows = {} THEN <<>> ELSE <<Quantile(0), Quantile(5), Quantile(50), Quantile(95), Quantile(100)>>,
        counts |-> [d \in 0 .. 7 |-> Cardinality(Bucket(d))],
        zero_dead |-> [d \in 0 .. 7 |-> Occurrences(Bucket(d), LAMBDA i : dead[i] = 0)]]
=============================================================================
