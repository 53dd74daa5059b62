------------------------------- MODULE Searches -------------------------------
(***************************************************************************)
(* The search programs of crates/statelab-crypto at work: their gates on   *)
(* states small enough to count, and their verdicts on measurements that   *)
(* come in every order.                                                    *)
(***************************************************************************)
EXTENDS Integers, Sequences, SequencesExt, FiniteSetsExt, Functions, TLC, CallState

CONSTANTS Fitness(_),     \* the score of a wiring
          Patience,       \* stalls before a restart
          MostChecked,    \* hits looked at again
          Measurements,   \* six designs' deviations: by seed, by round
          Tolerance,      \* the deviation a saturated design stays within
          Tables,         \* maps of two bits an arm may measure
          Timings         \* what a timer may read, by battery and place

(* Groups of four that follow one another, from 0 and from 1, and that     *)
(* stand four apart.                                                       *)
Blocks == [g \in 1 .. 4 |-> [k \in 1 .. 4 |-> 4 * (g - 1) + k - 1]]
Shifted == [g \in 1 .. 4 |-> [k \in 1 .. 4 |-> (4 * (g - 1) + k) % 16]]
Pillars == [g \in 1 .. 4 |-> [k \in 1 .. 4 |-> g - 1 + 4 * (k - 1)]]

(* Words of two bits in every lane. *)
TwoBits(a, b) == [i \in 0 .. 15 |-> {k \in 0 .. 1 : ((a * i + b) \div 2^k) % 2 = 1}]

P == INSTANCE SearchPrograms WITH WordSize <- 2
W == INSTANCE SearchDesigns WITH WordSize <- 32

Init == call = None

-----------------------------------------------------------------------------
(* The gates. *)
Layers == {P!Rho, P!RotateBy(7), P!XorRot2(19, 28)}

Splits(n, m) ==
    call' = [op |-> "gate", domain |-> 2^n, image |-> P!ChiChiHits(n, m), permutes |-> m % 2 = 1]

Halves(n, stride) ==
    call' = [op |-> "gate", domain |-> 2^n, image |-> P!FeistelHits(n, stride), permutes |-> TRUE]

States4 == [0 .. 3 -> SUBSET (0 .. 1)]

Plain == [nl |-> "chi", rots |-> <<<<1, 0>>>>, neighbour_xor |-> FALSE]

RoundOf(kind, s, round) ==
    CASE kind = "chichi" -> P!ChiChiRound(s, [m |-> 3, lin |-> P!Rho])
      [] kind = "feistel" -> P!FeistelRound(s, [stride |-> 1, lin |-> P!RotateBy(1)])
      [] kind = "group" -> P!GroupRound(s, 4, round)
      [] kind = "chi" -> P!ShapeRound(s, Plain, round)
      [] kind = "chi-half" -> P!ShapeRound(s, [Plain EXCEPT !.nl = "chi-half", !.neighbour_xor = TRUE], round)
      [] kind = "stride" -> P!StrideRound(s, [stride |-> 1, rot |-> 1])

Gated == {"chichi", "feistel", "group"}

OneRound(kind, round) ==
    call' = [op |-> "gate", domain |-> Cardinality(States4),
             image |-> Cardinality({RoundOf(kind, s, round) : s \in States4}),
             permutes |-> kind \in Gated]

Ranks(layer, lane) ==
    call' = [op |-> "gate", domain |-> 32, image |-> W!LinearRank(layer, lane), permutes |-> TRUE]

Undoes(g) ==
    LET states == {TwoBits(a, b) : a, b \in 0 .. 3}
    IN call' = [op |-> "gate", domain |-> 1, permutes |-> TRUE,
                image |-> IF P!RoundIsInvertible(g, states) THEN 1 ELSE 0]

-----------------------------------------------------------------------------
(* The verdicts.  The first two designs of a measurement stand for what    *)
(* the control measures where the control is another design.               *)
Programs == {"chichi", "invertible", "shape", "stride", "group", "step"}

ChiChiDesigns == [d \in 1 .. 6 |-> [lin |-> IF d <= 3 THEN P!Rho ELSE P!XorRot2(19, 28)]]
FeistelDesigns == [d \in 1 .. 4 |-> [lin |-> IF d <= 2 THEN P!RotateBy(7) ELSE P!XorRot2(19, 28)]]
Shape(nl, rots, neighbour) == [nl |-> nl, rots |-> rots, neighbour_xor |-> neighbour]
ShapeDesigns ==
    <<Shape("chi", <<<<19, 28>>, <<7, 41>>>>, FALSE), Shape("chi", <<<<19, 28>>>>, FALSE),
      Shape("chi", <<<<19, 28>>>>, TRUE), Shape("chi-half", <<<<19, 28>>>>, FALSE),
      Shape("chi-half", <<<<19, 28>>>>, TRUE)>>

Sizes == [chichi |-> 6, invertible |-> 4, shape |-> 5, stride |-> 6, group |-> 3, step |-> 6]

(* What a round costs, by program and design. *)
Cost(program, d) ==
    CASE program = "chichi" -> P!AndOpsPerRound(ChiChiDesigns[d], 16)
      [] program = "invertible" -> P!AndOpsPerRound(FeistelDesigns[d], 16)
      [] program = "shape" -> P!ShapeOps(ShapeDesigns[d], 16)
      [] program = "stride" -> P!StrideOps(16)
      [] program = "group" -> P!GroupOps(P!GroupSizes[d], 16)
      [] program = "step" -> P!StepsOps(P!StepCounts[d])

Verdict(program, sat, control, lossy) ==
    CASE program = "chichi" ->
            P!ChiChiSearch(ChiChiDesigns, P!ChiChiGates(IF lossy THEN {192} ELSE {256}, {192}, 256, {2}),
                           control, sat)
      [] program = "invertible" ->
            P!ChiInvertible(FeistelDesigns, {256}, 256, IF lossy THEN {1, 2} ELSE {2}, sat)
      [] program = "shape" -> P!ShapeSearch(ShapeDesigns, control, sat)
      [] program = "stride" -> P!ChiStrideSearch(sat)
      [] program = "group" -> P!ArxGroupSearch(~lossy, control, sat)
      [] program = "step" -> P!ArxStepSearch(sat)

Screens(program, measured, lossy) ==
    LET sat == [d \in 1 .. Sizes[program] |-> P!Saturates(measured[d], Tolerance)]
        control == P!Saturates(measured[6], Tolerance)
    IN call' = [op |-> "screen", program |-> program, measured |-> measured, lossy |-> lossy,
                control |-> control, report |-> Verdict(program, sat, control, lossy)]

Margins(seeds, round) ==
    LET devs == [s \in DOMAIN seeds |-> seeds[s][round]]
    IN call' = [op |-> "margin", devs |-> devs, row |-> P!Margin(devs, Tolerance)]

Reading(cycles, threads) ==
    [thread |-> IF threads THEN cycles ELSE P!NoCycles, tsc |-> IF threads THEN 830 ELSE cycles]

Times(cycles, canary, threads) ==
    LET timed == [p \in DOMAIN cycles |-> Reading(cycles[p], threads)]
        margin == P!RotatedMin(3, 2, timed)
    IN call' = [op |-> "times", cycles |-> cycles, canary |-> canary, margin |-> margin,
                report |-> P!StepCycles(Reading(canary, threads), margin)]

-----------------------------------------------------------------------------
(* The searches over wirings and over quarter rounds. *)
ScreensWirings(control, devs) ==
    LET candidates == <<P!BestRandom, <<Pillars, Pillars>>, P!ChaChaTopology, <<Blocks, Shifted>>>>
    IN call' = [op |-> "wirings", devs |-> devs,
                result |-> P!TopologySearch(control, candidates, devs, Tolerance)]

All2 == <<{}, {0}, {1}, {0, 1}>>

Arm(tables, clean, control) ==
    LET measured == [i \in DOMAIN tables |-> P!Measured(P!AvalancheMatrix(tables[i], 2, All2), 4, <<1, 4>>)]
    IN call' = [op |-> "arm", measured |-> measured, arm |-> P!QrArm(measured), clean |-> clean,
                result |-> P!QrSearch(control, measured, clean, {1, 2})]

Confirms(candidate, chacha, fit) ==
    call' = [op |-> "confirm", candidate |-> candidate, chacha |-> chacha,
             report |-> P!ClimbReport(fit, candidate, chacha, Tolerance)]

ConfirmsOffenders(offenders, chacha, fit) ==
    call' = [op |-> "offenders", offenders |-> offenders, chacha |-> chacha, fit |-> fit,
             report |-> P!Climb2Report(fit, offenders, chacha)]

ScreensTwoRounds(control, tables) ==
    LET Screened(table) ==
            LET grid == P!AvalancheMatrix(table, 2, All2)
            IN P!Measured(grid, 4, <<1, 4>>) @@ "dead" :> P!DeadPairs(grid)
        measured == <<Screened(tables[1]), Screened(tables[1]), Screened(tables[2]), Screened(tables[3])>>
        candidates == <<P!BestRandom, <<P!Columns, P!Columns>>, P!ChaChaTopology, P!BestClimbed>>
    IN call' = [op |-> "two rounds", control |-> Screened(control), measured |-> measured,
                result |-> P!TwoRoundScreen(Screened(control), candidates, measured)]

Calls ==
    \/ \E m \in 1 .. 7 : Splits(8, m)
    \/ \E stride \in 1 .. 3 : Halves(8, stride)
    \/ \E kind \in Gated \cup {"chi", "chi-half", "stride"}, round \in 0 .. 1 : OneRound(kind, round)
    \/ \E layer \in Layers, lane \in {0, 7, 15} : Ranks(layer, lane)
    \/ \E g \in Range(P!GroupSizes) : Undoes(g)
    \/ \E program \in Programs, measured \in Measurements, lossy \in BOOLEAN :
          Screens(program, measured, lossy)
    \/ \E measured \in Measurements, round \in 1 .. 3 : Margins(measured[1], round)
    \/ \E cycles \in Timings, canary \in {730, 740, 780, 835}, threads \in BOOLEAN :
          Times(cycles, canary, threads)
    \/ \E control \in {3, 4}, devs \in [1 .. 4 -> {<<1, 1>>, <<1, 3>>, <<2, 1>>, <<3, 1>>}] :
          ScreensWirings(control, devs)
    \/ \E tables \in [1 .. 3 -> Tables], clean \in [1 .. 3 -> {{1}, {1, 2}}], control \in {3, 4} :
          Arm(tables, clean, control)
    \/ \E measured \in Measurements, fit \in {2, 3} : Confirms(measured[1], measured[2], fit)
    \/ \E offenders, chacha \in [1 .. 3 -> 0 .. 2], fit \in 0 .. 1 :
          ConfirmsOffenders(offenders, chacha, fit)
    \/ \E control \in Tables, tables \in [1 .. 3 -> Tables] : ScreensTwoRounds(control, tables)

Next == call = None /\ Calls

-----------------------------------------------------------------------------
(* What passes a gate permutes and what a gate refuses does not: ChiChi on *)
(* an odd split but on no even one (chichi_search.rs:203), the Feistel     *)
(* form on any stride (chi_invertible.rs:194), rounds of groups            *)
(* (arx_group_search.rs:199); never the chi of sixteen lanes               *)
(* (chi_invertible.rs:71).                                                 *)
GatesTell == call.op = "gate" => (call.image = call.domain <=> call.permutes)

(* The design saturates on every seed at a cost under the bar. *)
IsUnder(d, bar) ==
    \A s \in DOMAIN call.measured[d] :
        LET devs == call.measured[d][s]
        IN \E k \in DOMAIN devs : /\ \A r \in k .. Len(devs) : devs[r] <= Tolerance
                                 /\ k * Cost(call.program, d) < bar

ScreensAreSound ==
    LET bar == IF call.program = "shape" THEN call.control * P!ChaChaOps ELSE P!Bar
    IN /\ call.report.stopped = "" =>
            call.report.winners = {d \in 1 .. Sizes[call.program] : IsUnder(d, bar)}
       /\ call.lossy /\ call.program \in {"chichi", "invertible", "group"} =>
            call.report.stopped # ""
       /\ call.report.stopped # "" => call.report.winners = {} /\ call.report.holds = {}

TimingsAreSound ==
    LET Cycles(i) == {call.cycles[b, (i - b) % 3] : b \in 0 .. 1}
    IN /\ \A i \in 0 .. 2 : P!PerByte(call.margin[i]) = Min(Cycles(i))
       /\ call.report.stopped = "" =>
            \A i \in {0, 2} :
                i \in call.report.winners <=>
                    \E v \in Cycles(i) : \A c \in Cycles(1) : 100 * v < 99 * c

WiringsAreSound ==
    LET r == call.result
        screened == {i \in 1 .. 4 : \A s \in DOMAIN call.devs[i] : call.devs[i][s] <= Tolerance}
    IN r.stopped = "" =>
         /\ r.confirmed \subseteq screened \cap r.screened
         /\ \A i \in (screened \cap r.screened) \ r.confirmed :
               Cardinality({j \in r.hits : j < i}) >= MostChecked
         /\ r.screened \cap r.disconnected = {}
         /\ \A b \in r.best, i \in r.screened : call.devs[b][1] <= call.devs[i][1]
         /\ r.hits # {} => r.best \subseteq r.hits

ConfirmationsAreSound ==
    LET r == call.report.confirmed
    IN /\ r.candidate.high < r.chacha.low => r.wins = Len(call.candidate)
       /\ r.wins = Len(call.candidate) => r.candidate.total < r.chacha.total
       /\ r.wins = 0 => r.candidate.total >= r.chacha.total
       /\ r.candidate.high <= Tolerance =>
            \A s \in DOMAIN r.rounds : r.rounds[s][1] \in 1 .. P!ScreenRounds

OffendersAreSound ==
    LET r == call.report
        all == DOMAIN call.offenders
    IN /\ r.clean = Cardinality(all) /\ (\A s \in all : call.chacha[s] > 0) => r.wins = r.clean
       /\ r.wins = 0 => \A s \in all : call.offenders[s] = 0 => call.chacha[s] = 0
       /\ call.fit = 0 => (r.gap = 0 <=> r.clean = Cardinality(all))

(* The wirings that fall apart are in no row.  A hit has no dead pair, and *)
(* the best is the least quantile; none is better when ChaCha has as few.  *)
TwoRoundsAreSound ==
    LET r == call.result
        q == r.quantiles
    IN /\ 2 \notin r.rows
       /\ \A i \in r.hits : call.measured[i].dead = 0
       /\ \A i \in r.best : q[1] = call.measured[i].dead
       /\ \A k \in 1 .. 4 : q[k] <= q[k + 1]
       /\ r.better = 0 <=> call.control.dead <= q[1]
       /\ MapThenSumSet(LAMBDA d : r.counts[d], 0 .. 7) = Cardinality(r.rows)
       /\ (\A d \in 0 .. 7 : r.zero_dead[d] = 0) <=> q[1] > 0

(* A winner is under the bar on every seed and passed its gate             *)
(* (chichi_search.rs:227, 324); a margin passes when every seed does       *)
(* (arx_step_margin.rs:140); the least of rotated timings is each design's *)
(* own (arx_step_cycles.rs:216); no offender is exactly full avalanche     *)
(* (topology_climb2.rs:66), so an arm has a hit when its best has none     *)
(* (qr_search.rs:83); a confirmation counts the seeds won outright         *)
(* (topology_confirm.rs:92), and the screen at two rounds ranks all that   *)
(* hang together (topology_screen2.rs:62).                                 *)
SearchesAreSound ==
    /\ call.op = "screen" => ScreensAreSound
    /\ call.op = "times" => TimingsAreSound
    /\ call.op = "wirings" => WiringsAreSound
    /\ call.op = "confirm" => ConfirmationsAreSound
    /\ call.op = "offenders" => OffendersAreSound
    /\ call.op = "two rounds" => TwoRoundsAreSound
    /\ call.op = "margin" =>
         /\ call.row.verdict # "fail" <=> \A s \in DOMAIN call.devs : call.devs[s] <= Tolerance
         /\ call.row.verdict = "PASS" => \A s \in DOMAIN call.devs : 10 * call.devs[s] <= 9 * Tolerance
    /\ call.op = "arm" =>
         /\ \A i \in DOMAIN call.measured : call.measured[i].full <=> call.measured[i].off = 0
         /\ call.arm.best_off = 0 <=> call.arm.hits # {}
         /\ \A i \in call.result.confirmed : call.clean[i] = {1, 2} /\ call.measured[i].full
=============================================================================
