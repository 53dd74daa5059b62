---------------------------- MODULE NumberSystems ----------------------------
(***************************************************************************)
(* The two systems the repository ships, Classic Collatz and 5n+1          *)
(* (crates/statelab-engine/src/systems), their hand-verified validation    *)
(* cases, the trajectories the engine makes of them, one at a time, and    *)
(* the metrics that bigint_metrics.rs extracts from a trajectory.          *)
(*                                                                         *)
(* A ratio is kept in thousandths, rounded down; a metric that is JSON     *)
(* null is NA.  What a sequence has at index i of the code is at i + 1.    *)
(***************************************************************************)
EXTENDS Integers, Sequences, SequencesExt, FiniteSetsExt, CallState

CONSTANTS Starts,     \* initial states
          Limits      \* iteration limits

(* Neither system accepts 0. *)
ASSUME RunAssumption == Starts \subseteq Nat \ {0} /\ Limits \subseteq Nat

NA == -1
Scale == 1000

Multiplier == [collatz |-> 3, five |-> 5]

Transition(system, n) ==
    IF n % 2 = 1 THEN Multiplier[system] * n + 1 ELSE n \div 2

ReachedOne(n) == n = 1

(* A parsed initial state; NA is a text that is not a natural number. *)
ValidState(value) == value \notin {NA, 0}

-----------------------------------------------------------------------------
Stops(states, limit) ==
    /\ Len(states) > 1
    /\ \/ ReachedOne(Last(states))
       \/ Last(states) \in ToSet(Front(states))
       \/ Len(states) - 1 >= limit

(* The first transition is made whatever the limit. *)
MostSteps(limit) == IF limit = 0 THEN 1 ELSE limit

(* A turn of the loop; after the run has stopped it adds nothing. *)
Turned(system, states, limit) ==
    IF Stops(states, limit) THEN states ELSE Append(states, Transition(system, Last(states)))

(* The states after as many turns as the limit allows. *)
Extended(system, n, limit) ==
    LET after[k \in 0 .. MostSteps(limit)] ==
            IF k = 0 THEN <<n>> ELSE Turned(system, after[k - 1], limit)
    IN after[MostSteps(limit)]

StatusOf(states) ==
    CASE ReachedOne(Last(states)) -> "Converged"
      [] ~ReachedOne(Last(states)) /\ Last(states) \in ToSet(Front(states)) -> "CycleDetected"
      [] OTHER -> "IterationLimitReached"

RunSystem(system, n, limit) ==
    LET states == Extended(system, n, limit)
    IN [status |-> StatusOf(states), states |-> states, iterations |-> Len(states) - 1]

Case(system, n, status, states) ==
    [system |-> system, n |-> n, status |-> status, states |-> states]

CollatzDataset ==
    { Case("collatz", states[1], "Converged", states) : states \in
        { <<1, 4, 2, 1>>,
          <<2, 1>>,
          <<3, 10, 5, 16, 8, 4, 2, 1>>,
          <<6, 3, 10, 5, 16, 8, 4, 2, 1>>,
          <<7, 22, 11, 34, 17, 52, 26, 13, 40, 20, 10, 5, 16, 8, 4, 2, 1>> } }

FiveNPlusOneDataset ==
    { Case("five", 1, "Converged", <<1, 6, 3, 16, 8, 4, 2, 1>>),
      Case("five", 3, "Converged", <<3, 16, 8, 4, 2, 1>>),
      Case("five", 13, "CycleDetected", <<13, 66, 33, 166, 83, 416, 208, 104, 52, 26, 13>>) }

-----------------------------------------------------------------------------
(* bigint_metrics.rs *)

(* One bit per transition, of the value BEFORE it. *)
Parity(states) == [i \in 1 .. Len(states) - 1 |-> states[i] % 2]

CountOf(s, v) == Cardinality({i \in DOMAIN s : s[i] = v})

(* Mutation of PeakIndex: a later equal value takes over. *)
LastPeakIndex(states) ==
    LET Higher(i, peak) == IF states[i] >= states[peak] THEN i ELSE peak
        after[i \in 0 .. Len(states)] == IF i = 0 THEN 1 ELSE Higher(i, after[i - 1])
    IN after[Len(states)] - 1

PeakIndex(states) ==
    LET Higher(i, peak) == IF states[i] > states[peak] THEN i ELSE peak
        after[i \in 0 .. Len(states)] == IF i = 0 THEN 1 ELSE Higher(i, after[i - 1])
    IN after[Len(states)] - 1

(* How often a number is halved before it is zero. *)
Bits[n \in Nat] == IF n = 0 THEN 0 ELSE 1 + Bits[n \div 2]

BitLengths(states) == [i \in DOMAIN states |-> Bits[states[i]]]

TransitionStatistics(lengths) ==
    LET steps == 1 .. Len(lengths) - 1
    IN [increases |-> Cardinality({i \in steps : lengths[i + 1] > lengths[i]}),
        decreases |-> Cardinality({i \in steps : lengths[i + 1] < lengths[i]}),
        same |-> Cardinality({i \in steps : lengths[i + 1] = lengths[i]})]

StoppingTime(states) ==
    LET below == {i \in 2 .. Len(states) : states[i] < states[1]}
    IN IF below = {} THEN NA ELSE Min(below) - 1

TotalStoppingTime(states) == IF ReachedOne(Last(states)) THEN Len(states) - 1 ELSE NA

RatioOrNull(a, b) == IF b = 0 THEN NA ELSE (a * Scale) \div b

(* One more bit of a parity sequence: its last run goes on, or ends. *)
Longer(lengths, parity, i) ==
    IF i > 1 /\ parity[i] = parity[i - 1]
    THEN [lengths EXCEPT ![Len(lengths)] = @ + 1]
    ELSE Append(lengths, 1)

RunLengths(parity) ==
    LET lengths[i \in 0 .. Len(parity)] ==
            IF i = 0 THEN <<>> ELSE Longer(lengths[i - 1], parity, i)
    IN lengths[Len(parity)]

(* The mean of next / current over the transitions of one parity. *)
MeanRatio(states, parity, bit) ==
    LET steps == {i \in DOMAIN parity : parity[i] = bit /\ states[i] # 0}
        total[i \in 0 .. Len(parity)] ==
            IF i = 0 THEN 0
            ELSE IF i \in steps THEN total[i - 1] + RatioOrNull(states[i + 1], states[i])
            ELSE total[i - 1]
    IN IF steps = {} THEN NA ELSE total[Len(parity)] \div Cardinality(steps)

Metrics(states) ==
    LET parity == Parity(states)
        lengths == BitLengths(states)
        steps == Len(states) - 1
        odd == CountOf(parity, 1)
    IN [stopping_time       |-> StoppingTime(states),
        total_stopping_time |-> TotalStoppingTime(states),
        peak_value          |-> states[PeakIndex(states) + 1],
        peak_index          |-> PeakIndex(states),
        odd_count           |-> odd,
        even_count          |-> steps - odd,
        odd_ratio           |-> RatioOrNull(odd, steps),
        even_ratio          |-> RatioOrNull(steps - odd, steps),
        parity_sequence     |-> parity,
        maximum_bit_length  |-> Max(ToSet(lengths)),
        bit_length_evolution |-> lengths,
        binary_transition_statistics |-> TransitionStatistics(lengths),
        run_length_statistics |-> RunLengths(parity),
        average_growth      |-> MeanRatio(states, parity, 1),
        average_decline     |-> MeanRatio(states, parity, 0)]

-----------------------------------------------------------------------------
Runs(system, n, limit) ==
    call' = [op |-> "run", system |-> system, limit |-> limit, out |-> RunSystem(system, n, limit)]

RunsInit == call = None

RunsNext ==
    call = None /\ \E system \in DOMAIN Multiplier, n \in Starts, limit \in Limits :
                       Runs(system, n, limit)

RunsSpec == RunsInit /\ [][RunsNext]_call

-----------------------------------------------------------------------------
(* The runs of a parity sequence written out again. *)
Unrolled(lengths, first) ==
    LET bits[k \in 0 .. Len(lengths)] ==
            IF k = 0 THEN <<>>
            ELSE bits[k - 1] \o [i \in 1 .. lengths[k] |-> (first + k - 1) % 2]
    IN bits[Len(lengths)]

(* What the metrics say of one run must hang together: halving is the only *)
(* step that shortens a number and every odd step lengthens it, the runs   *)
(* unroll to the parity sequence, the peak is the first of the largest,    *)
(* and the first value below the start comes before the end.               *)
MetricsHang(states, m) ==
    /\ m.binary_transition_statistics =
         [increases |-> m.odd_count, decreases |-> m.even_count, same |-> 0]
    /\ Unrolled(m.run_length_statistics, states[1] % 2) = m.parity_sequence
    /\ \A i \in DOMAIN states :
          /\ states[i] <= m.peak_value
          /\ states[i] = m.peak_value => m.peak_index <= i - 1
    /\ m.stopping_time # NA =>
          /\ states[m.stopping_time + 1] < states[1]
          /\ \A i \in 1 .. m.stopping_time : states[i] >= states[1]
    /\ ReachedOne(Last(states)) /\ states[1] > 1 => m.stopping_time \in 1 .. m.total_stopping_time
    /\ m.average_decline \in {NA, Scale \div 2}

Known(system) ==
    {c \in CollatzDataset \cup FiveNPlusOneDataset : c.system = system}

(* A run of either system ends for the reason it states, as soon as there  *)
(* is one, and at the limit without another; its metrics hang together     *)
(* (bigint_metrics.rs); and with the limit out of the way the hand-        *)
(* verified cases come out (collatz/validation.rs:13,                      *)
(* five_n_plus_one/validation.rs:14).                                      *)
RunsHangTogether ==
    call.op = "run" =>
        LET run == call.out
            cycle == Last(run.states) \in ToSet(Front(run.states))
        IN /\ MetricsHang(run.states, Metrics(run.states))
           /\ IsInjective(Front(run.states))
           /\ run.status = "CycleDetected" => cycle /\ Last(run.states) # 1
           /\ run.status = "IterationLimitReached" =>
                 ~cycle /\ run.iterations = MostSteps(call.limit)
           /\ \A c \in Known(call.system) :
                 c.n = run.states[1] /\ run.status # "IterationLimitReached" =>
                     c.status = run.status /\ c.states = run.states
=============================================================================
