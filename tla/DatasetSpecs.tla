----------------------------- MODULE DatasetSpecs -----------------------------
(***************************************************************************)
(* The seven generators of crates/statelab-dataset, and the rows a dataset *)
(* comes to.                                                               *)
(***************************************************************************)
EXTENDS DatasetRequests, Words, NumberSystems

CONSTANTS Specs,         \* dataset specifications
          MaxItems,      \* MAX_DATASET_ITEMS
          StateWidth,    \* bits of the xorshift state, 64 in the code
          Shifts,        \* its three shifts, 13, 7 and 17 in the code
          Golden         \* what a zero seed is replaced by

(* What a host hands over; the values of a CSV body are those the system   *)
(* accepts.                                                                *)
Described ==
    [type : {"range", "even", "odd"}, start : Nat, end : Nat]
    \cup [type : {"primes", "powers-of-two"}, count : Nat]
    \cup [type : {"random"}, count : Nat, max : Nat, seed : 0 .. 2^StateWidth - 1]
    \cup [type : {"csv"}, values : Seq(Nat \ {0})]

ASSUME SpecAssumption ==
    /\ {MaxItems, StateWidth} \subseteq Nat \ {0}
    /\ Shifts \in [1 .. 3 -> Nat \ {0}]
    /\ Golden \in 1 .. 2^StateWidth - 1
    /\ Specs \subseteq Described

-----------------------------------------------------------------------------
(* lib.rs *)
Ascending(S) ==
    [k \in 1 .. Cardinality(S) |-> CHOOSE x \in S : Cardinality({y \in S : y < x}) = k - 1]

IsPrime(n) ==
    \/ n = 2
    \/ /\ n > 2 /\ n % 2 = 1
       /\ \A d \in 3 .. n : d % 2 = 1 /\ d * d <= n => n % d # 0

NextPrime[candidate \in Nat] ==
    IF IsPrime(candidate + 1) THEN candidate + 1 ELSE NextPrime[candidate + 1]

(* The items of an iterator that keeps the last one, first to begin with.  *)
Iterated(Next(_), first, count) ==
    LET nth[k \in 1 .. count] == Next(IF k = 1 THEN first ELSE nth[k - 1])
    IN nth

Xorshift(x) ==
    LET a == Xor(x, Shl(x, Shifts[1], StateWidth))
        b == Xor(a, Shr(a, Shifts[2]))
    IN Xor(b, Shl(b, Shifts[3], StateWidth))

(* No nonzero state comes back within a dataset: the period of the code's  *)
(* shifts is 2^64 - 1.                                                     *)
ASSUME PeriodAssumption ==
    \A x \in Word(StateWidth) \ {{}} :
        \A n \in 1 .. MaxItems : Iterated(Xorshift, x, n)[n] # x

StateOf(n) == {i \in Positions(StateWidth) : (n \div 2^i) % 2 = 1}

(* Mutation of Seeded: a zero seed is kept. *)
SeededAsIs(seed) == StateOf(seed)

Seeded(seed) == StateOf(IF seed = 0 THEN Golden ELSE seed)

(* The initial states a specification stands for. *)
States(spec) ==
    CASE spec.type = "range" -> Ascending(AtLeastOne(spec.start) .. spec.end)
      [] spec.type = "even" -> Ascending({n \in AtLeastOne(spec.start) .. spec.end : n % 2 = 0})
      [] spec.type = "odd" -> Ascending({n \in AtLeastOne(spec.start) .. spec.end : n % 2 # 0})
      [] spec.type = "powers-of-two" -> [k \in 1 .. spec.count |-> 2^(k - 1)]
      [] spec.type = "primes" -> Iterated(LAMBDA p : NextPrime[p], 1, spec.count)
      [] spec.type = "random" ->
            LET xs == Iterated(Xorshift, Seeded(spec.seed), spec.count)
            IN [k \in DOMAIN xs |-> (Value(xs[k]) % AtLeastOne(spec.max)) + 1]
      [] spec.type = "csv" -> spec.values

Items(spec) == SubSeq(States(spec), 1, Min({Len(States(spec)), MaxItems}))

Summarize(run) ==
    LET m == Metrics(run.states)
    IN [initial_state       |-> run.states[1],
        iteration_count     |-> run.iterations,
        status              |-> run.status,
        peak_value          |-> m.peak_value,
        stopping_time       |-> m.stopping_time,
        total_stopping_time |-> m.total_stopping_time,
        odd_count           |-> m.odd_count,
        even_count          |-> m.even_count,
        maximum_bit_length  |-> m.maximum_bit_length]

(* Classic Collatz only: no generator yields anything it would refuse but  *)
(* a CSV field, which the runs of CSV data below leave out.                *)
Rows(spec, limit) ==
    LET items == Items(spec)
    IN [k \in DOMAIN items |-> Summarize(RunSystem("collatz", items[k], limit))]

-----------------------------------------------------------------------------
Generates(spec, limit) ==
    call' = [op |-> "items", spec |-> spec, items |-> Items(spec), rows |-> Rows(spec, limit)]

StreamsInit == call = None

StreamsNext ==
    call = None /\ \E spec \in Specs, limit \in Limits : Generates(spec, limit)

StreamsSpec == StreamsInit /\ [][StreamsNext]_call

-----------------------------------------------------------------------------
(* Every stream respects the item limit and yields what its type says:     *)
(* numbers the system accepts, even and odd ones that make up the range,   *)
(* consecutive primes, powers that double, and random states that do not   *)
(* fall into the generator's zero state (lib.rs:59, 171, 196).             *)
Halves(spec) ==
    ToSet(States([spec EXCEPT !.type = "even"]))
        \cup ToSet(States([spec EXCEPT !.type = "odd"]))

StreamsMeetTheirSpec ==
    call.op = "items" =>
        LET items == call.items
            spec == call.spec
        IN /\ Len(items) <= MaxItems
           /\ "count" \in DOMAIN spec => Len(items) = Min({spec.count, MaxItems})
           /\ \A k \in DOMAIN items : ValidState(items[k]) /\ call.rows[k].initial_state = items[k]
           /\ DOMAIN call.rows = DOMAIN items
           /\ spec.type = "range" => ToSet(States(spec)) = Halves(spec)
           /\ spec.type = "primes" =>
                 \A n \in 2 .. (IF items = <<>> THEN 1 ELSE Last(items)) :
                     n \in ToSet(items) <=> \A p \in ToSet(items) : p < n => n % p # 0
           /\ spec.type = "powers-of-two" =>
                 \A k \in DOMAIN items : k > 1 => items[k] = 2 * items[k - 1]
           /\ spec.type = "random" =>
                 /\ \A k \in DOMAIN items : items[k] <= AtLeastOne(spec.max)
                 /\ spec.max >= 2^StateWidth - 1 => IsInjective(items)
=============================================================================
