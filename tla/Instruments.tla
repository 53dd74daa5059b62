------------------------------ MODULE Instruments ------------------------------
(***************************************************************************)
(* The measuring side of crates/statelab-crypto one call at a time: the    *)
(* designs of ArxDesigns, the batteries of Batteries and the stream tools  *)
(* of Streams, called on inputs small enough that what a call reports can  *)
(* be compared with what it is said to measure.                            *)
(*                                                                         *)
(* The same definitions are taken at three word sizes: two bits, where all *)
(* states of a design are visited; four, for streams; and the real ones,   *)
(* for published vectors.                                                  *)
(***************************************************************************)
EXTENDS Integers, Sequences, SequencesExt, FiniteSetsExt, Functions, CallState

CONSTANTS Rotations,   \* the rotation amounts of a shape, four each
          Tables,      \* maps of bit sets to measure: [bits, map]
          Samples,     \* series of <<x, y>> with a floor of 1
          Emitted,     \* families of streams an enumeration may find
          Published    \* known answers, by name, as groups of sixteen bits

T == INSTANCE ArxDesigns WITH WordSize <- 2

(* Streams are drawn from a permutation that turns and flips bytes. *)
Turned(bytes, n) ==
    [k \in DOMAIN bytes |-> T!Xor(bytes[((k + n - 1) % Len(bytes)) + 1], {k % 2})]

S == INSTANCE Streams WITH WordSize <- 4, LaneBytes <- 2, ByteBits <- 2, WindowBytes <- 2,
                           RoundsOf <- Turned
Wide == INSTANCE ArxDesigns WITH WordSize <- 32
Full == INSTANCE ArxDesigns WITH WordSize <- 64

Init == call = None

-----------------------------------------------------------------------------
(* Designs *)
Zeros(n) == [i \in 1 .. n |-> {}]
AsSeq(s) == [i \in 1 .. Cardinality(DOMAIN s) |-> s[i - 1]]

MultiWord == T!Shapes \cup {"ascon", "xoshiro", "philox", "threefry", "arx64"}
ByLane == {"counter", "klimov-shamir lanes", "lcg lanes", "transpose"}
OneWord == {"klimov-shamir", "lcg", "splitmix"}

DomainOf(design) ==
    IF design \in OneWord THEN SUBSET (0 .. 3)
    ELSE IF design = "counter" THEN [1 .. 1 -> SUBSET (0 .. 7)]
    ELSE IF design = "transpose" THEN [1 .. 2 -> [1 .. 2 -> 0 .. 2]]
    ELSE IF design \in ByLane THEN [1 .. 2 -> SUBSET (0 .. 3)]
    ELSE [0 .. (IF design = "ascon" THEN 4 ELSE 3) -> SUBSET (0 .. 1)]

(* One step of a design; v numbers its rotations, its round or its key.    *)
Applied(design, v, s) ==
    CASE design \in T!Shapes -> T!ApplyShape(design, s, <<0, 1, 2, 3>>, Rotations[v])
      [] design = "arx64" ->
            T!QuarterRound(s, 0, 1, 2, 3, <<T!ChaCha64Rot, T!Blake2bRot, T!ChaChaRot>>[v])
      [] design = "ascon" -> T!AsconRound(s, v)
      [] design = "xoshiro" -> T!Xoshiro(s)
      [] design = "philox" -> T!Philox(T!Philox64, AsSeq(s), <<{v % 2}, {}>>, v)
      [] design = "threefry" -> T!Threefry(AsSeq(s), <<{v % 2}, {}, {0}, {1}>>, 4 * v)
      [] design = "klimov-shamir" -> S!KsStep(s)
      [] design = "lcg" -> S!LcgStep(s)
      [] design = "splitmix" -> S!SplitMixFinalise(s)
      [] design = "counter" -> T!CounterRound(s)
      [] design = "klimov-shamir lanes" -> S!KlimovShamirRound(s)
      [] design = "lcg lanes" -> S!LcgRound(s)
      [] design = "transpose" -> T!Transpose(s)

Permutes(design, v) ==
    call' = [op |-> "design", design |-> design,
             domain |-> Cardinality(DomainOf(design)),
             image |-> Cardinality({Applied(design, v, s) : s \in DomainOf(design)})]

Stirs(qr) ==
    LET states == [1 .. 4 -> SUBSET (0 .. 1)]
    IN call' = [op |-> "qr", qr |-> qr, legal |-> T!IsLegal(qr), domain |-> Cardinality(states),
                image |-> Cardinality({T!ApplySteps(s, <<1, 2, 3, 4>>, qr) : s \in states})]

Chooses(qr, byteAligned) ==
    call' = [op |-> "drawn", qr |-> qr, drawn |-> T!IsDrawnQr(qr, byteAligned),
             aligned |-> T!IsByteAligned(qr), cost |-> T!SimdInstructions(qr)]

(* The map of the integers below 16 that a one-word design is.             *)
IntegerMap(design) ==
    [n \in 0 .. 15 |-> LET word == {i \in 0 .. 3 : (n \div 2^i) % 2 = 1}
                       IN MapThenSumSet(LAMBDA i : 2^i, Applied(design, 1, word))]

Cycles(design) ==
    LET spectrum == S!CycleSpectrum(IntegerMap(design))
    IN call' = [op |-> "cycles", design |-> design, bijectivity |-> S!Bijectivity(IntegerMap(design)),
                spectrum |-> spectrum, weak |-> S!WeakSeeds(spectrum, 16)]

Answer(name) ==
    CASE name = "philox4x32" -> Wide!Philox(Wide!Philox32, Zeros(4), Zeros(2), 10)
      [] name = "philox4x64" -> Full!Philox(Full!Philox64, Zeros(4), Zeros(2), 10)
      [] name = "threefry4x64" -> Full!Threefry(Zeros(4), Zeros(4), 20)
      [] name = "blake2b" -> Full!Blake2b512(<<>>)
      [] name = "probe" -> <<Full!ProbeDraw({1, 3, 5}, 2)>>

Answers(name) ==
    call' = [op |-> "vector", name |-> name, out |-> Answer(name)]

(* Words of one bit: all inputs of the linearised rounds can be visited.   *)
B == INSTANCE Streams WITH WordSize <- 1, LaneBytes <- 1, ByteBits <- 1, WindowBytes <- 1,
                           RoundsOf <- Turned

Linearises(n, rounds) ==
    LET map == B!LinearMap(n, rounds)
    IN call' = [op |-> "map", map |-> map, dependencies |-> B!DependencyMatrix(map),
                witness |-> B!BitwiseBranchWitness(n, rounds)]

Bounds ==
    /\ call.op = "map"
    /\ call' = [op |-> "branch",
                lowest |-> Min({B!BranchTotal(call.map, x) : x \in SUBSET (0 .. 15) \ {{}}}),
                bitwise |-> B!BitwiseBranchBound(call.map, 2),
                witness |-> {call.witness.total, B!BranchTotal(call.map, call.witness.bits)},
                pattern |-> B!PatternBranchNumber(call.dependencies)]

-----------------------------------------------------------------------------
(* Batteries *)
Measures(t) ==
    LET all == [k \in 1 .. 2^t.bits |-> S!WordOf(k - 1, t.bits)]
        each == [i \in 0 .. t.bits - 1 |-> all]
        bic == S!BicResult(t.map, t.bits, each)
    IN call' = [op |-> "battery", map |-> t.map, bits |-> t.bits, n |-> Len(all),
                grid |-> S!AvalancheMatrix(t.map, t.bits, all),
                residual |-> S!AffineResidual(t.map, t.bits, {}, all),
                ranks |-> {S!SubspaceRank(t.map, t.bits, {}, S!LaneBits(0, 0, 1, t.bits), <<{}, {1}, {1}>>),
                           S!SubspaceRank(t.map, t.bits, {}, S!AcrossLanes(t.bits, 1, 1), <<{1}, {}, {1}>>)},
                sweep |-> S!AvalancheSweep(<<t.map, t.map>>, t.bits, all, <<1, 4>>),
                images |-> S!Gf2Rank([k \in DOMAIN all |-> t.map[all[k]]], t.bits),
                independent |-> S!IsIndependent(bic, TRUE, <<1, 1>>)]

Settles(series) ==
    call' = [op |-> "series", series |-> series,
             point |-> S!SaturationPoint(series, 1, <<1, 1>>),
             above |-> S!CrossingsAbove(series, 1, 2)]

Ranks(rows, cols) ==
    LET ranks == [m \in [1 .. rows -> SUBSET (0 .. cols - 1)] |-> S!Gf2Rank(m, cols)]
    IN call' = [op |-> "ranks", matrices |-> Cardinality(DOMAIN ranks),
                probability |-> S!FullRankProbability(rows, cols), summary |-> S!Summarise(rows, ranks)]

-----------------------------------------------------------------------------
(* Streams *)
Machine == [lanes |-> 3, default |-> 2]
Configurations ==
    [seed : {{}, {0, 1, 2, 3}}, zeroed : {0, 1}, rounds : {0, 1},
     extract : {"raw", "low-byte", "strong"}, bit_reverse : BOOLEAN]

(* The program and the library each weave k streams of `blocks` blocks.    *)
Weaves(cfg, k, blocks, limit) ==
    LET cols == S!OutputColumns(cfg, Machine)
        streams == [i \in 1 .. k |-> S!CollectStream(Machine, S!Seeded(cfg, i - 1), blocks)]
        mirrored == S!CollectStream(Machine, [cfg EXCEPT !.bit_reverse = ~@], blocks)
    IN call' = [op |-> "weave", limit |-> limit,
                block |-> S!OutputBytes(cfg.extract, Machine.lanes),
                program |-> S!RunStream(Machine, cfg, k, limit, k * blocks),
                library |-> S!Woven(streams),
                headline |-> S!ProfileDeviation(S!Profile(streams[1], cols, 1), blocks),
                mirrored |-> S!ProfileDeviation(S!Profile(mirrored, cols, 1), blocks)]

Lays(cfg, blocks) ==
    LET streams == [i \in 1 .. 2 |-> S!CollectStream(Machine, S!Seeded(cfg, i), blocks)]
        grid == S!SeedPairGrid(streams, S!OutputColumns(cfg, Machine))
    IN call' = [op |-> "offsets", sum |-> S!SumOfDeviations(grid, blocks),
                offsets |-> S!LaneOffsetProfile(grid, blocks, 4)]

Rotates(n, batteries) ==
    call' = [op |-> "rotate", n |-> n, batteries |-> batteries,
             readings |-> S!RotatedBattery(n, batteries,
                              [p \in (0 .. batteries - 1) \X (0 .. n - 1) |-> p[2]])]

Enumerates(streams) ==
    call' = [op |-> "enumerate", streams |-> streams,
             result |-> S!EnumerateAndCheck(<<S!Enumerable(2)>>, 3, streams)]

Audits(path, required) ==
    call' = [op |-> "audit", path |-> path, meets |-> S!Meets(path, required),
             phantom |-> S!PhantomBits(path),
             honest |-> S!Meets(SelectSeq(path, LAMBDA s : s.kind # "fixed"), required)]

Calls ==
    \/ \E design \in MultiWord \cup OneWord \cup ByLane, v \in 1 .. 3 : Permutes(design, v)
    \/ \E a, b, d \in 1 .. 4 : Stirs(<<T!QrStep(a, b, d, 1)>>)
    \/ \E b, d \in 1 .. 4, r, s \in {7, 8, 24}, byteAligned \in BOOLEAN :
          Chooses(<<T!QrStep(1, b, d, r), T!QrStep(3, 4, 2, s)>>, byteAligned)
    \/ \E design \in OneWord : Cycles(design)
    \/ \E name \in DOMAIN Published : Answers(name)
    \/ \E c \in {<<1, 2>>, <<4, 1>>, <<4, 2>>} : Linearises(c[1], c[2])
    \/ \E t \in Tables : Measures(t)
    \/ \E series \in Samples : Settles(series)
    \/ \E rows \in 1 .. 3, cols \in 1 .. 3 : rows <= cols /\ Ranks(rows, cols)
    \/ \E cfg \in Configurations, k \in 1 .. 3, limit \in {S!NoLimit, 0, 5} :
          Weaves(cfg, k, 3, limit)
    \/ \E cfg \in Configurations : cfg.rounds = 0 /\ Lays(cfg, 3)
    \/ \E n \in 1 .. 4, batteries \in 1 .. 8 : Rotates(n, batteries)
    \/ \E streams \in Emitted : Enumerates(streams)
    \/ \E path \in {S!Debian2008, S!HealthyGetrandom, S!BakedImage}, required \in {15, 16, 128, 256} :
          Audits(path, required)

Next ==
    \/ call = None /\ Calls
    \/ Bounds

Spec == Init /\ [][Next]_call

-----------------------------------------------------------------------------
(* Every design that is called a permutation is one, whatever its          *)
(* rotations, round or key (permutation.rs:22), every quarter round that   *)
(* passes as legal is one (quarter_round.rs:121), and the two maps chosen  *)
(* for it go round in a single cycle (systems.rs:148, 374).  What the      *)
(* search may draw is legal, an aligned draw the cheapest of its length    *)
(* (quarter_round.rs:216).                                                 *)
DesignsPermute ==
    /\ call.op = "design" => call.image = call.domain
    /\ call.op = "qr" => (call.legal => call.image = call.domain)
    /\ call.op = "cycles" =>
         /\ S!IsBijection(call.bijectivity)
         /\ MapThenSumSet(LAMBDA x : call.spectrum[x], DOMAIN call.spectrum) = 16
         /\ call.design \in {"klimov-shamir", "lcg"} => S!IsSingleCycle(call.spectrum) /\ call.weak = 0
    /\ call.op = "drawn" /\ call.drawn =>
         T!IsLegal(call.qr) /\ (call.aligned <=> call.cost = 3 * Len(call.qr))

Affine(F) == \A x, y, z \in DOMAIN F : F[T!Xor(x, T!Xor(y, z))] = T!Xor(F[x], T!Xor(F[y], F[z]))

Span(F) == {FoldSet(T!Xor, {}, X) : X \in SUBSET Range(F)}

(* What the batteries report is what they measure: an affine design is     *)
(* caught by each of them, by the residual alone exactly (avalanche.rs:72, *)
(* bic.rs:163, linearity.rs:188, 272); rank is the size of a span and the  *)
(* probability of full rank the share of such matrices (linearity.rs:89,   *)
(* 337); what is fixed in an image adds no bit to the seeds it can reach   *)
(* (seeding.rs:190); a saturation point is where a series starts to stay   *)
(* low (saturation.rs:53); and the two branch numbers are upper bounds on  *)
(* the true one, cancelling differences or not, the first of them attained *)
(* by its witness (branch.rs:165, 214, 248).                               *)
BatteriesMeasure ==
    /\ call.op = "battery" =>
         /\ call.residual = 0 <=> Affine(call.map)
         /\ Affine(call.map) =>
              /\ \A c \in DOMAIN call.grid : call.grid[c] \in {0, call.n}
              /\ ~call.independent
              /\ \A rank \in call.ranks : S!CollapsedToSubspace(rank, 1)
              /\ call.sweep.rounds_to_avalanche = 0
         /\ 2^call.images = Cardinality(Span(call.map))
    /\ call.op = "ranks" =>
         /\ call.summary.full_rank * call.probability[2] = call.matrices * call.probability[1]
         /\ MapThenSumSet(LAMBDA d : call.summary.histogram[d], 0 .. 4) = call.matrices
    /\ call.op = "branch" =>
         /\ call.lowest <= call.bitwise /\ call.lowest <= call.pattern
         /\ call.witness = {call.bitwise}
    /\ call.op = "audit" => (call.meets <=> call.honest) /\ (call.phantom = 0 \/ call.path = S!BakedImage)
    /\ call.op = "series" =>
         LET low == {i \in DOMAIN call.series : call.series[i][2] <= 1}
         IN /\ \A i \in DOMAIN call.series : i \in low \/ call.point = 0 \/ i < call.point
            /\ call.point > 1 => call.point - 1 \notin low
            /\ call.point = 0 /\ call.series # <<>> => Len(call.series) \notin low
            /\ call.above[1] <= call.above[2]

(* The program that writes woven streams and the library that measures     *)
(* them weave the same one, a byte limit cuts it exactly                   *)
(* (statelab_stream.rs:130, correlation.rs:613); reading bytes in the      *)
(* other bit order moves no headline (stream.rs:169); the offsets within a *)
(* lane share out all deviations (correlation.rs:166); the rotation of a   *)
(* battery gives every case every place equally often when the batteries   *)
(* are a multiple of the cases (bench.rs:484); and the generators give the *)
(* published answers at their real widths (counter_based.rs:64, 82, 104;   *)
(* arx64.rs:85).                                                           *)
StreamsWeave ==
    /\ call.op = "weave" =>
         LET whole == FlattenSeq([b \in DOMAIN call.library |-> S!Split(call.library[b], call.block, 2)])
             size == IF call.limit = S!NoLimit THEN Len(whole) ELSE Min({call.limit, Len(whole)})
         IN /\ call.program.written = SubSeq(whole, 1, size)
            /\ call.limit = S!NoLimit => call.program.status = "closed"
            /\ call.limit = 0 => call.program.status = "flushed"
            /\ call.headline = call.mirrored
    /\ call.op = "offsets" =>
         MapThenSumSet(LAMBDA o : call.offsets[o][1], DOMAIN call.offsets) = call.sum
    /\ call.op = "rotate" /\ call.batteries % call.n = 0 =>
         \A i, place \in 0 .. call.n - 1 :
             Cardinality({b \in DOMAIN call.readings[i] : call.readings[i][b] = place})
               = call.batteries \div call.n
    /\ call.op = "vector" =>
         \A k \in DOMAIN Published[call.name] :
             call.out[k] = T!Limbs(Published[call.name][k])

(* seeding.rs:236 calls a field of the result distinct_streams, and        *)
(* seeding.rs:200 has the collision oracle find what is distinct.          *)
DistinctAreCounted ==
    call.op = "enumerate" =>
        call.result.distinct_streams =
            Cardinality(ToSet(SubSeq(call.streams, 1, call.result.enumerated)))
=============================================================================
