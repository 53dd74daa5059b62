-------------------------------- MODULE Streams --------------------------------
(***************************************************************************)
(* What crates/statelab-crypto does with streams of blocks: stream.rs and  *)
(* the statelab-stream program, the stream screens of correlation.rs, the  *)
(* collision detector of lifecycle.rs and seeding.rs.                      *)
(*                                                                         *)
(* A lane has LaneBytes bytes of ByteBits bits; a byte is a word of its    *)
(* bits.  Deviations are counts as in Batteries.                           *)
(***************************************************************************)
EXTENDS Batteries

CONSTANTS LaneBytes, ByteBits, WindowBytes,
          RoundsOf(_, _)   \* the bytes of a state after so many rounds of the permutation

-----------------------------------------------------------------------------
(* stream.rs; perm is [lanes, default].                                    *)
TailTweak == Constant(<<9279, 27272, 34211, 2259>>)

Bytes(word) == Split(word, LaneBytes, ByteBits)

(* zeroed bytes at the end, seed and block over the first two lanes. *)
SetupBlock(cfg, lanes, block) ==
    LET Fill(l) == SplitMixFinalise(FoldLeft(LAMBDA z, i : Plus(z, GoldenGamma),
                                             Xor(cfg.seed, TailTweak), [i \in 1 .. l |-> i]))
        tail == [l \in 1 .. lanes - 2 |-> Bytes(Fill(l + 2))]
        kept == (lanes - 2) * LaneBytes - cfg.zeroed
    IN Bytes(cfg.seed) \o Bytes(block)
         \o [k \in 1 .. (lanes - 2) * LaneBytes |-> IF k > kept THEN {} ELSE FlattenSeq(tail)[k]]

EffectiveRounds(cfg, perm) == IF cfg.rounds = 0 THEN perm.default ELSE cfg.rounds

ReverseBits(byte) == {ByteBits - 1 - i : i \in byte}

OutputBytes(extract, lanes) ==
    CASE extract = "raw" -> lanes * LaneBytes
      [] extract = "low-byte" -> lanes
      [] extract = "strong" -> LaneBytes

EmitBlock(perm, cfg, block) ==
    LET state == RoundsOf(SetupBlock(cfg, perm.lanes, block), EffectiveRounds(cfg, perm))
        out == CASE cfg.extract = "raw" -> state
                 [] cfg.extract = "low-byte" -> [l \in 1 .. perm.lanes |-> state[(l - 1) * LaneBytes + 1]]
                 [] cfg.extract = "strong" ->
                       Bytes(SplitMixFinalise(Plus(cfg.seed, Mul(block, GoldenGamma, WordSize))))
    IN IF cfg.bit_reverse THEN [k \in DOMAIN out |-> ReverseBits(out[k])] ELSE out

-----------------------------------------------------------------------------
(* bin/statelab_stream.rs: run.  limit is a number of bytes or NoLimit, and *)
(* the pipe takes `accepts` writes before it closes.                       *)
NoLimit == -1

Numbered(n) == WordOf(n, WordSize)

Seeded(cfg, offset) == [cfg EXCEPT !.seed = Plus(@, Numbered(offset))]

(* Mutation of BlockOf: every seed of the weave restarts at its own offset. *)
BlockAtIndex(perm, cfg, interleave, index) ==
    EmitBlock(perm, Seeded(cfg, index % interleave), Numbered(index))

BlockOf(perm, cfg, interleave, index) ==
    EmitBlock(perm, Seeded(cfg, index % interleave), Numbered(index \div interleave))

(* One turn of the loop: written bytes, and whether it goes on.            *)
WriteBlock(s, block, limit, open) ==
    LET slice == IF limit # NoLimit /\ Len(s.written) + Len(block) > limit
                 THEN SubSeq(block, 1, limit - Len(s.written)) ELSE block
        written == s.written \o slice
    IN CASE s.status # "running" -> s
         [] s.status = "running" /\ ~open -> [s EXCEPT !.status = "closed"]
         [] s.status = "running" /\ open ->
              [written |-> written,
               status |-> IF limit # NoLimit /\ Len(written) >= limit THEN "flushed" ELSE "running"]

RunStream(perm, cfg, interleave, limit, accepts) ==
    FoldLeft(LAMBDA s, index : WriteBlock(s, BlockOf(perm, cfg, interleave, index), limit, index < accepts),
             [written |-> <<>>, status |-> "running"], [k \in 1 .. accepts + 1 |-> k - 1])

-----------------------------------------------------------------------------
(* bin/statelab_stream.rs: parse_args.  A token of the command line is     *)
(* [text, number], the number NotANumber where the text does not parse;    *)
(* --zero-frac is in hundredths.                                           *)
NotANumber == -1

DefaultArgs ==
    [zero_frac |-> 100, bit_reverse |-> FALSE, system |-> "chacha", rounds |-> 0, bytes |-> NoLimit,
     seed |-> 0, interleave |-> 1, extract |-> "raw"]

FieldOf ==
    "--zero-frac" :> "zero_frac" @@ "--system" :> "system" @@ "--rounds" :> "rounds"
    @@ "--bytes" :> "bytes" @@ "--seed" :> "seed" @@ "--interleave" :> "interleave"
    @@ "--extract" :> "extract"

IsValueOf(flag, token) ==
    CASE flag = "--system" -> TRUE
      [] flag = "--extract" -> token.text \in {"raw", "low-byte", "strong"}
      [] flag = "--zero-frac" -> token.number \in 0 .. 100
      [] flag = "--interleave" -> token.number > 0
      [] flag \in {"--rounds", "--bytes", "--seed"} -> token.number # NotANumber

ValueOf(flag, token) == IF flag \in {"--system", "--extract"} THEN token.text ELSE token.number

(* flag is the flag that waits for its value, "" for none. *)
TakeFlag(s, text) ==
    CASE text = "--keyed" -> [s EXCEPT !.args.zero_frac = 0]
      [] text = "--bit-reverse" -> [s EXCEPT !.args.bit_reverse = TRUE]
      [] text \in DOMAIN FieldOf -> [s EXCEPT !.flag = text]
      [] text \notin DOMAIN FieldOf \cup {"--keyed", "--bit-reverse"} -> [s EXCEPT !.refused = TRUE]

TakeValue(s, token) ==
    IF IsValueOf(s.flag, token)
    THEN [s EXCEPT !.flag = "", !.args[FieldOf[s.flag]] = ValueOf(s.flag, token)]
    ELSE [s EXCEPT !.refused = TRUE]

TakeToken(s, token) ==
    IF s.refused THEN s ELSE IF s.flag = "" THEN TakeFlag(s, token.text) ELSE TakeValue(s, token)

ParseArgs(tokens) ==
    LET s == FoldLeft(TakeToken, [args |-> DefaultArgs, flag |-> "", refused |-> FALSE], tokens)
    IN [args |-> s.args, refused |-> s.refused \/ s.flag # ""]

(* setup_block rounds the zeroed share of the tail. *)
ZeroedBytes(percent, lanes) == (2 * percent * (lanes - 2) * LaneBytes + 100) \div 200

(* main: perms are the permutations by name; help and errors exit alike.   *)
StreamProgram(tokens, perms, accepts) ==
    LET parsed == ParseArgs(tokens)
        a == parsed.args
        perm == perms[a.system]
        cfg == [seed |-> Numbered(a.seed), rounds |-> a.rounds, extract |-> a.extract,
                zeroed |-> ZeroedBytes(a.zero_frac, perm.lanes), bit_reverse |-> a.bit_reverse]
    IN IF parsed.refused \/ a.system \notin DOMAIN perms THEN [exit |-> 2, written |-> <<>>]
       ELSE [exit |-> 0, written |-> RunStream(perm, cfg, a.interleave, a.bytes, accepts).written]

-----------------------------------------------------------------------------
(* correlation.rs; a block is the set of its one bits.                     *)
CollectStream(perm, cfg, blocks) ==
    [b \in 1 .. blocks |-> Joined(EmitBlock(perm, cfg, Numbered(b - 1)), ByteBits)]

OutputColumns(cfg, perm) == Positions(OutputBytes(cfg.extract, perm.lanes) * ByteBits)

Agree(a, b, c) == (c \in a) <=> (c \in b)
Pairs(n) == {p \in (1 .. n) \X (1 .. n) : p[1] < p[2]}

(* N1: a row for every pair of seeds. *)
SeedPairGrid(streams, cols) ==
    [cell \in Pairs(Len(streams)) \X cols |->
        Occurrences(DOMAIN streams[1],
                    LAMBDA b : Agree(streams[cell[1][1]][b], streams[cell[1][2]][b], cell[2]))]

(* N3: flip one bit of the seed. *)
SeedDiffusion(perm, cfg, block, seeds) ==
    LET Out(seed) == Joined(EmitBlock(perm, [cfg EXCEPT !.seed = seed], block), ByteBits)
    IN [cell \in Positions(WordSize) \X OutputColumns(cfg, perm) |->
          Occurrences(DOMAIN seeds,
                      LAMBDA k : ~Agree(Out(seeds[k]), Out(Flip(seeds[k], cell[1])), cell[2]))]

(* N4: every bit position; all lags over the same number of pairs.         *)
Profile(stream, cols, maxLag) ==
    [bias |-> [c \in cols |-> Occurrences(DOMAIN stream, LAMBDA b : c \in stream[b])],
     autocorr |-> [cell \in (1 .. maxLag) \X cols |->
                     Occurrences(1 .. Len(stream) - maxLag,
                                 LAMBDA b : Agree(stream[b], stream[b + cell[1]], cell[2]))],
     pairs |-> Len(stream) - maxLag]

(* The larger of the two headlines, as a fraction of 1 / 2. *)
ProfileDeviation(profile, blocks) ==
    LET bias == MaxDeviation(profile.bias, blocks)
        auto == MaxDeviation(profile.autocorr, profile.pairs)
    IN IF bias * profile.pairs >= auto * blocks THEN <<bias, blocks>> ELSE <<auto, profile.pairs>>

(* N2: round robin over the streams. *)
Woven(streams) ==
    [k \in 1 .. Len(streams) * Len(streams[1]) |->
        streams[((k - 1) % Len(streams)) + 1][((k - 1) \div Len(streams)) + 1]]

InterleavedProfile(streams, cols) == Profile(Woven(streams), cols, 2 * Len(streams))

(* lane_offset_profile: sum and count of the deviations at an offset.      *)
LaneOffsetProfile(grid, n, laneBits) ==
    [o \in Positions(laneBits) |->
        LET cells == {c \in DOMAIN grid : c[2] % laneBits = o}
        IN <<MapThenSumSet(LAMBDA c : Deviation(grid[c], n), cells), Cardinality(cells)>>]

-----------------------------------------------------------------------------
(* lifecycle.rs: streams that share a window, at any offset.               *)
Windows(bytes) == {SubSeq(bytes, i, i + WindowBytes - 1) : i \in 1 .. Len(bytes) - WindowBytes + 1}

SharedWindows(streams, p) == Windows(streams[p[1]]) \cap Windows(streams[p[2]])

DetectCollisions(streams) ==
    LET colliding == {p \in Pairs(Len(streams)) : SharedWindows(streams, p) # {}}
    IN [p \in colliding |-> Cardinality(SharedWindows(streams, p))]

-----------------------------------------------------------------------------
(* seeding.rs; the cardinality of an enumerable source is 2^bits.          *)
EffectiveBits(source) == IF source.kind = "fixed" THEN 0 ELSE source.bits
ApparentBits(source) == source.bits

TotalBits(Bits(_), path) == SumFunction([i \in DOMAIN path |-> Bits(path[i])])
ReachableBits(path) == TotalBits(EffectiveBits, path)
PhantomBits(path) == TotalBits(ApparentBits, path) - ReachableBits(path)
Meets(path, required) == ReachableBits(path) >= required

Enumerable(bits) == [kind |-> "enumerable", bits |-> bits]
Full(bits) == [kind |-> "full", bits |-> bits]
Fixed(bits) == [kind |-> "fixed", bits |-> bits]

Debian2008 == <<Enumerable(15)>>
HealthyGetrandom == <<Full(256)>>
BakedImage == <<Fixed(256), Enumerable(15)>>

(* enumerate_and_check: emitted[i] is the stream of seed i. *)
EnumerateAndCheck(path, limit, emitted) ==
    LET n == IF ReachableBits(path) >= 31 THEN limit ELSE Min({2^ReachableBits(path), limit})
        collisions == Cardinality(DOMAIN DetectCollisions(SubSeq(emitted, 1, n)))
    IN [enumerated |-> n, collisions |-> collisions, distinct_streams |-> n - collisions]

=============================================================================
