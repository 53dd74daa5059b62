------------------------------ MODULE ArxDesigns ------------------------------
(***************************************************************************)
(* The permutations of crates/statelab-crypto built of word operations:    *)
(* quarter rounds and their wirings (quarter_round.rs, topology.rs,        *)
(* arx_structure.rs, arx64.rs), the other designs of systems.rs, and the   *)
(* counter-based generators of counter_based.rs.                           *)
(*                                                                         *)
(* A state is a function from lane numbers to words.  The code fixes the   *)
(* word size of each design; here it is a parameter, so that at the real   *)
(* size published vectors can be computed and at a small one every state   *)
(* can be visited.  A constant of the source is cut to the word size.      *)
(* Bytes are words read little-endian, so loads and stores are left out.   *)
(***************************************************************************)
EXTENDS Integers, Sequences, SequencesExt, FiniteSetsExt, Words

CONSTANT WordSize   \* bits of a word, at least 1

Plus(x, y) == Add(x, y, WordSize)
Constant(groups) == Limbs(groups) \cap Positions(WordSize)

-----------------------------------------------------------------------------
(* The three operations quarter rounds are made of. *)
AddTo(w, a, b) == [w EXCEPT ![a] = Plus(@, w[b])]
XorRot(w, d, a, r) == [w EXCEPT ![d] = Rotl(Xor(@, w[a]), r, WordSize)]
XorSum(w, t, a, b, r) == [w EXCEPT ![t] = Xor(@, Rotl(Plus(w[a], w[b]), r, WordSize))]

(* QrStep; positions within a group are 1 to 4 here. *)
QrStep(a, b, d, r) == [add_to |-> a, add_from |-> b, xor_into |-> d, rot |-> r]

ApplyStep(w, g, s) ==
    XorRot(AddTo(w, g[s.add_to], g[s.add_from]), g[s.xor_into], g[s.add_to], s.rot)

ApplySteps(w, g, steps) == InTurn(LAMBDA v, s : ApplyStep(v, g, s), w, steps)

CrossSteps(r) ==
    <<QrStep(1, 2, 4, r[1]), QrStep(3, 4, 2, r[2]), QrStep(1, 2, 4, r[3]), QrStep(3, 4, 2, r[4])>>

ChaChaRot == <<16, 12, 8, 7>>
ChaChaQr == CrossSteps(ChaChaRot)
Steps(qr) == {qr[i] : i \in DOMAIN qr}

(* Mutation of IsLegal: adding a word to itself is let through. *)
IsLegalOrDoubling(qr) == \A s \in Steps(qr) : s.xor_into # s.add_to /\ s.rot \in 1 .. 31

IsLegal(qr) ==
    \A s \in Steps(qr) :
        /\ s.add_to # s.add_from
        /\ s.xor_into # s.add_to
        /\ s.rot \in 1 .. 31
        /\ {s.add_to, s.add_from, s.xor_into} \subseteq 1 .. 4

WritesEveryLane(qr) == UNION {{s.add_to, s.xor_into} : s \in Steps(qr)} = 1 .. 4

IsByteAligned(qr) == \A s \in Steps(qr) : s.rot % 8 = 0

SimdInstructions(qr) ==
    FoldLeft(LAMBDA n, s : n + 2 + IF s.rot % 8 = 0 THEN 1 ELSE 3, 0, qr)

(* What random_qr may draw, its rejections included. *)
IsDrawnQr(qr, byteAligned) ==
    /\ \A s \in Steps(qr) :
          /\ s.add_from # s.add_to /\ s.xor_into # s.add_to
          /\ s.rot \in IF byteAligned THEN {8, 16, 24} ELSE 1 .. 31
    /\ IsLegal(qr) /\ WritesEveryLane(qr)

-----------------------------------------------------------------------------
(* topology.rs: a topology is two partitions of the 16 lanes. *)
Lanes == 0 .. 15

Columns == <<<<0, 4, 8, 12>>, <<1, 5, 9, 13>>, <<2, 6, 10, 14>>, <<3, 7, 11, 15>>>>
Diagonals == <<<<0, 5, 10, 15>>, <<1, 6, 11, 12>>, <<2, 7, 8, 13>>, <<3, 4, 9, 14>>>>

ChaChaTopology == <<Columns, Diagonals>>

(* Every lane has one place in one group. *)
IsPartition(p) ==
    LET places == UNION {{<<g, k>> : k \in DOMAIN p[g]} : g \in DOMAIN p}
    IN /\ {p[at[1]][at[2]] : at \in places} = Lanes
       /\ \A at, other \in places : p[at[1]][at[2]] = p[other[1]][other[2]] => at = other

IsBalanced(topology) == \A p \in ToSet(topology) : IsPartition(p)

(* Mutation of Cliques: only the first partition is looked at. *)
CliquesOfColumns(topology) == {ToSet(g) : g \in ToSet(topology[1])}

(* adjacency: two lanes are neighbours when a group holds both. *)
Cliques(topology) == UNION {{ToSet(g) : g \in ToSet(p)} : p \in ToSet(topology)}

(* The lanes within d hops of start. *)
Ball(topology, start, d) ==
    LET Nearby(lanes) == UNION {c \in Cliques(topology) : c \cap lanes # {}}
        within[n \in 0 .. d] ==
            IF n = 0 THEN {start}
            ELSE LET inner == within[n - 1] IN IF inner = Lanes THEN Lanes ELSE Nearby(inner)
    IN within[d]

(* The diameter, or 16 when some lane is never reached. *)
Diameter(topology) ==
    IF \E u \in Lanes : Ball(topology, u, 15) # Lanes THEN 16
    ELSE CHOOSE d \in 0 .. 15 :
            /\ \A u \in Lanes : Ball(topology, u, d) = Lanes
            /\ d = 0 \/ \E u \in Lanes : Ball(topology, u, d - 1) # Lanes

(* random_partition with draws[i] for the draw modulo i + 1. *)
Swap(s, i, j) == [s EXCEPT ![i] = s[j], ![j] = s[i]]

Shuffled(lanes, draws) ==
    InTurn(LAMBDA s, i : Swap(s, i + 1, draws[i] + 1), lanes,
           [k \in 1 .. Len(lanes) - 1 |-> Len(lanes) - k])

RandomPartition(draws) ==
    LET lanes == Shuffled([i \in 1 .. 16 |-> i - 1], draws)
    IN [g \in 1 .. 4 |-> [k \in 1 .. 4 |-> lanes[4 * (g - 1) + k]]]

RandomTopology(first, second) == <<RandomPartition(first), RandomPartition(second)>>

(* One round: one partition, alternating; QrPermutation when qr varies.    *)
TopologyRound(w, topology, qr, round) ==
    InTurn(LAMBDA v, g : ApplySteps(v, g, qr), w, topology[(round % 2) + 1])

(* Permutation::permute over a wiring: that many rounds, from round 0. *)
TopologyRounds(w, topology, qr, rounds) ==
    InTurn(LAMBDA v, r : Strictly(LAMBDA u : TopologyRound(u, topology, qr, r), v), w,
           [i \in 1 .. rounds |-> i - 1])

-----------------------------------------------------------------------------
(* arx_structure.rs *)
Shapes == {"double-cross", "salsa-cycle", "chain", "parallel-cross", "wide-cross"}
Patterns == {"diag-1", "diag-2", "diag-3", "row"}

SalsaCycle(w, g, r) ==
    LET v1 == XorSum(w, g[2], g[1], g[4], r[1])
        v2 == XorSum(v1, g[3], g[2], g[1], r[2])
        v3 == XorSum(v2, g[4], g[3], g[2], r[3])
    IN XorSum(v3, g[1], g[4], g[3], r[4])

HalfParallel(w, g, r, s) ==
    LET v == AddTo(AddTo(w, g[1], g[2]), g[3], g[4])
    IN XorRot(XorRot(v, g[2], g[3], r), g[4], g[1], s)

ApplyShape(shape, w, g, r) ==
    CASE shape = "double-cross" -> ApplySteps(w, g, CrossSteps(r))
      [] shape = "salsa-cycle" -> SalsaCycle(w, g, r)
      [] shape = "chain" ->
            ApplySteps(w, g, <<QrStep(1, 2, 3, r[1]), QrStep(2, 3, 4, r[2]),
                               QrStep(3, 4, 1, r[3]), QrStep(4, 1, 2, r[4])>>)
      [] shape = "parallel-cross" -> HalfParallel(HalfParallel(w, g, r[1], r[2]), g, r[3], r[4])
      [] shape = "wide-cross" ->
            ApplySteps(w, g, <<QrStep(1, 2, 4, r[1]), QrStep(3, 4, 2, r[2]),
                               QrStep(2, 3, 1, r[3]), QrStep(4, 1, 3, r[4])>>)

(* Mutation of DiagonalGroups: the diagonals run the other way. *)
DiagonalGroupsBack(s) ==
    [i \in 1 .. 4 |-> [k \in 1 .. 4 |-> 4 * (k - 1) + ((i + 3 + (k - 1) * (4 - s)) % 4)]]

DiagonalGroups(s) == [i \in 1 .. 4 |-> [k \in 1 .. 4 |-> 4 * (k - 1) + ((i - 1 + (k - 1) * s) % 4)]]

Groups(pattern) ==
    CASE pattern = "diag-1" -> DiagonalGroups(1)
      [] pattern = "diag-2" -> DiagonalGroups(2)
      [] pattern = "diag-3" -> DiagonalGroups(3)
      [] pattern = "row" -> [j \in 1 .. 4 |-> [k \in 1 .. 4 |-> 4 * (j - 1) + k - 1]]

ColumnGroups == [i \in 1 .. 4 |-> [k \in 1 .. 4 |-> i - 1 + 4 * (k - 1)]]

StructureRound(w, shape, pattern, rot, round) ==
    InTurn(LAMBDA v, g : ApplyShape(shape, v, g, rot), w,
           IF round % 2 = 0 THEN ColumnGroups ELSE Groups(pattern))

-----------------------------------------------------------------------------
(* systems.rs and generator.rs: ChaCha; arx64.rs: the same at 64 bits.     *)
QuarterRound(w, a, b, c, d, r) == ApplySteps(w, <<a, b, c, d>>, CrossSteps(r))

ChaChaRound(w, rot, round) ==
    LET Quarter(v, g) == QuarterRound(v, g[1], g[2], g[3], g[4], rot)
    IN InTurn(Quarter, w, IF round % 2 = 0 THEN Columns ELSE Diagonals)

Permute(w, rot, rounds) ==
    InTurn(LAMBDA v, r : Strictly(LAMBDA u : ChaChaRound(u, rot, r), v), w, [i \in 1 .. rounds |-> i - 1])

ChaChaBlock(w) ==
    LET v == Permute(w, ChaChaRot, 20) IN [i \in Lanes |-> Plus(v[i], w[i])]

ChaCha64Rot == <<32, 24, 16, 14>>
Blake2bRot == <<32, 40, 48, 1>>

Blake2bIV ==
    <<Constant(<<27145, 58983, 62396, 51464>>), Constant(<<47975, 44677, 33994, 42811>>),
      Constant(<<15470, 62322, 65172, 63531>>), Constant(<<42319, 62778, 24349, 14065>>),
      Constant(<<20750, 21119, 44518, 33489>>), Constant(<<39685, 26764, 11070, 27679>>),
      Constant(<<8067, 55723, 64321, 48491>>), Constant(<<23520, 52505, 4990, 8569>>)>>

Sigma ==
    <<<<0, 1, 2, 3, 4, 5, 6, 7, 8, 9, 10, 11, 12, 13, 14, 15>>,
      <<14, 10, 4, 8, 9, 15, 13, 6, 1, 12, 0, 2, 11, 7, 5, 3>>,
      <<11, 8, 12, 0, 5, 2, 15, 13, 10, 14, 3, 6, 7, 1, 9, 4>>,
      <<7, 9, 3, 1, 13, 12, 11, 14, 2, 6, 5, 10, 4, 0, 15, 8>>,
      <<9, 0, 5, 7, 2, 4, 10, 15, 14, 1, 11, 12, 6, 8, 3, 13>>,
      <<2, 12, 6, 10, 0, 11, 8, 3, 4, 13, 7, 5, 15, 14, 1, 9>>,
      <<12, 5, 1, 15, 14, 13, 4, 10, 0, 7, 6, 3, 9, 2, 8, 11>>,
      <<13, 11, 7, 14, 12, 1, 3, 9, 5, 0, 15, 4, 8, 6, 2, 10>>,
      <<6, 15, 14, 9, 11, 3, 0, 8, 12, 2, 13, 7, 1, 4, 10, 5>>,
      <<10, 2, 8, 4, 7, 6, 1, 5, 15, 11, 9, 14, 3, 12, 13, 0>>,
      <<0, 1, 2, 3, 4, 5, 6, 7, 8, 9, 10, 11, 12, 13, 14, 15>>,
      <<14, 10, 4, 8, 9, 15, 13, 6, 1, 12, 0, 2, 11, 7, 5, 3>>>>

XorRotRight(w, d, a, r) == [w EXCEPT ![d] = Rotr(Xor(@, w[a]), r, WordSize)]

G(w, a, b, c, d, x, y) ==
    LET Inject(v, word) == [AddTo(v, a, b) EXCEPT ![a] = Plus(@, word)]
        Half(v, word, r, s) ==
            XorRotRight(AddTo(XorRotRight(Inject(v, word), d, a, r), c, d), b, c, s)
    IN Half(Half(w, x, 32, 24), y, 16, 63)

(* h has 8 words, the block m 16, both from index 1; counter is a natural. *)
Compress(h, m, counter, last) ==
    LET start == [i \in Lanes |->
                    CASE i < 8 -> h[i + 1]
                      [] i = 12 -> Xor(Blake2bIV[5], WordOf(counter, WordSize))
                      [] i = 14 /\ last -> Complement(Blake2bIV[7], WordSize)
                      [] OTHER -> Blake2bIV[i - 7]]
        groups == Columns \o Diagonals
        Quarter(u, k, s) ==
            G(u, groups[k][1], groups[k][2], groups[k][3], groups[k][4],
              m[s[2 * k - 1] + 1], m[s[2 * k] + 1])
        Mix(v, s) ==
            Strictly(LAMBDA u : FoldLeftDomain(LAMBDA t, k : Quarter(t, k, s), u, groups), v)
        v == FoldLeft(Mix, start, Sigma)
    IN [i \in 1 .. 8 |-> Xor(h[i], Xor(v[i - 1], v[i + 7]))]

(* The input is a sequence of words; one counts for WordSize / 8 bytes.    *)
Padded(words) == [i \in 1 .. 16 |-> IF i \in DOMAIN words THEN words[i] ELSE {}]

(* All blocks of the input but the last, full or not. *)
Absorbed(h, words, blocks) ==
    LET bytes == WordSize \div 8
        after[n \in 0 .. blocks] ==
            IF n = 0 THEN h
            ELSE Compress(after[n - 1], SubSeq(words, 16 * n - 15, 16 * n), 16 * n * bytes, FALSE)
    IN after[blocks]

Blake2b512(words) ==
    LET blocks == IF words = <<>> THEN 0 ELSE (Len(words) - 1) \div 16
        start == [Blake2bIV EXCEPT ![1] = Xor(@, Constant(<<257, 64>>))]
    IN Compress(Absorbed(start, words, blocks), Padded(SubSeq(words, 16 * blocks + 1, Len(words))),
                Len(words) * (WordSize \div 8), TRUE)

-----------------------------------------------------------------------------
(* systems.rs: the other designs *)
CounterRound(bytes) ==
    LET full == {k \in DOMAIN bytes : \A j \in 1 .. k - 1 : bytes[j] = Positions(8)}
    IN [k \in DOMAIN bytes |-> IF k \in full THEN Add(bytes[k], {0}, 8) ELSE bytes[k]]

KsStep(x) == Plus(x, Mul(x, x, WordSize) \cup {0, 2})

LcgStep(x) ==
    Plus(Mul(x, Constant(<<22609, 62509, 19605, 32557>>), WordSize),
         Constant(<<5125, 31614, 63335, 33103>>))

KlimovShamirRound(s) == [i \in DOMAIN s |-> KsStep(s[i])]
LcgRound(s) == [i \in DOMAIN s |-> LcgStep(s[i])]

(* A square of bytes, or of anything: entry j of row i and entry i of row j. *)
Transpose(rows) == [i \in DOMAIN rows |-> [j \in DOMAIN rows |-> rows[j][i]]]

RoundConstant(r) == WordOf(240 - r * 16 + r, WordSize)

Sbox(x) ==
    LET a == [x EXCEPT ![0] = Xor(x[0], x[4]), ![4] = Xor(x[4], x[3]), ![2] = Xor(x[2], x[1])]
        Chi(i) == a[(i + 2) % 5] \ a[(i + 1) % 5]
        b == [i \in 0 .. 4 |-> Xor(a[i], Chi(i))]
        c == [b EXCEPT ![1] = Xor(b[1], b[0]), ![3] = Xor(b[3], b[2])]
    IN [c EXCEPT ![0] = Xor(b[0], b[4]), ![2] = Complement(b[2], WordSize)]

AsconRotations == <<<<19, 28>>, <<61, 39>>, <<1, 6>>, <<10, 17>>, <<7, 41>>>>

AsconLinear(x) ==
    [i \in 0 .. 4 |-> Xor(x[i], Xor(Rotr(x[i], AsconRotations[i + 1][1], WordSize),
                                    Rotr(x[i], AsconRotations[i + 1][2], WordSize)))]

AsconRound(x, r) == AsconLinear(Sbox([x EXCEPT ![2] = Xor(@, RoundConstant(r))]))

Xoshiro(s) ==
    LET s2 == Xor(s[2], s[0])
        s3 == Xor(s[3], s[1])
    IN 0 :> Xor(s[0], s3) @@ 1 :> Xor(s[1], s2)
         @@ 2 :> Xor(s2, Shl(s[1], 17, WordSize)) @@ 3 :> Rotl(s3, 45, WordSize)

(* splitmix64's finaliser, also the output of Probe and of stream.rs.      *)
SplitMixFinalise(z) ==
    LET a == Mul(Xor(z, Shr(z, 30)), Constant(<<48984, 18285, 7396, 58809>>), WordSize)
        b == Mul(Xor(a, Shr(a, 27)), Constant(<<38096, 18875, 4913, 4587>>), WordSize)
    IN Xor(b, Shr(b, 31))

GoldenGamma == Constant(<<40503, 31161, 32586, 31765>>)

(* Probe::next_u64 number k, from 1, of a probe seeded with seed. *)
ProbeDraw(seed, k) ==
    SplitMixFinalise(FoldLeft(LAMBDA x, i : Plus(x, GoldenGamma), seed, [i \in 1 .. k |-> i]))

-----------------------------------------------------------------------------
(* counter_based.rs *)
Philox32 == [mul |-> <<Constant(<<53841, 8019>>), Constant(<<52638, 36183>>)>>,
             weyl |-> <<Constant(<<40503, 31161>>), Constant(<<47975, 44677>>)>>]
Philox64 == [mul |-> <<Constant(<<53991, 18190, 57676, 27795>>), Constant(<<51802, 33379, 38162, 4439>>)>>,
             weyl |-> <<GoldenGamma, Constant(<<47975, 44677, 33994, 42811>>)>>]

PhiloxRound(p, c, k) ==
    LET p0 == Mul(p.mul[1], c[1], 2 * WordSize)
        p1 == Mul(p.mul[2], c[3], 2 * WordSize)
    IN <<Xor(Xor(Shr(p1, WordSize), c[2]), k[1]), p1 \cap Positions(WordSize),
         Xor(Xor(Shr(p0, WordSize), c[4]), k[2]), p0 \cap Positions(WordSize)>>

Philox(p, ctr, key, rounds) ==
    LET Bumped(k) == <<Plus(k[1], p.weyl[1]), Plus(k[2], p.weyl[2])>>
        Round(s, r) == LET k == IF r > 1 THEN Bumped(s.key) ELSE s.key
                       IN [ctr |-> PhiloxRound(p, s.ctr, k), key |-> k]
    IN FoldLeft(Round, [ctr |-> ctr, key |-> key], [i \in 1 .. rounds |-> i]).ctr

SkeinParity == Constant(<<7121, 7130, 43516, 6690>>)

R64x4 == <<<<14, 16>>, <<52, 57>>, <<23, 40>>, <<5, 37>>, <<25, 33>>, <<46, 12>>, <<58, 22>>, <<32, 32>>>>

ThreefryKey(key) == Append(key, FoldLeft(Xor, SkeinParity, key))

(* x[to] += x[from]; x[from] is rotated and the new x[to] xored into it. *)
MixPair(x, to, from, r) ==
    LET sum == Plus(x[to], x[from])
    IN [x EXCEPT ![to] = sum, ![from] = Xor(Rotl(x[from], r, WordSize), sum)]

Threefry(ctr, key, rounds) ==
    LET ks == ThreefryKey(key)
        Inject(x, j) ==
            [i \in 1 .. 4 |-> LET sum == Plus(x[i], ks[((j + i - 1) % 5) + 1])
                              IN IF i = 4 THEN Plus(sum, WordOf(j, WordSize)) ELSE sum]
        Round(x, r) ==
            LET rot == R64x4[(r % 8) + 1]
                y == IF r % 2 = 0 THEN MixPair(MixPair(x, 1, 2, rot[1]), 3, 4, rot[2])
                                  ELSE MixPair(MixPair(x, 1, 4, rot[1]), 3, 2, rot[2])
            IN IF r % 4 = 3 THEN Inject(y, r \div 4 + 1) ELSE y
    IN FoldLeft(Round, [i \in 1 .. 4 |-> Plus(ctr[i], ks[i])], [i \in 1 .. rounds |-> i - 1])
=============================================================================
