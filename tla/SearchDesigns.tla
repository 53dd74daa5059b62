----------------------------- MODULE SearchDesigns -----------------------------
(***************************************************************************)
(* The permutations that the search examples of crates/statelab-crypto     *)
(* propose, and the gates that tell whether they are permutations at all:  *)
(* chichi_search.rs, chi_invertible.rs, shape_search.rs,                   *)
(* chi_stride_search.rs, arx_group_search.rs, arx_step_search.rs and       *)
(* arx_step_cycles.rs.                                                     *)
(*                                                                         *)
(* A state is a function from 0 .. n - 1 to words; the code has n = 16.    *)
(***************************************************************************)
EXTENDS Batteries

Width(x) == Cardinality(DOMAIN x)

(* !a & b *)
AndNot(a, b) == b \ a

-----------------------------------------------------------------------------
(* The linear layers. *)
Rho == [kind |-> "rho"]
RotateBy(r) == [kind |-> "rotate", r |-> r]
XorRot2(a, b) == [kind |-> "xorrot2", a |-> a, b |-> b]

SelfXor(w, a, b) == Xor(w, Xor(Rotr(w, a, WordSize), Rotr(w, b, WordSize)))

ApplyLinear(lin, w, lane) ==
    CASE lin.kind = "rho" -> Rotl(w, (((lane * (lane + 1)) \div 2) % 31) + 1, WordSize)
      [] lin.kind = "rotate" -> Rotl(w, lin.r, WordSize)
      [] lin.kind = "xorrot2" -> SelfXor(w, lin.a, lin.b)

OpsPerWord(lin) == IF lin.kind = "xorrot2" THEN 4 ELSE 1

LinearLayer(lin, x) == [i \in DOMAIN x |-> ApplyLinear(lin, x[i], i)]

(* The images of the unit words, eliminated. *)
LinearRank(lin, lane) ==
    Gf2Rank([j \in 1 .. WordSize |-> ApplyLinear(lin, {j - 1}, lane)], WordSize)

-----------------------------------------------------------------------------
(* ChiChi: chi on the first m words and on the others, and their first     *)
(* words change places.                                                    *)
ChiChi(x, m) ==
    LET Half(i) == IF i < m THEN [from |-> 0, len |-> m] ELSE [from |-> m, len |-> Width(x) - m]
        Tap(i, k) == x[Half(i).from + ((i - Half(i).from + k) % Half(i).len)]
        kept == [x EXCEPT ![0] = x[m], ![m] = x[0]]
    IN [i \in DOMAIN x |-> Xor(kept[i], AndNot(Tap(i, 1), Tap(i, 2)))]

FeistelHalf(x, dst, src, stride) ==
    LET half == Width(x) \div 2
        Tap(i, k) == x[src + ((i - dst + k * stride) % half)]
    IN [i \in DOMAIN x |->
          IF i \in dst .. dst + half - 1 THEN Xor(x[i], AndNot(Tap(i, 1), Tap(i, 2))) ELSE x[i]]

FeistelChi(x, stride) ==
    LET half == Width(x) \div 2
    IN FeistelHalf(FeistelHalf(x, 0, half, stride), half, 0, stride)

ChiChiRound(x, d) == LinearLayer(d.lin, ChiChi(x, d.m))
FeistelRound(x, d) == LinearLayer(d.lin, FeistelChi(x, d.stride))

(* nonlinear_is_bijective, feistel_chi_is_bijective: a layer of ands and   *)
(* xors acts on each bit position alike, so one-bit words decide; hit is   *)
(* the number of images of the n-word states.                              *)
OneBitStates(n) == [0 .. n - 1 -> SUBSET {0}]
ChiChiHits(n, m) == Cardinality({ChiChi(x, m) : x \in OneBitStates(n)})
FeistelHits(n, stride) == Cardinality({FeistelChi(x, stride) : x \in OneBitStates(n)})

AndOpsPerRound(d, n) == 3 * n + OpsPerWord(d.lin) * n

-----------------------------------------------------------------------------
(* The earlier shapes, measured without a gate: on an even number of words *)
(* this chi is no permutation.                                             *)
ChiAll(x, stride) ==
    LET n == Width(x)
    IN [i \in DOMAIN x |-> Xor(x[i], AndNot(x[(i + stride) % n], x[(i + 2 * stride) % n]))]

ChiHalf(x, round) ==
    LET half == Width(x) \div 2
        off == (round % 2) * half
        Tap(i, k) == x[off + ((i - off + k) % half)]
    IN [i \in DOMAIN x |->
          IF i \in off .. off + half - 1 THEN Xor(x[i], AndNot(Tap(i, 1), Tap(i, 2))) ELSE x[i]]

(* shape is [nl, rots, neighbour_xor]. *)
ShapeRound(x, shape, round) ==
    LET stirred == IF shape.nl = "chi" THEN ChiAll(x, 1) ELSE ChiHalf(x, round)
        turned == [i \in DOMAIN x |->
                     FoldLeft(LAMBDA w, r : SelfXor(w, r[1], r[2]), stirred[i], shape.rots)]
    IN [i \in DOMAIN x |->
          IF shape.neighbour_xor
          THEN Xor(turned[i], Rotl(turned[(i + 7) % Width(x)], 11, WordSize)) ELSE turned[i]]

ShapeOps(shape, n) ==
    (IF shape.nl = "chi" THEN 3 * n ELSE 3 * (n \div 2))
        + Len(shape.rots) * 4 * n + (IF shape.neighbour_xor THEN 2 * n ELSE 0)

StrideRound(x, d) ==
    [i \in DOMAIN x |-> LET w == ChiAll(x, d.stride)[i] IN Xor(w, Rotr(w, d.rot, WordSize))]

StrideOps(n) == 3 * n + 2 * n

-----------------------------------------------------------------------------
(* ChaCha with another number of steps in its quarter round. *)
StepsQr(steps) ==
    [i \in 1 .. steps |->
        IF i % 2 = 1 THEN QrStep(1, 2, 4, ChaChaRot[((i - 1) % 4) + 1])
                     ELSE QrStep(3, 4, 2, ChaChaRot[((i - 1) % 4) + 1])]

StepsRound(w, steps, round) == TopologyRound(w, ChaChaTopology, StepsQr(steps), round)

StepsOps(steps) == steps * 3 * 4

(* The block function that is timed, from the state of key, counter and    *)
(* nonce on.                                                               *)
StepsBlock(w, steps, rounds) ==
    LET v == TopologyRounds(w, ChaChaTopology, StepsQr(steps), rounds)
    IN [i \in Lanes |-> Plus(v[i], w[i])]

-----------------------------------------------------------------------------
(* Groups of g words, mixed in turn; every second round in blocks. *)
GroupLanes(g, which, round, n) ==
    [k \in 1 .. g |-> IF round % 2 = 0 THEN which + (k - 1) * (n \div g) ELSE which * g + k - 1]

MixWord(w, lanes, i) ==
    LET g == Len(lanes)
    IN XorSum(w, lanes[i], lanes[(i % g) + 1], lanes[((i + 1) % g) + 1], ChaChaRot[((i - 1) % 4) + 1])

Whiches(g, n) == [k \in 1 .. n \div g |-> k - 1]

GroupRound(w, g, round) ==
    FoldLeft(LAMBDA v, which : FoldLeftDomain(LAMBDA u, i : MixWord(u, GroupLanes(g, which, round, Width(w)), i),
                                              v, GroupLanes(g, which, round, Width(w))),
             w, Whiches(g, Width(w)))

(* The inverse: groups and words in the opposite order. *)
GroupRoundUndone(w, g, round) ==
    FoldLeft(LAMBDA v, which : FoldLeft(LAMBDA u, i : MixWord(u, GroupLanes(g, which, round, Width(w)), i),
                                        v, Reverse([i \in 1 .. g |-> i])),
             w, Reverse(Whiches(g, Width(w))))

RoundIsInvertible(g, states) ==
    \A w \in states, round \in 0 .. 1 : GroupRoundUndone(GroupRound(w, g, round), g, round) = w

GroupOps(g, n) == (n \div g) * g * 3
=============================================================================
