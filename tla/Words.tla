-------------------------------- MODULE Words --------------------------------
(***************************************************************************)
(* The unsigned machine words of Rust at any width w: a word is the set of *)
(* the positions of its one bits, position 0 the lowest.                   *)
(***************************************************************************)
EXTENDS Integers, Sequences, SequencesExt, FiniteSetsExt

Positions(w) == 0 .. w - 1
Word(w) == SUBSET Positions(w)

Xor(x, y) == (x \ y) \cup (y \ x)
Complement(x, w) == Positions(w) \ x
Shl(x, k, w) == {i + k : i \in x} \cap Positions(w)
Shr(x, k) == {i - k : i \in {j \in x : j >= k}}
Rotl(x, r, w) == {(i + r) % w : i \in x}
Rotr(x, r, w) == {(i + w - (r % w)) % w : i \in x}

(* A carry comes into i when some lower position generates one that every  *)
(* position in between propagates, as in a ripple adder.                            *)
CarriesInto(x, y, i) ==
    \E j \in x \cap y : j < i /\ \A k \in j + 1 .. i - 1 : k \in x \cup y

Carry(x, y, w) ==
    IF x \cap y = {} THEN {} ELSE {i \in Positions(w) : CarriesInto(x, y, i)}

(* wrapping_add, wrapping_sub, wrapping_mul *)
Add(x, y, w) == Xor(Xor(x, y), Carry(x, y, w))
Mul(x, y, w) ==
    LET Column(k) == Cardinality({i \in x : k - i \in y})
        carry[k \in 0 .. w] == IF k = 0 THEN 0 ELSE (carry[k - 1] + Column(k - 1)) \div 2
    IN {k \in Positions(w) : (carry[k] + Column(k)) % 2 = 1}

(* The number a word stands for, bit by bit. *)
Value(x) ==
    LET top == IF x = {} THEN 0 ELSE Max(x) + 1
        below[i \in 0 .. top] ==
            IF i = 0 THEN 0 ELSE below[i - 1] + (IF i - 1 \in x THEN 2^(i - 1) ELSE 0)
    IN below[top]

WordOf(n, w) == {i \in Positions(w) : i < 31 /\ (n \div 2^i) % 2 = 1}

(* Op(v); a model checker computes v before it starts on Op. *)
Strictly(Op(_), v) == CHOOSE result \in {Op(u) : u \in {v}} : TRUE

(* op applied to the entries of a sequence in turn: a left fold, as a      *)
(* function that a proof can unfold.                                       *)
InTurn(op(_, _), base, seq) ==
    LET after[n \in 0 .. Len(seq)] == IF n = 0 THEN base ELSE op(after[n - 1], seq[n])
    IN after[Len(seq)]

(* A constant of the source, in groups of sixteen bits from the high end. *)
Limbs(groups) ==
    UNION { {i + 16 * (Len(groups) - k) : i \in WordOf(groups[k], 16)} : k \in DOMAIN groups }

(* The bits of a sequence of w-bit words, laid end to end. *)
Joined(words, w) == UNION { {i + w * (k - 1) : i \in words[k]} : k \in DOMAIN words }
Split(x, count, w) == [k \in 1 .. count |-> Shr(x, w * (k - 1)) \cap Positions(w)]
=============================================================================
