----------------------------- MODULE CryptoProofs -----------------------------
(***************************************************************************)
(* Proofs about the crypto crate.                                          *)
(*                                                                         *)
(* The generators and their lifecycles (RngLifecycle), for every size of   *)
(* buffer and of request, any number of instances, seeds and draws.  The   *)
(* designs (ArxDesigns, SearchDesigns), for every word size, number of     *)
(* rounds and wiring.  The calls of DesignCalls: on any states and         *)
(* wirings, and the climbs for any score, budget and patience, whatever is *)
(* drawn.                                                                  *)
(***************************************************************************)
EXTENDS RngLifecycle, DesignCalls, WellFoundedInduction, FiniteSetTheorems,
        FunctionTheorems, SequenceTheorems, TLAPS

-----------------------------------------------------------------------------
(* The generators. *)
USE DEF NoSeed

(* What is erased is no unit of a keystream. *)
LEMMA ErasedIsNoUnit == \A u \in Units : u # Erased
  <1>1. DOMAIN Erased = {"erased"} /\ \A u \in Units : DOMAIN u = {"seed", "ratchets", "index"}
    BY DEF Erased, Units
  <1>2. QED
    BY <1>1

LEMMA UnitIsUnit ==
    ASSUME NEW s \in Nat \ {0}, NEW r \in Nat, NEW k \in Nat \ {0}
    PROVE  /\ Unit(s, r, k) \in Units
           /\ Unit(s, r, k).seed = s /\ Unit(s, r, k).ratchets = r /\ Unit(s, r, k).index = k
  BY DEF Unit, Units

-----------------------------------------------------------------------------
(* A new generator holds nothing, so that its first fill refills.          *)
LEMMA NewGenerator ==
    ASSUME NEW seed \in Nat, NEW units \in Nat, units >= 2
    PROVE  /\ New(seed, units) \in Generators /\ BufferHolds(New(seed, units))
           /\ New(seed, units).seed = seed /\ New(seed, units).fresh = NoSeed
           /\ New(seed, units).marker /\ ~New(seed, units).flagged
           /\ New(seed, units).pos = Len(New(seed, units).buffer)
           /\ New(seed, units).ratchets = 0
  <1> DEFINE b == [p \in 1 .. units |-> Erased]
  <1>1. b \in Seq(Units \cup {Erased}) /\ Len(b) = units
    BY IsASeq
  <1>2. New(seed, units) = [seed |-> seed, ratchets |-> 0, buffer |-> b, pos |-> units,
                            marker |-> TRUE, fresh |-> NoSeed, flagged |-> FALSE]
    BY DEF New
  <1>3. \A p \in 1 .. units : b[p] = Erased
    OBVIOUS
  <1> HIDE DEF b
  <1>4. New(seed, units) \in Generators
    BY <1>1, <1>2 DEF Generators
  <1>5. QED
    BY <1>1, <1>2, <1>3, <1>4 DEF BufferHolds

(* Buffer, key and position replaced. *)
LEMMA WithBufferType ==
    ASSUME NEW g \in Generators, NEW b \in Seq(Units \cup {Erased}),
           NEW ratchets \in Nat, NEW pos \in Nat
    PROVE  WithBuffer(g, b, ratchets, pos) \in Generators
  <1> DEFINE S == Seq(Units \cup {Erased})
  <1>1. Generators = [seed : Nat, ratchets : Nat, buffer : S, pos : Nat,
                      marker : BOOLEAN, fresh : Nat, flagged : BOOLEAN]
    BY DEF Generators
  <1>2. b \in S
    OBVIOUS
  <1> HIDE DEF S
  <1>3. QED
    BY <1>1, <1>2 DEF WithBuffer

(* A refill ratchets the key and leaves the generator with something to    *)
(* give; all that was behind it stays behind it.                           *)
LEMMA RefilledGenerator ==
    ASSUME NEW g \in Generators, BufferHolds(g), g.seed # NoSeed
    PROVE  /\ Refilled(g) \in Generators /\ BufferHolds(Refilled(g))
           /\ Refilled(g).pos < Len(Refilled(g).buffer) /\ Refilled(g).ratchets >= 1
           /\ Refilled(g).seed = g.seed /\ Refilled(g).fresh = g.fresh
           /\ Refilled(g).marker = g.marker /\ Refilled(g).flagged = g.flagged
           /\ \A u \in Units : IsBehind(u, g) => IsBehind(u, Refilled(g))
  <1>1. /\ g.seed \in Nat \ {0} /\ g.ratchets \in Nat /\ g.pos \in Nat
        /\ g.buffer \in Seq(Units \cup {Erased}) /\ Len(g.buffer) \in Nat
    BY DEF Generators
  <1>2. CASE g.pos = Len(g.buffer)
    <2> DEFINE b == [p \in DOMAIN g.buffer |->
                       IF p = 1 THEN Erased ELSE Unit(g.seed, g.ratchets, p - 1)]
    <2>1. Refilled(g) = WithBuffer(g, b, g.ratchets + 1, 1)
      BY <1>2 DEF Refilled, Refill
    <2>2. DOMAIN g.buffer = 1 .. Len(g.buffer)
      BY <1>1
    <2>3. \A p \in 1 .. Len(g.buffer) : p # 1 => Unit(g.seed, g.ratchets, p - 1) \in Units
      <3>1. SUFFICES ASSUME NEW p \in 1 .. Len(g.buffer), p # 1
                     PROVE  Unit(g.seed, g.ratchets, p - 1) \in Units
        OBVIOUS
      <3>2. p - 1 \in Nat \ {0}
        BY <1>1, <3>1
      <3>3. QED
        BY <1>1, <3>2, UnitIsUnit
    <2>4. b \in Seq(Units \cup {Erased}) /\ Len(b) = Len(g.buffer)
      BY <1>1, <2>2, <2>3, IsASeq
    <2>5. \A p \in 1 .. Len(g.buffer) :
             b[p] = IF p <= 1 THEN Erased ELSE Unit(g.seed, g.ratchets, p - 1)
      BY <1>1, <2>2
    <2> HIDE DEF b
    <2>6. /\ Refilled(g).buffer = b /\ Refilled(g).ratchets = g.ratchets + 1
          /\ Refilled(g).pos = 1 /\ Refilled(g) \in Generators
          /\ Refilled(g).seed = g.seed /\ Refilled(g).fresh = g.fresh
          /\ Refilled(g).marker = g.marker /\ Refilled(g).flagged = g.flagged
      <3>1. g.ratchets + 1 \in Nat
        BY <1>1
      <3>2. WithBuffer(g, b, g.ratchets + 1, 1) \in Generators
        BY <2>4, <3>1, WithBufferType
      <3>3. QED
        BY <2>1, <3>2 DEF WithBuffer
    <2>8. (g.ratchets + 1) - 1 = g.ratchets
      BY <1>1
    <2>9. BufferHolds(Refilled(g))
      BY <1>1, <2>4, <2>5, <2>6, <2>8 DEF BufferHolds
    <2>10. \A u \in Units : IsBehind(u, g) => IsBehind(u, Refilled(g))
      BY <1>1, <2>6 DEF IsBehind, Units
    <2>11. QED
      BY <1>1, <2>4, <2>6, <2>9, <2>10 DEF BufferHolds
  <1>3. CASE g.pos # Len(g.buffer)
    <2>1. Refilled(g) = g /\ g.pos < Len(g.buffer)
      BY <1>1, <1>3 DEF Refilled, BufferHolds
    <2>2. g.ratchets >= 1
      <3>1. g.buffer[Len(g.buffer)] = Unit(g.seed, g.ratchets - 1, Len(g.buffer) - 1)
        BY <1>1, <2>1 DEF BufferHolds
      <3>2. Unit(g.seed, g.ratchets - 1, Len(g.buffer) - 1) \in Units \cup {Erased}
        BY <1>1, <3>1 DEF BufferHolds
      <3>3. Unit(g.seed, g.ratchets - 1, Len(g.buffer) - 1) # Erased
        BY DEF Unit, Erased
      <3>4. Unit(g.seed, g.ratchets - 1, Len(g.buffer) - 1).ratchets \in Nat
        BY <3>2, <3>3 DEF Units
      <3>5. g.ratchets - 1 \in Nat
        BY <3>4 DEF Unit
      <3>6. QED
        BY <1>1, <3>5
    <2>3. QED
      BY <2>1, <2>2
  <1>4. QED
    BY <1>2, <1>3

LEMMA TakeBounds ==
    ASSUME NEW g \in Generators, BufferHolds(g), g.pos < Len(g.buffer),
           NEW wanted \in Nat, wanted > 0
    PROVE  /\ TakeOf(g, wanted) \in 1 .. Len(g.buffer) - g.pos
           /\ TakeOf(g, wanted) <= wanted
  <1> DEFINE room == Len(g.buffer) - g.pos
  <1>1. room \in Nat /\ room >= 1
    BY DEF Generators
  <1> HIDE DEF room
  <1>2. \E x \in {wanted, room} : \A y \in {wanted, room} : x =< y
    BY <1>1
  <1>3. /\ Min({wanted, room}) \in {wanted, room}
        /\ \A y \in {wanted, room} : Min({wanted, room}) =< y
    BY <1>2 DEF Min
  <1>4. QED
    BY <1>1, <1>3 DEF TakeOf, room

(* What one iteration of the loop draws, and where it leaves the buffer.   *)
LEMMA ConsumedGenerator ==
    ASSUME NEW g \in Generators, BufferHolds(g), g.pos < Len(g.buffer),
           g.seed # NoSeed, g.fresh # g.seed, g.ratchets >= 1,
           NEW take \in 1 .. Len(g.buffer) - g.pos
    PROVE  LET drawn == SubSeq(g.buffer, g.pos + 1, g.pos + take)
               h == Consumed(g, take)
           IN /\ h \in Generators /\ BufferHolds(h)
              /\ h.seed = g.seed /\ h.fresh = g.fresh
              /\ h.marker = g.marker /\ h.flagged = g.flagged
              /\ drawn \in Seq(Units) /\ Len(drawn) = take
              /\ IsInjective(drawn)
              /\ \A u \in ToSet(drawn) : u.seed = g.seed /\ ~IsBehind(u, g) /\ IsBehind(u, h)
              /\ \A u \in Units : IsBehind(u, g) => IsBehind(u, h)
  <1> DEFINE drawn == SubSeq(g.buffer, g.pos + 1, g.pos + take)
             h == Consumed(g, take)
             b == [p \in DOMAIN g.buffer |->
                     IF p \in g.pos + 1 .. g.pos + take THEN Erased ELSE g.buffer[p]]
  <1>0. /\ g.pos \in Nat /\ take \in Nat /\ g.pos >= 1 /\ take >= 1
        /\ Len(g.buffer) \in Nat /\ g.pos + take <= Len(g.buffer)
    BY DEF Generators, BufferHolds
  <1>1. /\ g.seed \in Nat \ {0} /\ g.ratchets \in Nat /\ g.ratchets - 1 \in Nat
        /\ g.buffer \in Seq(Units \cup {Erased}) /\ DOMAIN g.buffer = 1 .. Len(g.buffer)
    BY DEF Generators
  <1>2. h = WithBuffer(g, b, g.ratchets, g.pos + take)
    BY DEF Consumed
  <1>3. /\ b \in Seq(Units \cup {Erased}) /\ Len(b) = Len(g.buffer)
        /\ \A p \in 1 .. Len(g.buffer) :
              b[p] = IF p \in g.pos + 1 .. g.pos + take THEN Erased ELSE g.buffer[p]
    BY <1>0, <1>1, IsASeq
  <1> HIDE DEF b
  <1>4. /\ h.buffer = b /\ h.pos = g.pos + take /\ h.ratchets = g.ratchets
        /\ h.seed = g.seed /\ h.fresh = g.fresh
        /\ h.marker = g.marker /\ h.flagged = g.flagged
        /\ h \in Generators
    <2>1. g.pos + take \in Nat
      BY <1>0
    <2>2. WithBuffer(g, b, g.ratchets, g.pos + take) \in Generators
      BY <1>1, <1>3, <2>1, WithBufferType
    <2> HIDE DEF h
    <2>3. QED
      BY <1>2, <2>2 DEF WithBuffer
  <1>6. BufferHolds(h)
    <2>1. Len(h.buffer) >= 2 /\ h.pos \in 1 .. Len(h.buffer)
      BY <1>0, <1>3, <1>4 DEF BufferHolds
    <2>2. ASSUME NEW p \in 1 .. Len(h.buffer)
          PROVE  h.buffer[p] = IF p <= h.pos THEN Erased
                               ELSE Unit(h.seed, h.ratchets - 1, p - 1)
      <3>1. p \in 1 .. Len(g.buffer)
        BY <1>3, <1>4
      <3>2. g.buffer[p] = IF p <= g.pos THEN Erased ELSE Unit(g.seed, g.ratchets - 1, p - 1)
        BY <3>1 DEF BufferHolds
      <3>3. p \in g.pos + 1 .. g.pos + take <=> p <= g.pos + take /\ ~(p <= g.pos)
        BY <1>0, <3>1
      <3>4. p <= g.pos => p <= g.pos + take
        BY <1>0, <3>1
      <3>5. QED
        BY <1>3, <1>4, <3>1, <3>2, <3>3, <3>4
    <2>3. QED
      BY <2>1, <2>2 DEF BufferHolds
  <1>7. \A p \in g.pos + 1 .. g.pos + take :
           /\ g.buffer[p] \in Units /\ g.buffer[p].seed = g.seed
           /\ g.buffer[p].ratchets = g.ratchets - 1 /\ g.buffer[p].index = p - 1
    <2>1. SUFFICES ASSUME NEW p \in g.pos + 1 .. g.pos + take
                   PROVE  /\ g.buffer[p] \in Units /\ g.buffer[p].seed = g.seed
                          /\ g.buffer[p].ratchets = g.ratchets - 1
                          /\ g.buffer[p].index = p - 1
      OBVIOUS
    <2>2. p \in 1 .. Len(g.buffer) /\ ~(p <= g.pos) /\ p - 1 \in Nat \ {0}
      BY <1>0
    <2>3. g.buffer[p] = Unit(g.seed, g.ratchets - 1, p - 1)
      BY <2>2 DEF BufferHolds
    <2>4. g.seed \in Nat \ {0} /\ g.ratchets - 1 \in Nat
      BY <1>1
    <2>5. /\ Unit(g.seed, g.ratchets - 1, p - 1) \in Units
          /\ Unit(g.seed, g.ratchets - 1, p - 1).seed = g.seed
          /\ Unit(g.seed, g.ratchets - 1, p - 1).ratchets = g.ratchets - 1
          /\ Unit(g.seed, g.ratchets - 1, p - 1).index = p - 1
      BY <2>2, <2>4 DEF Unit, Units
    <2>6. QED
      BY <2>3, <2>5
  <1>8. /\ drawn \in Seq(Units) /\ Len(drawn) = take
        /\ \A k \in 1 .. take : drawn[k] = g.buffer[g.pos + k]
    <2>1. /\ g.pos + 1 \in Int /\ g.pos + take \in Int /\ g.pos + 1 <= g.pos + take
          /\ (g.pos + take) - (g.pos + 1) + 1 = take
          /\ \A k \in 1 .. take : (g.pos + 1) + k - 1 = g.pos + k
      <3>1. g.pos + 1 \in Int
        BY <1>0
      <3>2. g.pos + take \in Int /\ g.pos + 1 <= g.pos + take
        BY <1>0
      <3>3. (g.pos + take) - (g.pos + 1) + 1 = take
        BY <1>0
      <3>4. \A k \in 1 .. take : (g.pos + 1) + k - 1 = g.pos + k
        BY <1>0
      <3>5. QED
        BY <3>1, <3>2, <3>3, <3>4
    <2>2. \A p \in g.pos + 1 .. g.pos + take : g.buffer[p] \in Units
      BY <1>7
    <2>3. /\ drawn \in Seq(Units) /\ Len(drawn) = (g.pos + take) - (g.pos + 1) + 1
          /\ \A k \in 1 .. (g.pos + take) - (g.pos + 1) + 1 :
                drawn[k] = g.buffer[(g.pos + 1) + k - 1]
      BY <2>1, <2>2, SubSeqProperties, SMTT(30)
    <2> HIDE DEF drawn
    <2>4. QED
      BY <2>1, <2>3
  <1>9. \A k \in 1 .. take :
           /\ drawn[k].seed = g.seed
           /\ drawn[k].ratchets = g.ratchets - 1 /\ drawn[k].index = g.pos + k - 1
    <2>1. SUFFICES ASSUME NEW k \in 1 .. take
                   PROVE  /\ drawn[k].seed = g.seed
                          /\ drawn[k].ratchets = g.ratchets - 1
                          /\ drawn[k].index = g.pos + k - 1
      OBVIOUS
    <2>2. g.pos + k \in g.pos + 1 .. g.pos + take
      BY <1>0
    <2> HIDE DEF drawn
    <2>3. drawn[k] = g.buffer[g.pos + k]
      BY <1>8
    <2>4. QED
      <3> DEFINE q == g.pos + k
      <3>1. q \in g.pos + 1 .. g.pos + take /\ q - 1 = g.pos + k - 1 /\ drawn[k] = g.buffer[q]
        BY <1>0, <2>2, <2>3
      <3> HIDE DEF q
      <3>2. QED
        BY <1>7, <3>1
  <1> HIDE DEF drawn, h
  <1>10. DOMAIN drawn = 1 .. take
    BY <1>1, <1>8
  <1>11. IsInjective(drawn)
    <2>1. ASSUME NEW a \in 1 .. take, NEW c \in 1 .. take, drawn[a] = drawn[c] PROVE a = c
      <3>1. g.pos + a - 1 = g.pos + c - 1
        BY <1>9, <2>1
      <3>2. QED
        BY <1>0, <3>1
    <2>2. QED
      BY <1>10, <2>1 DEF IsInjective
  <1>12. ASSUME NEW u \in ToSet(drawn)
         PROVE  u.seed = g.seed /\ ~IsBehind(u, g) /\ IsBehind(u, h)
    <2>1. PICK k \in 1 .. take : u = drawn[k]
      BY <1>10 DEF ToSet
    <2>2. /\ u.seed = g.seed /\ u.ratchets = g.ratchets - 1 /\ u.index = g.pos + k - 1
      BY <1>9, <2>1
    <2>3. u.index < g.pos + take /\ ~(u.index < g.pos) /\ u.ratchets < g.ratchets
      BY <1>0, <1>1, <2>2
    <2>4. IsBehind(u, h)
      BY <1>4, <2>2, <2>3 DEF IsBehind
    <2>5. ~IsBehind(u, g)
      BY <1>0, <2>2, <2>3 DEF IsBehind
    <2>6. QED
      BY <2>2, <2>4, <2>5
  <1>13. \A u \in Units : IsBehind(u, g) => IsBehind(u, h)
    BY <1>0, <1>1, <1>3, <1>4 DEF IsBehind, Units
  <1>14. QED
    BY <1>4, <1>6, <1>8, <1>11, <1>12, <1>13 DEF drawn, h

-----------------------------------------------------------------------------
(* What a sequence of units and one appended to it hold together.          *)
LEMMA Appended ==
    ASSUME NEW a \in Seq(Units), NEW b \in Seq(Units), IsInjective(a), IsInjective(b),
           ToSet(a) \cap ToSet(b) = {}
    PROVE  /\ a \o b \in Seq(Units) /\ IsInjective(a \o b)
           /\ ToSet(a \o b) = ToSet(a) \cup ToSet(b)
  <1> DEFINE c == a \o b
             m == Len(a)
             n == Len(b)
  <1>1. m \in Nat /\ n \in Nat /\ DOMAIN a = 1 .. m /\ DOMAIN b = 1 .. n
    OBVIOUS
  <1>2. /\ c \in Seq(Units) /\ DOMAIN c = 1 .. m + n
        /\ \A p \in 1 .. m : c[p] = a[p]
        /\ \A p \in m + 1 .. m + n : c[p] = b[p - m]
    OBVIOUS
  <1> HIDE DEF c, m, n
  <1>3. /\ \A p \in 1 .. m : c[p] \in ToSet(a)
        /\ \A p \in m + 1 .. m + n : c[p] \in ToSet(b)
    <2>1. \A p \in m + 1 .. m + n : p - m \in 1 .. n
      BY <1>1
    <2>2. QED
      BY <1>1, <1>2, <2>1 DEF ToSet
  <1>4. ToSet(c) = ToSet(a) \cup ToSet(b)
    <2>1. \A p \in 1 .. m + n : p \in 1 .. m \/ p \in m + 1 .. m + n
      BY <1>1
    <2>2. ToSet(c) \subseteq ToSet(a) \cup ToSet(b)
      BY <1>2, <1>3, <2>1 DEF ToSet
    <2>3. ToSet(a) \subseteq ToSet(c)
      BY <1>1, <1>2 DEF ToSet
    <2>4. ASSUME NEW q \in 1 .. n PROVE b[q] \in ToSet(c)
      <3>1. m + q \in m + 1 .. m + n /\ (m + q) - m = q /\ m + q \in 1 .. m + n
        BY <1>1
      <3>2. c[m + q] = b[q]
        BY <1>2, <3>1
      <3>3. QED
        BY <1>2, <3>1, <3>2 DEF ToSet
    <2>5. ToSet(b) \subseteq ToSet(c)
      BY <1>1, <2>4 DEF ToSet
    <2>6. QED
      BY <2>2, <2>3, <2>5
  <1>5. IsInjective(c)
    <2>1. SUFFICES ASSUME NEW p \in 1 .. m + n, NEW q \in 1 .. m + n, c[p] = c[q]
                   PROVE  p = q
      BY <1>2 DEF IsInjective
    <2>2. CASE p \in 1 .. m /\ q \in 1 .. m
      BY <1>1, <1>2, <2>1, <2>2 DEF IsInjective
    <2>3. CASE p \in m + 1 .. m + n /\ q \in m + 1 .. m + n
      <3>1. p - m \in 1 .. n /\ q - m \in 1 .. n
        BY <1>1, <2>3
      <3>2. b[p - m] = b[q - m]
        BY <1>2, <2>1, <2>3
      <3>3. p - m = q - m
        BY <1>1, <3>1, <3>2 DEF IsInjective
      <3>4. QED
        BY <1>1, <3>3
    <2>4. ~(p \in 1 .. m /\ q \in m + 1 .. m + n) /\ ~(q \in 1 .. m /\ p \in m + 1 .. m + n)
      BY <1>3, <2>1
    <2>5. (p \in 1 .. m \/ p \in m + 1 .. m + n) /\ (q \in 1 .. m \/ q \in m + 1 .. m + n)
      BY <1>1
    <2>6. QED
      BY <2>2, <2>3, <2>4, <2>5
  <1>6. QED
    BY <1>2, <1>4, <1>5 DEF c

(* Entropy that reached a wiped instance takes the place of its key.       *)
LEMMA ReseededGenerator ==
    ASSUME NEW g \in Generators, BufferHolds(g), UnitsAssumption
    PROVE  LET h == Reseeded(g)
           IN /\ h \in Generators /\ BufferHolds(h)
              /\ h.marker \/ h.flagged
              /\ g.flagged => h.flagged
              /\ g.marker => h = g
              /\ \/ h.seed = g.seed /\ h.fresh = g.fresh /\ h.marker = g.marker
                 \/ h.seed = g.fresh /\ h.fresh = NoSeed /\ g.fresh # NoSeed
              /\ \A u \in Units : IsBehind(u, g) => IsBehind(u, h)
  <1> DEFINE h == Reseeded(g)
  <1>1. CASE g.marker
    BY <1>1 DEF Reseeded
  <1>2. CASE ~g.marker /\ g.fresh # NoSeed
    <2> DEFINE k == New(g.fresh, ReseedUnits)
    <2>1. /\ k \in Generators /\ BufferHolds(k)
          /\ k.seed = g.fresh /\ k.fresh = NoSeed /\ k.marker
          /\ k = [seed |-> k.seed, ratchets |-> k.ratchets, buffer |-> k.buffer, pos |-> k.pos,
                  marker |-> k.marker, fresh |-> k.fresh, flagged |-> k.flagged]
      <3>1. g.fresh \in Nat /\ ReseedUnits \in Nat /\ ReseedUnits >= 2
        BY DEF Generators, UnitsAssumption
      <3>2. QED
        BY <3>1, NewGenerator DEF New
    <2>2. h = [k EXCEPT !.flagged = g.flagged]
      BY <1>2 DEF Reseeded
    <2> HIDE DEF k, h
    <2>3. h = [seed |-> k.seed, ratchets |-> k.ratchets, buffer |-> k.buffer, pos |-> k.pos,
               marker |-> k.marker, fresh |-> k.fresh, flagged |-> g.flagged]
      BY <2>1, <2>2
    <2>4. h \in Generators
      <3> DEFINE S == Seq(Units \cup {Erased})
      <3>1. Generators = [seed : Nat, ratchets : Nat, buffer : S, pos : Nat,
                          marker : BOOLEAN, fresh : Nat, flagged : BOOLEAN]
        BY DEF Generators
      <3> HIDE DEF S
      <3>2. QED
        BY <2>1, <2>3, <3>1
    <2>5. BufferHolds(h)
      BY <2>1, <2>3 DEF BufferHolds
    <2>6. \A u \in Units : IsBehind(u, g) => IsBehind(u, h)
      BY <2>1, <2>3 DEF IsBehind, Units
    <2>7. /\ h.marker /\ h.seed = g.fresh /\ h.fresh = NoSeed /\ h.flagged = g.flagged
      BY <2>1, <2>3
    <2>8. QED
      BY <1>2, <2>4, <2>5, <2>6, <2>7 DEF h
  <1>3. CASE ~g.marker /\ g.fresh = NoSeed
    <2>1. h = [g EXCEPT !.flagged = TRUE]
      BY <1>3 DEF Reseeded
    <2>2. /\ h \in Generators /\ h.flagged /\ h.seed = g.seed /\ h.fresh = g.fresh
          /\ h.marker = g.marker /\ h.ratchets = g.ratchets /\ h.pos = g.pos
          /\ h.buffer = g.buffer
      <3> DEFINE S == Seq(Units \cup {Erased})
      <3>1. Generators = [seed : Nat, ratchets : Nat, buffer : S, pos : Nat,
                          marker : BOOLEAN, fresh : Nat, flagged : BOOLEAN]
        BY DEF Generators
      <3> HIDE DEF S, h
      <3>2. QED
        BY <2>1, <3>1
    <2> HIDE DEF h
    <2>3. BufferHolds(h) /\ \A u \in Units : IsBehind(u, g) => IsBehind(u, h)
      BY <2>2 DEF BufferHolds, IsBehind
    <2>4. QED
      BY <1>3, <2>2, <2>3 DEF h
  <1>4. QED
    BY <1>1, <1>2, <1>3

-----------------------------------------------------------------------------
LEMMA TypeFacts ==
    ASSUME TypeOK, NEW i \in Instances
    PROVE  /\ rng[i] \in Generators /\ out[i] \in Seq(Units) /\ want[i] \in Nat
           /\ past[i] \subseteq Units /\ Drawn(i) \subseteq Units
           /\ rng[i].seed \in Nat /\ rng[i].fresh \in Nat /\ rng[i].ratchets \in Nat
           /\ seeds \in Nat /\ booted \in Nat /\ \A u \in Drawn(i) : u.seed \in Nat \ {0}
  <1>1. /\ rng[i] \in Generators /\ out[i] \in Seq(Units) /\ want[i] \in Nat
        /\ past[i] \subseteq Units /\ seeds \in Nat /\ booted \in Nat
    BY DEF TypeOK
  <1>2. ToSet(out[i]) \subseteq Units
    BY <1>1 DEF ToSet
  <1>3. Drawn(i) \subseteq Units
    BY <1>1, <1>2 DEF Drawn
  <1>4. \A u \in Units : u.seed \in Nat \ {0}
    BY DEF Units
  <1>5. rng[i].seed \in Nat /\ rng[i].fresh \in Nat /\ rng[i].ratchets \in Nat
    BY <1>1 DEF Generators
  <1>6. QED
    BY <1>1, <1>3, <1>4, <1>5

(* An instance that a step leaves alone. *)
LEMMA InstanceKept ==
    ASSUME TypeOK, NEW i \in Instances, InstanceOK(i),
           rng'[i] = rng[i], out'[i] = out[i], past'[i] = past[i], want'[i] = want[i],
           construction' = construction, seeds' \in Nat, seeds' >= seeds,
           (i <= booted') <=> (i <= booted)
    PROVE  InstanceOK(i)'
  <1>1. /\ rng[i].seed \in Nat /\ rng[i].fresh \in Nat /\ seeds \in Nat
        /\ \A u \in Drawn(i) : u.seed \in Nat
    BY TypeFacts
  <1>2. Drawn(i)' = Drawn(i)
    BY DEF Drawn
  <1>3. \A u \in Drawn(i)' : u.seed <= seeds' /\ IsBehind(u, rng'[i])
    BY <1>1, <1>2 DEF InstanceOK
  <1>4. rng'[i].seed <= seeds' /\ rng'[i].fresh <= seeds'
    BY <1>1 DEF InstanceOK
  <1>5. QED
    BY <1>2, <1>3, <1>4 DEF InstanceOK

(* Known seeds have been handed out. *)
LEMMA KnownSeeds ==
    ASSUME TypeOK, NEW i \in Instances, InstanceOK(i), NEW s, Knows(i, s)
    PROVE  s <= seeds
  BY DEF InstanceOK, Knows, Drawn

LEMMA KnowsKept ==
    ASSUME NEW i, rng'[i] = rng[i], out'[i] = out[i], NEW s
    PROVE  Knows(i, s)' <=> Knows(i, s)
  BY DEF Knows

(* One instance learns at most a seed that nobody was handed before.       *)
LEMMA ApartWhenOneLearns ==
    ASSUME IInv, NEW i \in Instances, family' = family,
           \A j \in Instances : j # i => rng'[j] = rng[j] /\ out'[j] = out[j],
           rng[i].flagged => rng'[i].flagged,
           \A s \in Nat : Knows(i, s)' => rng'[i].flagged \/ Knows(i, s) \/ s > seeds
    PROVE  SeedsApart'
  <1>1. SUFFICES ASSUME NEW j \in Instances, NEW k \in Instances, family'[j] # family'[k]
                 PROVE  \/ rng'[j].flagged \/ rng'[k].flagged
                        \/ \A s \in Nat : ~(Knows(j, s)' /\ Knows(k, s)')
    BY DEF SeedsApart, Knows
  <1>2. \/ rng[j].flagged \/ rng[k].flagged
        \/ \A s \in Nat : ~(Knows(j, s) /\ Knows(k, s))
    BY <1>1 DEF IInv, SeedsApart
  <1>3. j # k
    BY <1>1
  <1>4. \A l \in Instances : l # i => \A s : Knows(l, s)' <=> Knows(l, s)
    BY KnowsKept
  <1>5. \A l \in Instances : \A s \in Nat : Knows(l, s) => ~(s > seeds)
    <2>1. SUFFICES ASSUME NEW l \in Instances, NEW s \in Nat, Knows(l, s) PROVE s <= seeds
      BY DEF IInv, TypeOK
    <2>2. QED
      BY <2>1, KnownSeeds DEF IInv
  <1>6. CASE j = i
    BY <1>2, <1>3, <1>4, <1>5, <1>6
  <1>7. CASE k = i
    BY <1>2, <1>3, <1>4, <1>5, <1>7
  <1>8. CASE j # i /\ k # i
    BY <1>2, <1>4, <1>8
  <1>9. QED
    BY <1>6, <1>7, <1>8

(* A new instance knows what the one it is a copy of knows, and belongs to *)
(* its family, or it knows nothing yet.                                    *)
LEMMA ApartWhenOneAppears ==
    ASSUME IInv, NEW i \in Instances, NEW c \in Instances,
           \A j \in Instances : j # c =>
              rng'[j] = rng[j] /\ out'[j] = out[j] /\ family'[j] = family[j],
           \/ \A s \in Nat : ~Knows(c, s)'
           \/ /\ c # i /\ family'[c] = family[i]
              /\ rng[i].flagged => rng'[c].flagged
              /\ \A s \in Nat : Knows(c, s)' => Knows(i, s)
    PROVE  SeedsApart'
  <1>1. SUFFICES ASSUME NEW j \in Instances, NEW k \in Instances, family'[j] # family'[k]
                 PROVE  \/ rng'[j].flagged \/ rng'[k].flagged
                        \/ \A s \in Nat : ~(Knows(j, s)' /\ Knows(k, s)')
    BY DEF SeedsApart, Knows
  <1>2. \A l \in Instances : l # c => \A s : Knows(l, s)' <=> Knows(l, s)
    BY KnowsKept
  <1>3. \A l, m \in Instances : family[l] # family[m] =>
           \/ rng[l].flagged \/ rng[m].flagged
           \/ \A s \in Nat : ~(Knows(l, s) /\ Knows(m, s))
    BY DEF IInv, SeedsApart
  <1>4. CASE j # c /\ k # c
    BY <1>1, <1>2, <1>3, <1>4
  <1>5. CASE \A s \in Nat : ~Knows(c, s)'
    BY <1>1, <1>4, <1>5
  <1>6. CASE /\ c # i /\ family'[c] = family[i]
             /\ rng[i].flagged => rng'[c].flagged
             /\ \A s \in Nat : Knows(c, s)' => Knows(i, s)
    <2>1. CASE j = c
      <3>1. k # c /\ family[i] # family[k]
        BY <1>1, <1>6, <2>1
      <3>2. QED
        BY <1>2, <1>3, <1>6, <2>1, <3>1
    <2>2. CASE k = c
      <3>1. j # c /\ family[j] # family[i]
        BY <1>1, <1>6, <2>2
      <3>2. QED
        BY <1>2, <1>3, <1>6, <2>2, <3>1
    <2>3. QED
      BY <1>4, <2>1, <2>2
  <1>7. QED
    BY <1>5, <1>6

-----------------------------------------------------------------------------
LEMMA InitInv == ASSUME UnitsAssumption, Init PROVE IInv
  <1>1. /\ BufferUnits \in Nat /\ BufferUnits >= 2 /\ MaxInstances \in Nat
        /\ Instances \subseteq Nat
    BY DEF UnitsAssumption, Instances
  <1>2. \A i \in Instances :
            /\ rng[i] = New(NoSeed, BufferUnits) /\ want[i] = 0 /\ out[i] = <<>>
            /\ past[i] = {} /\ family[i] = i
    BY DEF Init
  <1>3. \A i \in Instances :
            /\ rng[i] \in Generators /\ BufferHolds(rng[i]) /\ rng[i].marker /\ ~rng[i].flagged
            /\ rng[i].seed = NoSeed /\ rng[i].fresh = NoSeed
            /\ rng[i].pos = Len(rng[i].buffer)
    <2>1. LET g == New(NoSeed, BufferUnits)
          IN /\ g \in Generators /\ BufferHolds(g) /\ g.marker /\ ~g.flagged
             /\ g.seed = NoSeed /\ g.fresh = NoSeed /\ g.pos = Len(g.buffer)
      BY <1>1, NewGenerator
    <2>2. QED
      BY <1>2, <2>1
  <1>4. TypeOK
    <2>1. /\ rng \in [Instances -> Generators] /\ want \in [Instances -> Nat]
          /\ out \in [Instances -> Seq(Units)] /\ past \in [Instances -> SUBSET Units]
          /\ family \in [Instances -> Nat]
      BY <1>1, <1>2, <1>3 DEF Init
    <2>2. QED
      BY <1>1, <2>1 DEF Init, TypeOK
  <1>5. ASSUME NEW i \in Instances PROVE InstanceOK(i)
    <2>1. Drawn(i) = {} /\ ToSet(out[i]) = {} /\ IsInjective(out[i])
      BY <1>2 DEF Drawn, ToSet, IsInjective
    <2>2. ~(i <= booted) /\ seeds = 0 /\ i \in Nat /\ ~(want[i] > 0)
      BY <1>1, <1>2 DEF Init, Instances
    <2>3. QED
      BY <1>2, <1>3, <2>1, <2>2 DEF InstanceOK
  <1>6. SeedsApart
    <2>1. ASSUME NEW i \in Instances, NEW s \in Nat PROVE ~Knows(i, s)
      BY <1>2, <1>3 DEF Knows, ToSet
    <2>2. QED
      BY <2>1 DEF SeedsApart
  <1>7. QED
    BY <1>4, <1>5, <1>6 DEF IInv

(***************************************************************************)
(* The steps that draw: units of the current key, behind which nothing     *)
(* drawn before is left.                                                   *)
(***************************************************************************)
Draws(i, h, drawn, owed) ==
    /\ i <= booted
    /\ BufferHolds(h) /\ IsInjective(drawn)
    /\ h.seed = rng[i].seed /\ h.fresh = rng[i].fresh
    /\ h.marker = rng[i].marker /\ h.flagged = rng[i].flagged
    /\ rng[i].marker \/ rng[i].flagged
    /\ \A u \in ToSet(drawn) :
          u.seed = rng[i].seed /\ ~IsBehind(u, rng[i]) /\ IsBehind(u, h)
    /\ \A u \in Units : IsBehind(u, rng[i]) => IsBehind(u, h)
    /\ owed > 0 => construction # "naive"
    /\ construction = "naive" => h.pos = Len(h.buffer)
    /\ out' = [out EXCEPT ![i] = out[i] \o drawn]
    /\ rng' = [rng EXCEPT ![i] = h]
    /\ want' = [want EXCEPT ![i] = owed]
    /\ UNCHANGED <<construction, booted, seeds, past, family>>

LEMMA DrawInv ==
    ASSUME IInv, NEW i \in Instances, NEW h \in Generators, NEW drawn \in Seq(Units),
           NEW owed \in Nat, Draws(i, h, drawn, owed)
    PROVE  IInv'
  <1> USE DEF Draws
  <1>1. TypeOK /\ InstanceOK(i)
    BY DEF IInv
  <1>2. /\ rng \in [Instances -> Generators] /\ want \in [Instances -> Nat]
        /\ out \in [Instances -> Seq(Units)]
    BY <1>1 DEF TypeOK
  <1>3. /\ rng'[i] = h /\ out'[i] = out[i] \o drawn /\ want'[i] = owed
        /\ \A j \in Instances : j # i =>
              rng'[j] = rng[j] /\ out'[j] = out[j] /\ want'[j] = want[j]
    BY <1>2
  <1>4. \A u \in Drawn(i) : u \in Units /\ IsBehind(u, rng[i]) /\ u.seed <= seeds
    BY <1>1, TypeFacts DEF InstanceOK
  <1>5. ToSet(drawn) \cap Drawn(i) = {}
    BY <1>4
  <1>6. ToSet(out[i]) \cap ToSet(drawn) = {} /\ past[i] \cap ToSet(drawn) = {}
    BY <1>5 DEF Drawn
  <1>7. /\ out[i] \o drawn \in Seq(Units) /\ IsInjective(out[i] \o drawn)
        /\ ToSet(out[i] \o drawn) = ToSet(out[i]) \cup ToSet(drawn)
    <2>1. out[i] \in Seq(Units) /\ IsInjective(out[i])
      BY <1>1, <1>2 DEF InstanceOK
    <2>2. QED
      BY <1>6, <2>1, Appended
  <1>8. TypeOK'
    <2>1. /\ rng' \in [Instances -> Generators] /\ want' \in [Instances -> Nat]
          /\ out' \in [Instances -> Seq(Units)]
      BY <1>2, <1>7
    <2>2. QED
      BY <1>1, <2>1 DEF TypeOK
  <1>9. Drawn(i)' = Drawn(i) \cup ToSet(drawn)
    BY <1>3, <1>7 DEF Drawn
  <1>10. InstanceOK(i)'
    <2>1. \A u \in Drawn(i)' : u.seed <= seeds' /\ IsBehind(u, rng'[i])
      BY <1>1, <1>3, <1>4, <1>9 DEF InstanceOK
    <2>2. IsInjective(out'[i]) /\ ToSet(out'[i]) \cap past'[i] = {}
      BY <1>1, <1>3, <1>6, <1>7 DEF InstanceOK
    <2>3. BufferHolds(rng[i])'
      BY <1>3 DEF BufferHolds
    <2>4. QED
      BY <1>1, <1>3, <2>1, <2>2, <2>3 DEF InstanceOK
  <1>11. ASSUME NEW j \in Instances, j # i PROVE InstanceOK(j)'
    <2>1. seeds' \in Nat /\ seeds' >= seeds /\ ((j <= booted') <=> (j <= booted))
      BY <1>1 DEF TypeOK
    <2>2. QED
      BY <1>1, <1>3, <1>11, <2>1, InstanceKept DEF IInv
  <1>12. SeedsApart'
    <2>1. ASSUME NEW s \in Nat, Knows(i, s)' PROVE rng'[i].flagged \/ Knows(i, s)
      <3>1. CASE \E u \in ToSet(drawn) : u.seed = s
        BY <1>3, <2>1, <3>1 DEF Knows
      <3>2. CASE ~\E u \in ToSet(drawn) : u.seed = s
        BY <1>3, <1>7, <2>1, <3>2 DEF Knows
      <3>3. QED
        BY <3>1, <3>2
    <2>2. QED
      BY <1>3, <2>1, ApartWhenOneLearns
  <1>13. QED
    BY <1>8, <1>10, <1>11, <1>12 DEF IInv

(* The steps that change the state of one generator and draw nothing. *)
Restates(i, h, owed) ==
    /\ i <= booted
    /\ BufferHolds(h) /\ h.seed <= seeds' /\ h.fresh <= seeds'
    /\ h.seed # NoSeed /\ h.fresh # h.seed
    /\ rng[i].flagged => h.flagged
    /\ \A u \in Drawn(i) : IsBehind(u, h)
    /\ owed > 0 => construction # "naive" /\ (h.marker \/ h.flagged)
    /\ construction = "naive" => h.pos = Len(h.buffer)
    /\ construction # "wipe" => h.marker
    /\ h.marker => h.flagged \/ h.seed = rng[i].fresh
                    \/ (rng[i].marker /\ h.seed = rng[i].seed)
    /\ h.fresh # NoSeed => h.fresh = rng[i].fresh \/ h.fresh > seeds
    /\ seeds' \in Nat /\ seeds' >= seeds
    /\ rng' = [rng EXCEPT ![i] = h]
    /\ want' = [want EXCEPT ![i] = owed]
    /\ UNCHANGED <<construction, booted, out, past, family>>

LEMMA StateInv ==
    ASSUME IInv, NEW i \in Instances, NEW h \in Generators, NEW owed \in Nat,
           Restates(i, h, owed)
    PROVE  IInv'
  <1> USE DEF Restates
  <1>1. TypeOK /\ InstanceOK(i)
    BY DEF IInv
  <1>2. rng \in [Instances -> Generators] /\ want \in [Instances -> Nat]
    BY <1>1 DEF TypeOK
  <1>3. /\ rng'[i] = h /\ want'[i] = owed
        /\ \A j \in Instances : j # i => rng'[j] = rng[j] /\ want'[j] = want[j]
    BY <1>2
  <1>4. TypeOK'
    <2>1. rng' \in [Instances -> Generators] /\ want' \in [Instances -> Nat]
      BY <1>2
    <2>2. QED
      BY <1>1, <2>1 DEF TypeOK
  <1>5. Drawn(i)' = Drawn(i)
    BY DEF Drawn
  <1>6. InstanceOK(i)'
    <2>1. \A u \in Drawn(i)' : u.seed <= seeds' /\ IsBehind(u, rng'[i])
      <3>1. \A u \in Drawn(i) : u.seed \in Nat /\ seeds \in Nat /\ u.seed <= seeds
        BY <1>1, TypeFacts DEF InstanceOK
      <3>2. QED
        BY <1>3, <1>5, <3>1
    <2>2. BufferHolds(rng[i])'
      BY <1>3 DEF BufferHolds
    <2>3. QED
      BY <1>1, <1>3, <2>1, <2>2 DEF InstanceOK
  <1>7. ASSUME NEW j \in Instances, j # i PROVE InstanceOK(j)'
    BY <1>1, <1>3, <1>7, InstanceKept DEF IInv
  <1>8. SeedsApart'
    <2>1. ASSUME NEW s \in Nat, Knows(i, s)'
          PROVE  rng'[i].flagged \/ Knows(i, s) \/ s > seeds
      <3>1. CASE \E u \in ToSet(out[i]) : u.seed = s
        BY <2>1, <3>1 DEF Knows
      <3>2. CASE h.marker /\ h.seed = s
        BY <1>3, <2>1, <3>2 DEF Knows
      <3>3. CASE h.fresh = s
        BY <1>3, <2>1, <3>3 DEF Knows
      <3>4. QED
        BY <1>3, <2>1, <3>1, <3>2, <3>3 DEF Knows
    <2>2. QED
      BY <1>3, <2>1, ApartWhenOneLearns
  <1>9. QED
    BY <1>4, <1>6, <1>7, <1>8 DEF IInv

(* The steps by which an instance appears, itself or as a copy of another. *)
Appears(c, h, before, kin) ==
    /\ c = booted + 1
    /\ BufferHolds(h) /\ h.seed <= seeds' /\ h.fresh <= seeds'
    /\ h.seed # NoSeed /\ h.fresh # h.seed
    /\ \A u \in before : u.seed <= seeds' /\ IsBehind(u, h)
    /\ construction = "naive" => h.pos = Len(h.buffer)
    /\ construction # "wipe" => h.marker
    /\ \/ \A s \in Nat : ~Knows(c, s)'
       \/ \E i \in Instances :
             /\ c # i /\ kin = family[i] /\ (rng[i].flagged => h.flagged)
             /\ \A s \in Nat : Knows(c, s)' => Knows(i, s)
       \/ kin = family[c] /\ \A s \in Nat : Knows(c, s)' => s > seeds
    /\ seeds' \in Nat /\ seeds' >= seeds /\ booted' = booted + 1
    /\ rng' = [rng EXCEPT ![c] = h]
    /\ past' = [past EXCEPT ![c] = before]
    /\ family' = [family EXCEPT ![c] = kin]
    /\ UNCHANGED <<construction, want, out>>

LEMMA AppearInv ==
    ASSUME IInv, NEW c \in Instances, NEW h \in Generators, NEW before \in SUBSET Units,
           NEW kin \in Nat, Appears(c, h, before, kin)
    PROVE  IInv'
  <1> USE DEF Appears
  <1>1. TypeOK /\ InstanceOK(c) /\ booted \in Nat /\ ~(c <= booted) /\ c <= booted'
    BY DEF IInv, TypeOK
  <1>2. /\ rng \in [Instances -> Generators] /\ past \in [Instances -> SUBSET Units]
        /\ family \in [Instances -> Nat]
    BY <1>1 DEF TypeOK
  <1>3. /\ rng'[c] = h /\ past'[c] = before /\ family'[c] = kin
        /\ \A j \in Instances : j # c =>
              rng'[j] = rng[j] /\ past'[j] = past[j] /\ family'[j] = family[j]
    BY <1>2
  <1>4. TypeOK'
    <2>1. /\ rng' \in [Instances -> Generators] /\ past' \in [Instances -> SUBSET Units]
          /\ family' \in [Instances -> Nat]
      BY <1>2
    <2>2. booted' \in 0 .. MaxInstances
      BY <1>1 DEF TypeOK, Instances
    <2>3. QED
      BY <1>1, <2>1, <2>2 DEF TypeOK
  <1>5. /\ out[c] = <<>> /\ want[c] = 0 /\ ToSet(out[c]) = {} /\ ~rng[c].flagged
    BY <1>1 DEF InstanceOK, ToSet
  <1>6. Drawn(c)' = before
    BY <1>3, <1>5 DEF Drawn
  <1>7. InstanceOK(c)'
    <2>1. BufferHolds(rng[c])'
      BY <1>3 DEF BufferHolds
    <2>2. IsInjective(out'[c]) /\ ToSet(out'[c]) \cap past'[c] = {} /\ ~(want'[c] > 0)
      BY <1>5 DEF IsInjective
    <2>3. \A u \in Drawn(c)' : u.seed <= seeds' /\ IsBehind(u, rng'[c])
      BY <1>3, <1>6
    <2>4. QED
      BY <1>1, <1>3, <2>1, <2>2, <2>3 DEF InstanceOK
  <1>8. ASSUME NEW j \in Instances, j # c PROVE InstanceOK(j)'
    <2>1. (j <= booted') <=> (j <= booted)
      BY <1>1, <1>8 DEF Instances
    <2>2. QED
      BY <1>1, <1>3, <1>8, <2>1, InstanceKept DEF IInv
  <1>9. SeedsApart'
    <2>1. CASE kin = family[c] /\ \A s \in Nat : Knows(c, s)' => s > seeds
      <3>1. family' = family
        BY <1>2, <2>1
      <3>2. QED
        BY <1>3, <1>5, <2>1, <3>1, ApartWhenOneLearns
    <2>2. CASE \A s \in Nat : ~Knows(c, s)'
      BY <1>3, <2>2, ApartWhenOneAppears
    <2>3. CASE \E i \in Instances :
                  /\ c # i /\ kin = family[i] /\ (rng[i].flagged => h.flagged)
                  /\ \A s \in Nat : Knows(c, s)' => Knows(i, s)
      BY <1>3, <2>3, ApartWhenOneAppears
    <2>4. QED
      BY <2>1, <2>2, <2>3
  <1>10. QED
    BY <1>4, <1>7, <1>8, <1>9 DEF IInv

-----------------------------------------------------------------------------
LEMMA BootInv == ASSUME UnitsAssumption, IInv, Boot PROVE IInv'
  <1> DEFINE h == New(seeds + 1, BufferUnits)
  <1>1. TypeOK /\ booted \in Nat /\ seeds \in Nat /\ MaxInstances \in Nat
    BY DEF IInv, TypeOK, UnitsAssumption
  <1>2. /\ booted < MaxInstances /\ booted' = booted + 1 /\ seeds' = seeds + 1
        /\ rng' = [rng EXCEPT ![booted + 1] = h]
        /\ UNCHANGED <<construction, want, out, past, family>>
    BY DEF Boot
  <1>3. PICK c \in Instances : c = booted + 1
    BY <1>1, <1>2 DEF Instances
  <1>4. /\ h \in Generators /\ BufferHolds(h) /\ h.seed = seeds + 1 /\ h.fresh = NoSeed
        /\ h.marker /\ h.pos = Len(h.buffer)
    <2>1. seeds + 1 \in Nat /\ BufferUnits \in Nat /\ BufferUnits >= 2
      BY <1>1 DEF UnitsAssumption
    <2>2. QED
      BY <2>1, NewGenerator
  <1> HIDE DEF h
  <1>5. InstanceOK(c) /\ out[c] = <<>> /\ past[c] = {}
    BY <1>1, <1>3 DEF IInv, InstanceOK
  <1>6. rng'[c] = h
    BY <1>1, <1>2, <1>3 DEF TypeOK
  <1>7. ASSUME NEW s \in Nat, Knows(c, s)' PROVE s > seeds
    <2>1. ToSet(out'[c]) = {}
      BY <1>2, <1>5 DEF ToSet
    <2>2. s = seeds + 1
      BY <1>4, <1>6, <1>7, <2>1 DEF Knows
    <2>3. QED
      BY <1>1, <2>2
  <1>8. /\ past' = [past EXCEPT ![c] = {}] /\ family' = [family EXCEPT ![c] = family[c]]
        /\ family[c] \in Nat
    BY <1>1, <1>2, <1>3, <1>5 DEF TypeOK
  <1>9. /\ h.seed <= seeds' /\ h.fresh <= seeds' /\ h.seed # NoSeed /\ h.fresh # h.seed
        /\ seeds' \in Nat /\ seeds' >= seeds
    BY <1>1, <1>2, <1>4
  <1>10. Appears(c, h, {}, family[c])
    BY <1>2, <1>3, <1>4, <1>7, <1>8, <1>9 DEF Appears
  <1>11. QED
    BY <1>3, <1>4, <1>8, <1>10, AppearInv

LEMMA FillNaiveInv ==
    ASSUME UnitsAssumption, IInv, NEW i \in Instances, NEW n \in Sizes, FillNaive(i, n)
    PROVE  IInv'
  <1> DEFINE g == rng[i]
             h == Rekeyed(g)
             drawn == [u \in 1 .. n |-> Unit(g.seed, g.ratchets, u + 1)]
  <1>1. TypeOK /\ InstanceOK(i) /\ g \in Generators /\ want[i] = 0 /\ i <= booted
        /\ construction = "naive" /\ n \in Nat
    BY DEF IInv, TypeOK, FillNaive, Idle, UnitsAssumption
  <1>2. /\ g.seed \in Nat \ {0} /\ g.ratchets \in Nat /\ g.fresh \in Nat /\ g.fresh # g.seed
        /\ BufferHolds(g) /\ g.pos = Len(g.buffer) /\ g.marker
    BY <1>1 DEF InstanceOK, Generators
  <1> HIDE DEF g
  <1>3. h = [g EXCEPT !.ratchets = g.ratchets + 1]
    BY DEF Rekeyed
  <1> HIDE DEF h
  <1>4. /\ h \in Generators /\ h.ratchets = g.ratchets + 1 /\ h.seed = g.seed
        /\ h.fresh = g.fresh /\ h.marker = g.marker /\ h.flagged = g.flagged
        /\ h.buffer = g.buffer /\ h.pos = g.pos
    <2> DEFINE S == Seq(Units \cup {Erased})
    <2>1. Generators = [seed : Nat, ratchets : Nat, buffer : S, pos : Nat,
                        marker : BOOLEAN, fresh : Nat, flagged : BOOLEAN]
      BY DEF Generators
    <2> DEFINE r == g.ratchets + 1
    <2>2. r \in Nat /\ h = [g EXCEPT !.ratchets = r]
      BY <1>2, <1>3
    <2>3. r = g.ratchets + 1
      OBVIOUS
    <2> HIDE DEF S, r
    <2>4. QED
      BY <1>1, <2>1, <2>2, <2>3
  <1>5. BufferHolds(h)
    BY <1>2, <1>4 DEF BufferHolds, Generators
  <1>6. \A k \in 1 .. n :
           /\ drawn[k] \in Units /\ drawn[k].seed = g.seed
           /\ drawn[k].ratchets = g.ratchets /\ drawn[k].index = k + 1
    BY <1>1, <1>2 DEF Unit, Units
  <1>7. drawn \in Seq(Units) /\ DOMAIN drawn = 1 .. n
    BY <1>1, <1>6
  <1>8. /\ out' = [out EXCEPT ![i] = out[i] \o drawn] /\ rng' = [rng EXCEPT ![i] = h]
        /\ UNCHANGED <<construction, booted, seeds, want, past, family>>
    BY DEF FillNaive, g, h
  <1> HIDE DEF drawn
  <1>9. IsInjective(drawn)
    <2>1. ASSUME NEW a \in 1 .. n, NEW b \in 1 .. n, drawn[a] = drawn[b] PROVE a = b
      <3>1. a + 1 = b + 1
        BY <1>6, <2>1
      <3>2. QED
        BY <3>1
    <2>2. QED
      BY <1>7, <2>1 DEF IsInjective
  <1>10. ASSUME NEW u \in ToSet(drawn)
         PROVE  u.seed = g.seed /\ ~IsBehind(u, g) /\ IsBehind(u, h)
    <2>1. u.seed = g.seed /\ u.ratchets = g.ratchets
      BY <1>6, <1>7 DEF ToSet
    <2>2. QED
      BY <1>2, <1>4, <2>1 DEF IsBehind
  <1>11. \A u \in Units : IsBehind(u, g) => IsBehind(u, h)
    BY <1>2, <1>4 DEF IsBehind, Units
  <1>12. want' = [want EXCEPT ![i] = 0]
    BY <1>1, <1>8 DEF TypeOK
  <1>13. h.pos = Len(h.buffer) /\ ~(0 > 0)
    BY <1>2, <1>4
  <1>14. Draws(i, h, drawn, 0)
    BY <1>1, <1>2, <1>4, <1>5, <1>8, <1>9, <1>10, <1>11, <1>12, <1>13 DEF Draws, g
  <1>15. QED
    BY <1>4, <1>7, <1>14, DrawInv

LEMMA FillInv ==
    ASSUME UnitsAssumption, IInv, NEW i \in Instances, NEW n \in Sizes, Fill(i, n)
    PROVE  IInv'
  <1> DEFINE h == Reseeded(rng[i])
  <1>1. /\ TypeOK /\ InstanceOK(i) /\ rng[i] \in Generators /\ i <= booted
        /\ construction # "naive" /\ n \in Nat /\ seeds \in Nat
        /\ rng[i].seed \in Nat /\ rng[i].fresh \in Nat
    <2>1. TypeOK /\ InstanceOK(i)
      BY DEF IInv
    <2>2. i <= booted /\ construction # "naive" /\ n \in Nat
      <3>1. i \in 1 .. booted /\ construction # "naive"
        BY DEF Fill, Idle
      <3>2. n \in Nat
        BY DEF UnitsAssumption
      <3>3. booted \in Nat
        BY <2>1 DEF TypeOK
      <3>4. QED
        BY <3>1, <3>2, <3>3
    <2>3. QED
      BY <2>1, <2>2, TypeFacts
  <1>2. /\ BufferHolds(rng[i]) /\ rng[i].seed # NoSeed /\ rng[i].fresh # rng[i].seed
        /\ rng[i].seed <= seeds /\ rng[i].fresh <= seeds
        /\ construction # "wipe" => rng[i].marker
    BY <1>1 DEF InstanceOK
  <1>3. /\ rng' = [rng EXCEPT ![i] = h] /\ want' = [want EXCEPT ![i] = n]
        /\ UNCHANGED <<construction, booted, seeds, out, past, family>>
    BY DEF Fill
  <1>4. /\ h \in Generators /\ BufferHolds(h) /\ (h.marker \/ h.flagged)
        /\ rng[i].flagged => h.flagged
        /\ rng[i].marker => h = rng[i]
        /\ \/ h.seed = rng[i].seed /\ h.fresh = rng[i].fresh /\ h.marker = rng[i].marker
           \/ h.seed = rng[i].fresh /\ h.fresh = NoSeed /\ rng[i].fresh # NoSeed
        /\ \A u \in Units : IsBehind(u, rng[i]) => IsBehind(u, h)
    BY <1>1, <1>2, ReseededGenerator
  <1> HIDE DEF h
  <1>5. \A u \in Drawn(i) : IsBehind(u, h)
    BY <1>1, <1>4, TypeFacts DEF InstanceOK
  <1>6. /\ h.seed <= seeds /\ h.fresh <= seeds /\ h.seed # NoSeed /\ h.fresh # h.seed
        /\ h.marker => h.seed = rng[i].fresh \/ (rng[i].marker /\ h.seed = rng[i].seed)
        /\ h.fresh # NoSeed => h.fresh = rng[i].fresh
        /\ construction # "wipe" => h.marker
    BY <1>1, <1>2, <1>4
  <1>7. Restates(i, h, n)
    BY <1>1, <1>3, <1>4, <1>5, <1>6 DEF Restates
  <1>8. QED
    BY <1>1, <1>4, <1>7, StateInv

LEMMA TakeInv ==
    ASSUME IInv, NEW i \in Instances, Take(i)
    PROVE  IInv'
  <1> DEFINE g == Refilled(rng[i])
             take == TakeOf(g, want[i])
             h == Consumed(g, take)
             drawn == SubSeq(g.buffer, g.pos + 1, g.pos + take)
  <1>1. /\ TypeOK /\ InstanceOK(i) /\ rng[i] \in Generators /\ want[i] \in Nat /\ want[i] > 0
        /\ construction # "naive" /\ (rng[i].marker \/ rng[i].flagged)
    BY DEF IInv, TypeOK, InstanceOK, Take
  <1>2. i <= booted
    <2>1. want[i] # 0
      BY <1>1
    <2>2. QED
      BY <1>1, <2>1 DEF InstanceOK
  <1>3. BufferHolds(rng[i]) /\ rng[i].seed # NoSeed /\ rng[i].fresh # rng[i].seed
    BY <1>1, <1>2 DEF InstanceOK
  <1>4. /\ g \in Generators /\ BufferHolds(g) /\ g.pos < Len(g.buffer) /\ g.ratchets >= 1
        /\ g.seed = rng[i].seed /\ g.fresh = rng[i].fresh
        /\ g.marker = rng[i].marker /\ g.flagged = rng[i].flagged
        /\ \A u \in Units : IsBehind(u, rng[i]) => IsBehind(u, g)
    BY <1>1, <1>3, RefilledGenerator
  <1>5. /\ out' = [out EXCEPT ![i] = out[i] \o drawn] /\ rng' = [rng EXCEPT ![i] = h]
        /\ want' = [want EXCEPT ![i] = want[i] - take]
        /\ UNCHANGED <<construction, booted, seeds, past, family>>
    BY DEF Take
  <1> HIDE DEF g
  <1>6. take \in 1 .. Len(g.buffer) - g.pos /\ take <= want[i]
    BY <1>1, <1>4, TakeBounds
  <1> HIDE DEF take
  <1>7. /\ h \in Generators /\ BufferHolds(h)
        /\ h.seed = g.seed /\ h.fresh = g.fresh
        /\ h.marker = g.marker /\ h.flagged = g.flagged
        /\ drawn \in Seq(Units) /\ IsInjective(drawn)
        /\ \A u \in ToSet(drawn) : u.seed = g.seed /\ ~IsBehind(u, g) /\ IsBehind(u, h)
        /\ \A u \in Units : IsBehind(u, g) => IsBehind(u, h)
    <2>1. g.seed # NoSeed /\ g.fresh # g.seed
      BY <1>3, <1>4
    <2>2. QED
      BY <1>4, <1>6, <2>1, ConsumedGenerator
  <1> HIDE DEF h, drawn
  <1>8. want[i] - take \in Nat
    BY <1>1, <1>4, <1>6 DEF BufferHolds, Generators
  <1>9. \A u \in ToSet(drawn) : u \in Units
    BY <1>7 DEF ToSet
  <1>10. Draws(i, h, drawn, want[i] - take)
    BY <1>1, <1>2, <1>4, <1>5, <1>7, <1>9 DEF Draws
  <1>11. QED
    BY <1>7, <1>8, <1>10, DrawInv

(* A copy of an idle instance that keeps its position, its marker wiped or not. *)
LEMMA CopyInv ==
    ASSUME UnitsAssumption, IInv, NEW i \in Instances, NEW h \in Generators, NEW kin \in Nat, Copy(i, h, kin),
           h.buffer = rng[i].buffer, h.pos = rng[i].pos, h.ratchets = rng[i].ratchets,
           h.seed = rng[i].seed, h.flagged = rng[i].flagged,
           \/ h.fresh = rng[i].fresh /\ h.marker = rng[i].marker /\ kin = family[i]
           \/ h.fresh = NoSeed /\ ~h.marker /\ construction = "wipe"
    PROVE  IInv'
  <1>1. /\ TypeOK /\ InstanceOK(i) /\ i <= booted /\ booted \in Nat /\ seeds \in Nat
        /\ booted < MaxInstances /\ booted' = booted + 1 /\ seeds' = seeds
        /\ UNCHANGED <<construction, want, out>>
        /\ rng[i].seed \in Nat /\ rng[i].fresh \in Nat
    <2>1. TypeOK /\ InstanceOK(i)
      BY DEF IInv
    <2>2. QED
      <3>1. /\ booted < MaxInstances /\ booted' = booted + 1 /\ seeds' = seeds
            /\ UNCHANGED <<construction, want, out>> /\ i \in 1 .. booted
        BY DEF Copy, Idle
      <3>2. QED
        BY <2>1, <3>1, TypeFacts
  <1>2. PICK c \in Instances : c = booted + 1
    <2>1. MaxInstances \in Nat
      BY DEF UnitsAssumption
    <2>2. QED
      BY <1>1, <2>1 DEF Instances
  <1>3. /\ rng' = [rng EXCEPT ![c] = h] /\ past' = [past EXCEPT ![c] = Drawn(i)]
        /\ family' = [family EXCEPT ![c] = kin]
    BY <1>2 DEF Copy, Drawn
  <1>4. /\ BufferHolds(rng[i]) /\ rng[i].seed # NoSeed /\ rng[i].fresh # rng[i].seed
        /\ rng[i].seed <= seeds /\ rng[i].fresh <= seeds
        /\ construction # "wipe" => rng[i].marker
        /\ construction = "naive" => rng[i].pos = Len(rng[i].buffer)
        /\ \A u \in Drawn(i) : u.seed <= seeds /\ IsBehind(u, rng[i])
    BY <1>1 DEF InstanceOK
  <1>5. c # i /\ ~(c <= booted)
    BY <1>1, <1>2 DEF Instances
  <1>6. ToSet(out'[c]) = {} /\ rng'[c] = h
    <2>1. out[c] = <<>>
      BY <1>5 DEF IInv, InstanceOK
    <2>2. QED
      BY <1>1, <1>3, <2>1 DEF ToSet, TypeOK
  <1>7. BufferHolds(h)
    BY <1>4 DEF BufferHolds
  <1>8. \A u \in Drawn(i) : u.seed <= seeds' /\ IsBehind(u, h)
    <2>1. \A u \in Drawn(i) : u.seed # NoSeed
      BY <1>1, TypeFacts
    <2>2. QED
      BY <1>1, <1>4, <2>1 DEF IsBehind
  <1>9. \/ \A s \in Nat : ~Knows(c, s)'
        \/ \E j \in Instances :
              /\ c # j /\ kin = family[j] /\ (rng[j].flagged => h.flagged)
              /\ \A s \in Nat : Knows(c, s)' => Knows(j, s)
    <2>1. CASE h.fresh = rng[i].fresh /\ h.marker = rng[i].marker /\ kin = family[i]
      <3>1. \A s \in Nat : Knows(c, s)' => Knows(i, s)
        BY <1>6, <2>1 DEF Knows
      <3>2. QED
        BY <1>5, <2>1, <3>1
    <2>2. CASE h.fresh = NoSeed /\ ~h.marker
      BY <1>6, <2>2 DEF Knows
    <2>3. QED
      BY <2>1, <2>2
  <1>10. /\ h.seed <= seeds' /\ h.fresh <= seeds' /\ h.seed # NoSeed /\ h.fresh # h.seed
         /\ seeds' \in Nat /\ seeds' >= seeds
    BY <1>1, <1>4
  <1>11. /\ construction = "naive" => h.pos = Len(h.buffer)
         /\ construction # "wipe" => h.marker
    BY <1>4
  <1>12. Appears(c, h, Drawn(i), kin)
    BY <1>1, <1>2, <1>3, <1>7, <1>8, <1>9, <1>10, <1>11 DEF Appears
  <1>13. Drawn(i) \in SUBSET Units
    BY <1>1, TypeFacts
  <1>14. QED
    BY <1>12, <1>13, AppearInv

LEMMA SnapshotInv ==
    ASSUME UnitsAssumption, IInv, NEW i \in Instances, Snapshot(i)
    PROVE  IInv'
  <1>1. rng[i] \in Generators /\ family[i] \in Nat /\ Copy(i, rng[i], family[i])
    BY DEF IInv, TypeOK, Snapshot
  <1>2. QED
    BY <1>1, CopyInv

LEMMA ForkInv ==
    ASSUME UnitsAssumption, IInv, NEW i \in Instances, Fork(i)
    PROVE  IInv'
  <1>1. CASE construction # "wipe"
    BY <1>1, SnapshotInv DEF Fork, Snapshot
  <1>2. CASE construction = "wipe"
    <2> DEFINE h == ForkChild(rng[i])
    <2>1. Copy(i, h, booted + 1) /\ booted + 1 \in Nat
      BY <1>2 DEF Fork, IInv, TypeOK
    <2>2. rng[i] \in Generators
      BY DEF IInv, TypeOK
    <2>3. h = [rng[i] EXCEPT !.marker = FALSE, !.fresh = NoSeed]
      BY DEF ForkChild
    <2>4. /\ h \in Generators /\ h.buffer = rng[i].buffer /\ h.pos = rng[i].pos
          /\ h.ratchets = rng[i].ratchets /\ h.seed = rng[i].seed
          /\ h.flagged = rng[i].flagged /\ h.fresh = NoSeed /\ ~h.marker
      <3> DEFINE S == Seq(Units \cup {Erased})
      <3>1. Generators = [seed : Nat, ratchets : Nat, buffer : S, pos : Nat,
                          marker : BOOLEAN, fresh : Nat, flagged : BOOLEAN]
        BY DEF Generators
      <3> HIDE DEF S, h
      <3>2. QED
        BY <2>2, <2>3, <3>1
    <2> HIDE DEF h
    <2>5. QED
      BY <1>2, <2>1, <2>4, CopyInv
  <1>3. QED
    BY <1>1, <1>2

LEMMA OnForkInv ==
    ASSUME IInv, NEW i \in Instances, OnFork(i)
    PROVE  IInv'
  <1>1. /\ TypeOK /\ InstanceOK(i) /\ i <= booted /\ seeds \in Nat /\ seeds' = seeds + 1
        /\ rng[i] \in Generators /\ want[i] = 0
        /\ UNCHANGED <<construction, booted, want, out, past, family>>
    <2>1. TypeOK /\ InstanceOK(i)
      BY DEF IInv
    <2>2. /\ i \in 1 .. booted /\ want[i] = 0 /\ seeds' = seeds + 1
          /\ UNCHANGED <<construction, booted, want, out, past, family>>
      BY DEF OnFork, Idle
    <2>3. QED
      BY <2>1, <2>2, TypeFacts
  <1>2. /\ BufferHolds(rng[i]) /\ rng[i].seed # NoSeed /\ rng[i].fresh # rng[i].seed
        /\ rng[i].seed <= seeds /\ rng[i].fresh <= seeds
        /\ construction # "wipe" => rng[i].marker
        /\ construction = "naive" => rng[i].pos = Len(rng[i].buffer)
        /\ \A u \in Drawn(i) : u.seed <= seeds /\ IsBehind(u, rng[i])
    BY <1>1 DEF InstanceOK
  <1>3. want' = [want EXCEPT ![i] = 0]
    BY <1>1 DEF TypeOK
  <1>4. /\ rng[i].seed \in Nat /\ rng[i].fresh \in Nat /\ seeds' \in Nat /\ seeds' >= seeds
        /\ rng[i].seed <= seeds' /\ rng[i].fresh <= seeds'
    <2>1. rng[i].seed \in Nat /\ rng[i].fresh \in Nat
      BY <1>1, TypeFacts
    <2>2. QED
      BY <1>1, <1>2, <2>1
  <1>5. CASE construction # "wipe"
    <2>1. rng' = [rng EXCEPT ![i] = rng[i]]
      BY <1>1, <1>5 DEF OnFork, TypeOK
    <2>2. Restates(i, rng[i], 0)
      <3>1. rng[i].marker => rng[i].flagged \/ rng[i].seed = rng[i].fresh
                                \/ (rng[i].marker /\ rng[i].seed = rng[i].seed)
        OBVIOUS
      <3>2. \A u \in Drawn(i) : IsBehind(u, rng[i])
        BY <1>2
      <3>3. ~(0 > 0)
        OBVIOUS
      <3>4. QED
        BY <1>1, <1>2, <1>3, <1>4, <1>5, <2>1, <3>1, <3>2, <3>3, Zenon DEF Restates
    <2>3. QED
      BY <1>1, <2>2, StateInv
  <1>6. CASE construction = "wipe"
    <2> DEFINE new == seeds + 1
               h == [rng[i] EXCEPT !.fresh = new]
    <2>1. rng' = [rng EXCEPT ![i] = h]
      BY <1>6 DEF OnFork
    <2>2. new \in Nat /\ new = seeds' /\ new > seeds /\ ~(new <= seeds)
      BY <1>1
    <2> HIDE DEF new
    <2>3. /\ h \in Generators /\ h.buffer = rng[i].buffer /\ h.pos = rng[i].pos
          /\ h.ratchets = rng[i].ratchets /\ h.seed = rng[i].seed
          /\ h.flagged = rng[i].flagged /\ h.fresh = new /\ h.marker = rng[i].marker
      <3> DEFINE S == Seq(Units \cup {Erased})
      <3>1. Generators = [seed : Nat, ratchets : Nat, buffer : S, pos : Nat,
                          marker : BOOLEAN, fresh : Nat, flagged : BOOLEAN]
        BY DEF Generators
      <3> HIDE DEF S
      <3>2. QED
        BY <1>1, <2>2, <3>1
    <2> HIDE DEF h
    <2>4. BufferHolds(h)
      BY <1>2, <2>3 DEF BufferHolds
    <2>5. \A u \in Drawn(i) : IsBehind(u, h)
      BY <1>2, <2>2, <2>3 DEF IsBehind
    <2>6. h.seed <= seeds' /\ h.fresh <= seeds' /\ h.seed # NoSeed /\ h.fresh # h.seed
      BY <1>2, <1>4, <2>2, <2>3
    <2>7. Restates(i, h, 0)
      <3>1. /\ rng[i].flagged => h.flagged
            /\ h.marker => h.flagged \/ h.seed = rng[i].fresh
                             \/ (rng[i].marker /\ h.seed = rng[i].seed)
        BY <2>3, Zenon
      <3>2. h.fresh # NoSeed => h.fresh = rng[i].fresh \/ h.fresh > seeds
        BY <2>2, <2>3
      <3>3. /\ construction = "naive" => h.pos = Len(h.buffer)
            /\ construction # "wipe" => h.marker
        BY <1>6
      <3>4. ~(0 > 0)
        OBVIOUS
      <3>5. QED
        BY <1>1, <1>3, <1>4, <2>1, <2>4, <2>5, <2>6, <3>1, <3>2, <3>3, <3>4, Zenon
           DEF Restates
    <2>8. QED
      BY <2>3, <2>7, StateInv
  <1>7. QED
    BY <1>5, <1>6

(* The invariant holds through every lifecycle of every construction. *)
THEOREM Invariance == Spec => []IInv
  <1>1. ASSUME IInv, [Next]_vars PROVE IInv'
    <2>1. CASE UNCHANGED vars
      <3>1. /\ UNCHANGED <<construction, booted, seeds, rng, want, out, past, family>>
            /\ TypeOK
        BY <1>1, <2>1 DEF vars, IInv
      <3>2. TypeOK'
        BY <3>1 DEF TypeOK
      <3>3. ASSUME NEW i \in Instances PROVE InstanceOK(i)'
        <4>1. seeds' \in Nat /\ seeds' >= seeds
          BY <3>1 DEF TypeOK
        <4>2. QED
          BY <1>1, <3>1, <4>1, InstanceKept DEF IInv
      <3>4. SeedsApart'
        BY <1>1, <3>1 DEF IInv, SeedsApart, Knows
      <3>5. QED
        BY <3>2, <3>3, <3>4 DEF IInv
    <2>2. CASE Boot
      BY <1>1, <2>2, UnitsAssumption, BootInv
    <2>3. ASSUME NEW i \in Instances, NEW n \in Sizes, FillNaive(i, n) \/ Fill(i, n)
          PROVE  IInv'
      BY <1>1, <2>3, UnitsAssumption, FillNaiveInv, FillInv
    <2>4. ASSUME NEW i \in Instances, Take(i) \/ Snapshot(i) \/ Fork(i) \/ OnFork(i)
          PROVE  IInv'
      BY <1>1, <2>4, UnitsAssumption, TakeInv, SnapshotInv, ForkInv, OnForkInv
    <2>5. CASE Spent
      BY <2>1, <2>5 DEF Spent
    <2>6. QED
      BY <1>1, <2>1, <2>2, <2>3, <2>4, <2>5 DEF Next
  <1>2. QED
    BY InitInv, UnitsAssumption, <1>1, PTL DEF Spec

(* Neither its buffer, nor its key, nor entropy it was handed gives away   *)
(* what an instance or its ancestors drew (generator.rs:20).               *)
THEOREM ForwardSecrecy == Spec => []ForwardSecret
  <1>1. ASSUME IInv PROVE ForwardSecret
    <2>1. SUFFICES ASSUME NEW i \in Instances, NEW u \in Drawn(i) PROVE ~Derivable(i, u)
      BY DEF ForwardSecret
    <2>2. /\ BufferHolds(rng[i]) /\ IsBehind(u, rng[i]) /\ u \in Units
          /\ rng[i] \in Generators
      BY <1>1, TypeFacts DEF IInv, InstanceOK
    <2>3. u.ratchets \in Nat /\ rng[i].ratchets \in Nat /\ u.index \in Nat
      BY <2>2 DEF Units, Generators
    <2>4. ASSUME NEW p \in DOMAIN rng[i].buffer PROVE rng[i].buffer[p] # u
      <3>1. p \in 1 .. Len(rng[i].buffer)
        BY <2>2 DEF Generators
      <3>2. CASE p <= rng[i].pos
        BY <2>2, <3>1, <3>2, ErasedIsNoUnit DEF BufferHolds
      <3>3. CASE ~(p <= rng[i].pos)
        <4>1. SUFFICES ASSUME u = Unit(rng[i].seed, rng[i].ratchets - 1, p - 1) PROVE FALSE
          BY <2>2, <3>1, <3>3 DEF BufferHolds
        <4>2. /\ u.seed = rng[i].seed /\ u.ratchets = rng[i].ratchets - 1 /\ u.index = p - 1
          BY <4>1 DEF Unit
        <4>3. rng[i].pos = Len(rng[i].buffer) \/ u.index < rng[i].pos
          BY <2>2, <4>2 DEF IsBehind
        <4>4. rng[i].pos \in 1 .. Len(rng[i].buffer)
          BY <2>2 DEF BufferHolds
        <4>5. QED
          BY <3>1, <3>3, <4>2, <4>3, <4>4
      <3>4. QED
        BY <3>2, <3>3
    <2>5. ~(u.seed = rng[i].seed /\ u.ratchets >= rng[i].ratchets) /\ u.seed # rng[i].fresh
      BY <2>2, <2>3 DEF IsBehind
    <2>6. QED
      BY <2>4, <2>5 DEF Derivable
  <1>2. QED
    BY Invariance, <1>1, PTL

(* No instance draws a unit twice, nor one drawn before it was copied. *)
THEOREM NoRepetition == Spec => []NeverRepeats
  <1>1. IInv => NeverRepeats
    BY DEF IInv, InstanceOK, NeverRepeats
  <1>2. QED
    BY Invariance, <1>1, PTL

(* What becomes a key is never handed out. *)
THEOREM KeysSecrecy == Spec => []KeysStayInside
  <1>1. ASSUME IInv PROVE KeysStayInside
    <2>1. \A u \in Units : u.index # 0
      BY DEF Units
    <2>2. QED
      BY <1>1, <2>1, TypeFacts DEF IInv, KeysStayInside
  <1>2. QED
    BY Invariance, <1>1, PTL

(* Two instances that draw the same unit are copies nobody annotated, or   *)
(* one of them knows that it was forked and got no entropy.                *)
THEOREM KnownCollisions == Spec => []CollisionsAreKnown
  <1>1. ASSUME IInv PROVE CollisionsAreKnown
    <2>1. SUFFICES ASSUME NEW i \in Instances, NEW j \in Instances, family[i] # family[j],
                          NEW u \in ToSet(out[i]) \cap ToSet(out[j])
                   PROVE  rng[i].flagged \/ rng[j].flagged
      BY DEF CollisionsAreKnown
    <2>2. u.seed \in Nat /\ u.seed # NoSeed
      BY <1>1, TypeFacts DEF IInv, Drawn
    <2>3. Knows(i, u.seed) /\ Knows(j, u.seed)
      BY <2>2 DEF Knows
    <2>4. QED
      BY <1>1, <2>1, <2>2, <2>3 DEF IInv, SeedsApart
  <1>2. QED
    BY Invariance, <1>1, PTL

HIDE DEF NoSeed

-----------------------------------------------------------------------------
(* Induction over a set of numbers. *)
LEMMA Induction ==
    ASSUME NEW T, 0 \in T, \A n \in Nat : n \in T => n + 1 \in T
    PROVE  Nat \subseteq T
<1> DEFINE R == {p \in Nat \X Nat : p[1] < p[2]}
           Out == Nat \ T
<1>1. IsWellFoundedOn(R, Nat)
  <2>1. OpToRel(<, Nat) = R
    BY DEF OpToRel
  <2> QED
    BY NatLessThanWellFounded, <2>1
<1>2. SUFFICES ASSUME Out # {} PROVE FALSE
  OBVIOUS
<1>3. PICK n \in Out : \A m \in Out : <<m, n>> \notin R
  <2>1. Out \subseteq Nat
    OBVIOUS
  <2> HIDE DEF R, Out
  <2> QED
    BY <1>1, <1>2, <2>1, WFMin
<1>4. n \in Nat /\ n # 0 /\ n - 1 \in Nat /\ (n - 1) + 1 = n
  OBVIOUS
<1>5. n - 1 \notin T
  BY <1>4
<1>6. <<n - 1, n>> \in R
  BY <1>4
<1> QED
  BY <1>3, <1>4, <1>5, <1>6

(* f is s at 0, and each later entry one step from the one before. *)
Chain(f, s, step, N) == f[0] = s /\ \A n \in 1 .. N : f[n] = step[n][f[n - 1]]

LEMMA ChainExists ==
    ASSUME NEW S, NEW s \in S, NEW step \in [Nat -> [S -> S]]
    PROVE  \A N \in Nat : \E f \in [0 .. N -> S] : Chain(f, s, step, N)
<1> USE DEF Chain
<1> DEFINE Good(f, N) == f \in [0 .. N -> S] /\ Chain(f, s, step, N)
           T == {N \in Nat : \E f : Good(f, N)}
<1>1. 0 \in T
  <2>1. Good([n \in 0 .. 0 |-> s], 0)
    OBVIOUS
  <2> QED
    BY <2>1
<1>2. ASSUME NEW N \in Nat, N \in T
      PROVE  N + 1 \in T
  <2>1. PICK f : Good(f, N)
    BY <1>2
  <2> DEFINE g == [n \in 0 .. N + 1 |-> IF n = N + 1 THEN step[N + 1][f[N]] ELSE f[n]]
  <2>2. f[N] \in S /\ step[N + 1][f[N]] \in S
    BY <2>1
  <2>3. \A n \in 0 .. N : n # N + 1 /\ n \in 0 .. N + 1 /\ f[n] \in S
    BY <2>1
  <2>4. g \in [0 .. N + 1 -> S]
    BY <2>2, <2>3
  <2>5. \A n \in 0 .. N : g[n] = f[n]
    BY <2>3
  <2>6. g[N + 1] = step[N + 1][f[N]]
    OBVIOUS
  <2> HIDE DEF g
  <2>7. ASSUME NEW n \in 1 .. N + 1
        PROVE  g[n] = step[n][g[n - 1]]
    <3>1. CASE n = N + 1
      <4>1. n - 1 = N /\ N \in 0 .. N
        BY <3>1
      <4> QED
        BY <2>5, <2>6, <3>1, <4>1
    <3>2. CASE n # N + 1
      <4>1. n \in 1 .. N /\ n \in 0 .. N /\ n - 1 \in 0 .. N
        BY <3>2
      <4> QED
        BY <2>1, <2>5, <4>1
    <3> QED
      BY <3>1, <3>2
  <2>8. g[0] = s
    BY <2>1, <2>5
  <2>9. Good(g, N + 1)
    BY <2>4, <2>7, <2>8
  <2> QED
    BY <2>9
<1>3. Nat \subseteq T
  <2> HIDE DEF T
  <2> QED
    BY <1>1, <1>2, Induction
<1> QED
  BY <1>3

-----------------------------------------------------------------------------
(* Words of any width: what can be read off a sum or a rotated word.       *)
LEMMA XorCancels ==
    ASSUME NEW x, NEW y, NEW z, Xor(x, z) = Xor(y, z) \/ Xor(z, x) = Xor(z, y)
    PROVE  x = y
<1>1. \A u, v, i : i \in Xor(u, v) <=> ~ (i \in u <=> i \in v)
  BY DEF Xor
<1>2. ASSUME NEW i PROVE i \in x <=> i \in y
  BY <1>1
<1> QED
  BY <1>2

LEMMA XorWord ==
    ASSUME NEW w, NEW x \in Word(w), NEW y \in Word(w)
    PROVE  Xor(x, y) \in Word(w)
  BY DEF Xor, Word

LEMMA InCarry ==
    ASSUME NEW w, NEW x, NEW y, NEW i \in Positions(w)
    PROVE  i \in Carry(x, y, w) <=> CarriesInto(x, y, i)
  BY DEF Carry, CarriesInto

LEMMA InAdd ==
    ASSUME NEW w, NEW x, NEW y, NEW i \in Positions(w)
    PROVE  i \in Add(x, y, w) <=> ((i \in x <=> i \in y) <=> CarriesInto(x, y, i))
<1>1. \A u, v : i \in Xor(u, v) <=> ~ (i \in u <=> i \in v)
  BY DEF Xor
<1>2. i \in Add(x, y, w) <=> ~ (i \in Xor(x, y) <=> i \in Carry(x, y, w))
  BY <1>1 DEF Add
<1> QED
  BY <1>1, <1>2, InCarry

LEMMA AddWord ==
    ASSUME NEW w, NEW x \in Word(w), NEW y \in Word(w)
    PROVE  Add(x, y, w) \in Word(w)
<1>1. Carry(x, y, w) \in Word(w)
  BY DEF Carry, Word
<1> QED
  BY <1>1, XorWord DEF Add

LEMMA AddCommutes ==
    ASSUME NEW w, NEW x, NEW y
    PROVE  Add(x, y, w) = Add(y, x, w)
<1>1. x \cap y = y \cap x /\ x \cup y = y \cup x /\ Xor(x, y) = Xor(y, x)
  BY DEF Xor
<1>2. \A i : CarriesInto(x, y, i) <=> CarriesInto(y, x, i)
  BY <1>1 DEF CarriesInto
<1>3. Carry(x, y, w) = Carry(y, x, w)
  BY <1>1, <1>2 DEF Carry
<1> QED
  BY <1>1, <1>3 DEF Add

(* The carry into a position depends on the positions below it, so that    *)
(* the least position where two words differ is one where their sums do.   *)
LEMMA AddCancels ==
    ASSUME NEW w \in Nat, NEW x \in Word(w), NEW u \in Word(w), NEW y \in Word(w),
           Add(x, y, w) = Add(u, y, w)
    PROVE  x = u
<1> DEFINE T == {n \in Nat : \A i \in 0 .. n - 1 : i \in x <=> i \in u}
<1>1. 0 \in T
  OBVIOUS
<1>2. ASSUME NEW n \in Nat, n \in T
      PROVE  n + 1 \in T
  <2>1. \A i \in Int : 0 <= i /\ i < n => (i \in x <=> i \in u)
    BY <1>2
  <2>2. n \in x <=> n \in u
    <3>1. CASE n \notin Positions(w)
      BY <3>1 DEF Word
    <3>2. CASE n \in Positions(w)
      <4>1. \A j \in x \cup u \cup y : j \in Int /\ 0 <= j
        BY DEF Word, Positions
      <4>2. CarriesInto(x, y, n) <=> CarriesInto(u, y, n)
        <5>1. \A j \in x \cap y : j < n =>
                 /\ j \in u \cap y
                 /\ \A k \in j + 1 .. n - 1 : k \in x \cup y <=> k \in u \cup y
          BY <2>1, <4>1
        <5>2. \A j \in u \cap y : j < n =>
                 /\ j \in x \cap y
                 /\ \A k \in j + 1 .. n - 1 : k \in x \cup y <=> k \in u \cup y
          BY <2>1, <4>1
        <5> QED
          BY <5>1, <5>2 DEF CarriesInto
      <4> QED
        BY <3>2, <4>2, InAdd
    <3> QED
      BY <3>1, <3>2
  <2>3. \A i \in 0 .. (n + 1) - 1 : (i \in Int /\ 0 <= i /\ i < n) \/ i = n
    OBVIOUS
  <2> QED
    BY <2>1, <2>2, <2>3
<1>3. Nat \subseteq T
  <2> HIDE DEF T
  <2> QED
    BY <1>1, <1>2, Induction
<1>4. \A i \in Positions(w) : i \in Nat /\ i + 1 \in Nat /\ i \in 0 .. (i + 1) - 1
  BY DEF Positions
<1>5. \A i \in Positions(w) : i \in x <=> i \in u
  BY <1>3, <1>4
<1> QED
  BY <1>5 DEF Word

LEMMA TurnCancels ==
    ASSUME NEW w \in Nat \ {0}, NEW r \in Nat, NEW i \in Positions(w), NEW j \in Positions(w),
           (i + r) % w = (j + r) % w
    PROVE  i = j
<1>1. \A a \in Nat : a % w \in 0 .. w - 1 /\ a \div w \in Nat /\ a = (w * (a \div w)) + (a % w)
  OBVIOUS
<1> DEFINE a == i + r
           b == j + r
           k == (a \div w) - (b \div w)
<1>2. i \in 0 .. w - 1 /\ j \in 0 .. w - 1
  BY DEF Positions
<1>3. a \in Nat /\ b \in Nat
  BY <1>2
<1>4. k \in Int /\ a - b = w * k
  BY <1>1, <1>3
<1>5. - w < a - b /\ a - b < w
  BY <1>2
<1>6. \A q \in Int : - w < w * q /\ w * q < w => q = 0
  OBVIOUS
<1>7. k = 0
  <2> HIDE DEF k, a, b
  <2> QED
    BY <1>3, <1>4, <1>5, <1>6
<1> QED
  BY <1>2, <1>4, <1>7

LEMMA RotlWord ==
    ASSUME NEW w \in Nat \ {0}, NEW r \in Nat, NEW x \in Word(w)
    PROVE  Rotl(x, r, w) \in Word(w)
<1>1. \A i \in x : i \in Nat
  BY DEF Word, Positions
<1>2. \A a \in Nat : a % w \in 0 .. w - 1
  OBVIOUS
<1> QED
  BY <1>1, <1>2 DEF Rotl, Word, Positions

LEMMA RotlCancels ==
    ASSUME NEW w \in Nat \ {0}, NEW r \in Nat, NEW x \in Word(w), NEW y \in Word(w),
           Rotl(x, r, w) = Rotl(y, r, w)
    PROVE  x = y
<1>1. x \subseteq Positions(w) /\ y \subseteq Positions(w)
  BY DEF Word
<1>2. ASSUME NEW i \in x PROVE i \in y
  <2>1. (i + r) % w \in Rotl(y, r, w)
    BY DEF Rotl
  <2>2. PICK j \in y : (j + r) % w = (i + r) % w
    BY <2>1 DEF Rotl
  <2> QED
    BY <1>1, <2>2, TurnCancels
<1>3. ASSUME NEW i \in y PROVE i \in x
  <2>1. (i + r) % w \in Rotl(x, r, w)
    BY DEF Rotl
  <2>2. PICK j \in x : (j + r) % w = (i + r) % w
    BY <2>1 DEF Rotl
  <2> QED
    BY <1>1, <2>2, TurnCancels
<1> QED
  BY <1>2, <1>3

(* Turning right is turning left by the rest. *)
LEMMA RotrIsRotl ==
    ASSUME NEW w \in Nat \ {0}, NEW r \in Nat, NEW x \in Word(w)
    PROVE  w - (r % w) \in Nat /\ Rotr(x, r, w) = Rotl(x, w - (r % w), w)
<1>1. \A i \in x : i \in Int
  BY DEF Word, Positions
<1>2. r % w \in 0 .. w - 1
  OBVIOUS
<1>3. \A i \in x : i + w - (r % w) = i + (w - (r % w))
  BY <1>1, <1>2
<1> QED
  BY <1>2, <1>3 DEF Rotr, Rotl
-----------------------------------------------------------------------------
(* The operations on lanes: each is taken back by what it left alone.      *)
Fits == WordSize \in Nat \ {0}
States(L) == [L -> Word(WordSize)]

LEMMA AddToPermutes ==
    ASSUME Fits, NEW L, NEW a \in L, NEW b \in L, a # b, NEW v \in States(L), NEW u \in States(L)
    PROVE  /\ AddTo(v, a, b) \in States(L)
           /\ AddTo(v, a, b) = AddTo(u, a, b) => v = u
<1>1. /\ v[a] \in Word(WordSize) /\ v[b] \in Word(WordSize)
      /\ u[a] \in Word(WordSize) /\ u[b] \in Word(WordSize)
  BY DEF States
<1>2. Plus(v[a], v[b]) \in Word(WordSize)
  BY <1>1, AddWord DEF Plus
<1>3. AddTo(v, a, b) \in States(L)
  BY <1>2 DEF AddTo, States
<1>4. ASSUME AddTo(v, a, b) = AddTo(u, a, b) PROVE v = u
  <2>1. \A i \in L : i # a => AddTo(v, a, b)[i] = v[i] /\ AddTo(u, a, b)[i] = u[i]
    BY DEF AddTo, States
  <2>2. AddTo(v, a, b)[a] = Plus(v[a], v[b]) /\ AddTo(u, a, b)[a] = Plus(u[a], u[b])
    BY DEF AddTo, States
  <2>3. v[b] = u[b]
    BY <1>4, <2>1
  <2>4. Add(v[a], v[b], WordSize) = Add(u[a], v[b], WordSize)
    BY <1>4, <2>2, <2>3 DEF Plus
  <2>5. v[a] = u[a]
    BY <1>1, <2>4, AddCancels DEF Fits
  <2>6. \A i \in L : v[i] = u[i]
    BY <1>4, <2>1, <2>5
  <2> QED
    BY <2>6 DEF States
<1> QED
  BY <1>3, <1>4

LEMMA XorRotPermutes ==
    ASSUME Fits, NEW L, NEW d \in L, NEW a \in L, d # a, NEW r \in Nat,
           NEW v \in States(L), NEW u \in States(L)
    PROVE  /\ XorRot(v, d, a, r) \in States(L)
           /\ XorRot(v, d, a, r) = XorRot(u, d, a, r) => v = u
<1> DEFINE Turned(s) == Rotl(Xor(s[d], s[a]), r, WordSize)
<1>1. /\ v[a] \in Word(WordSize) /\ v[d] \in Word(WordSize)
      /\ u[a] \in Word(WordSize) /\ u[d] \in Word(WordSize)
  BY DEF States
<1>2. Xor(v[d], v[a]) \in Word(WordSize) /\ Xor(u[d], u[a]) \in Word(WordSize)
  BY <1>1, XorWord
<1>3. Turned(v) \in Word(WordSize)
  BY <1>2, RotlWord DEF Fits
<1>4. XorRot(v, d, a, r) \in States(L)
  BY <1>3 DEF XorRot, States
<1>5. ASSUME XorRot(v, d, a, r) = XorRot(u, d, a, r) PROVE v = u
  <2>1. \A i \in L : i # d => XorRot(v, d, a, r)[i] = v[i] /\ XorRot(u, d, a, r)[i] = u[i]
    BY DEF XorRot, States
  <2>2. XorRot(v, d, a, r)[d] = Turned(v) /\ XorRot(u, d, a, r)[d] = Turned(u)
    BY DEF XorRot, States
  <2>3. v[a] = u[a]
    BY <1>5, <2>1
  <2>4. Xor(v[d], v[a]) = Xor(u[d], u[a])
    BY <1>2, <1>5, <2>2, RotlCancels DEF Fits
  <2>5. v[d] = u[d]
    BY <2>3, <2>4, XorCancels
  <2>6. \A i \in L : v[i] = u[i]
    BY <1>5, <2>1, <2>5
  <2> QED
    BY <2>6 DEF States
<1> QED
  BY <1>4, <1>5

LEMMA XorSumPermutes ==
    ASSUME Fits, NEW L, NEW t \in L, NEW a \in L, NEW b \in L, t \notin {a, b}, NEW r \in Nat,
           NEW v \in States(L), NEW u \in States(L)
    PROVE  /\ XorSum(v, t, a, b, r) \in States(L)
           /\ XorSum(v, t, a, b, r) = XorSum(u, t, a, b, r) => v = u
<1> DEFINE Mask(s) == Rotl(Plus(s[a], s[b]), r, WordSize)
<1>1. /\ v[a] \in Word(WordSize) /\ v[b] \in Word(WordSize) /\ v[t] \in Word(WordSize)
  BY DEF States
<1>2. Plus(v[a], v[b]) \in Word(WordSize)
  BY <1>1, AddWord DEF Plus
<1>3. Mask(v) \in Word(WordSize)
  BY <1>2, RotlWord DEF Fits
<1>4. XorSum(v, t, a, b, r) \in States(L)
  <2>1. Xor(v[t], Mask(v)) \in Word(WordSize)
    BY <1>1, <1>3, XorWord
  <2> QED
    BY <2>1 DEF XorSum, States
<1>5. ASSUME XorSum(v, t, a, b, r) = XorSum(u, t, a, b, r) PROVE v = u
  <2>1. \A i \in L : i # t => XorSum(v, t, a, b, r)[i] = v[i] /\ XorSum(u, t, a, b, r)[i] = u[i]
    BY DEF XorSum, States
  <2>2. XorSum(v, t, a, b, r)[t] = Xor(v[t], Mask(v)) /\ XorSum(u, t, a, b, r)[t] = Xor(u[t], Mask(u))
    BY DEF XorSum, States
  <2>3. v[a] = u[a] /\ v[b] = u[b]
    BY <1>5, <2>1
  <2>4. Xor(v[t], Mask(v)) = Xor(u[t], Mask(v))
    BY <1>5, <2>2, <2>3
  <2>5. v[t] = u[t]
    <3> HIDE DEF Mask
    <3> QED
      BY <2>4, XorCancels
  <2>6. \A i \in L : v[i] = u[i]
    BY <1>5, <2>1, <2>5
  <2> QED
    BY <2>6 DEF States
<1> QED
  BY <1>4, <1>5

-----------------------------------------------------------------------------
(* Steps that permute, one after the other, permute. *)
LEMMA ChainCancels ==
    ASSUME NEW S, NEW step \in [Nat -> [S -> S]],
           \A n \in Nat : \A x, y \in S : step[n][x] = step[n][y] => x = y,
           NEW N \in Nat, NEW s \in S, NEW t \in S,
           NEW f \in [0 .. N -> S], NEW g \in [0 .. N -> S],
           Chain(f, s, step, N), Chain(g, t, step, N), f[N] = g[N]
    PROVE  s = t
<1> DEFINE T == {n \in Nat : n <= N => f[N - n] = g[N - n]}
<1>1. 0 \in T
  OBVIOUS
<1>2. ASSUME NEW n \in Nat, n \in T
      PROVE  n + 1 \in T
  <2>1. SUFFICES ASSUME n + 1 <= N PROVE f[N - (n + 1)] = g[N - (n + 1)]
    OBVIOUS
  <2> DEFINE k == N - n
  <2>2. k \in 1 .. N /\ k \in Nat /\ k - 1 \in 0 .. N /\ N - (n + 1) = k - 1
    BY <2>1
  <2>3. f[k] = g[k]
    BY <1>2, <2>1
  <2> HIDE DEF k
  <2>4. f[k] = step[k][f[k - 1]] /\ g[k] = step[k][g[k - 1]]
    BY <2>2 DEF Chain
  <2>5. f[k - 1] \in S /\ g[k - 1] \in S
    BY <2>2
  <2>6. f[k - 1] = g[k - 1]
    BY <2>2, <2>3, <2>4, <2>5, ZenonT(40)
  <2> QED
    BY <2>2, <2>6
<1>3. Nat \subseteq T
  <2> HIDE DEF T
  <2> QED
    BY <1>1, <1>2, Induction
<1>4. f[0] = g[0]
  <2>1. N \in T
    <3> HIDE DEF T
    <3> QED
      BY <1>3
  <2>2. N - N = 0 /\ N <= N
    OBVIOUS
  <2> QED
    BY <2>1, <2>2
<1> QED
  BY <1>4 DEF Chain


(* What satisfies the equations of a fold stays in S and is a chain. *)
Folding(g, S, s, step, N) ==
    /\ g = [n \in 0 .. N |-> g[n]]
    /\ g[0] = s
    /\ \A n \in 1 .. N : g[n - 1] \in S => g[n] = step[n][g[n - 1]]

LEMMA FoldsAreChains ==
    ASSUME NEW S, NEW s \in S, NEW step \in [Nat -> [S -> S]], NEW N \in Nat,
           NEW g, Folding(g, S, s, step, N)
    PROVE  g \in [0 .. N -> S] /\ Chain(g, s, step, N)
<1> USE DEF Folding
<1> DEFINE T == {n \in Nat : n <= N => g[n] \in S}
<1>1. 0 \in T
  OBVIOUS
<1>2. ASSUME NEW n \in Nat, n \in T
      PROVE  n + 1 \in T
  <2>1. SUFFICES ASSUME n + 1 <= N PROVE g[n + 1] \in S
    OBVIOUS
  <2>2. n + 1 \in 1 .. N /\ n + 1 \in Nat /\ (n + 1) - 1 = n /\ g[n] \in S
    BY <1>2, <2>1
  <2>3. g[n + 1] = step[n + 1][g[n]]
    BY <2>2
  <2> QED
    BY <2>2, <2>3
<1>3. Nat \subseteq T
  <2> HIDE DEF T
  <2> QED
    BY <1>1, <1>2, Induction
<1>4. \A n \in 0 .. N : g[n] \in S
  BY <1>3
<1>5. \A n \in 1 .. N : n - 1 \in 0 .. N
  OBVIOUS
<1>6. g \in [0 .. N -> S]
  BY <1>4
<1> QED
  BY <1>4, <1>5, <1>6 DEF Chain

(* The permutations of S among its maps: S is finite wherever they are used. *)
Permuting(S) == {h \in [S -> S] : \A x, y \in S : h[x] = h[y] => x = y}

(* The places of one group: four lanes, all different. *)
IsGroup(g, L) == g \in [1 .. 4 -> L] /\ \A i, j \in 1 .. 4 : g[i] = g[j] => i = j

IsStep(s) ==
    /\ s.add_to # s.add_from
    /\ s.xor_into # s.add_to
    /\ s.rot \in Nat
    /\ {s.add_to, s.add_from, s.xor_into} \subseteq 1 .. 4

IsProgram(qr) == qr \in Seq(Range(qr)) /\ \A n \in 1 .. Len(qr) : IsStep(qr[n])

LEMMA StepPermutes ==
    ASSUME Fits, NEW L, NEW g, IsGroup(g, L), NEW s, IsStep(s)
    PROVE  [v \in States(L) |-> ApplyStep(v, g, s)] \in Permuting(States(L))
<1> DEFINE a == g[s.add_to]
           b == g[s.add_from]
           d == g[s.xor_into]
           h == [v \in States(L) |-> ApplyStep(v, g, s)]
<1>1. a \in L /\ b \in L /\ d \in L /\ a # b /\ d # a /\ s.rot \in Nat
  BY DEF IsGroup, IsStep
<1>2. \A v : ApplyStep(v, g, s) = XorRot(AddTo(v, a, b), d, a, s.rot)
  BY DEF ApplyStep
<1> HIDE DEF a, b, d
<1>3. \A v \in States(L) : AddTo(v, a, b) \in States(L)
  BY <1>1, AddToPermutes
<1>4. \A v \in States(L) : ApplyStep(v, g, s) \in States(L)
  BY <1>1, <1>2, <1>3, XorRotPermutes
<1>5. ASSUME NEW v \in States(L), NEW u \in States(L), ApplyStep(v, g, s) = ApplyStep(u, g, s)
      PROVE  v = u
  <2>1. AddTo(v, a, b) = AddTo(u, a, b)
    BY <1>1, <1>2, <1>3, <1>5, XorRotPermutes
  <2> QED
    BY <1>1, <2>1, AddToPermutes
<1>6. h \in [States(L) -> States(L)]
  BY <1>4
<1>7. \A v, u \in States(L) : h[v] = h[u] => v = u
  BY <1>5
<1> QED
  BY <1>6, <1>7 DEF Permuting

(* A fold of permutations is one: step[n] is what its n-th entry does. *)
LEMMA ChainsPermute ==
    ASSUME NEW S, NEW step \in [Nat -> Permuting(S)], NEW N \in Nat, NEW h,
           h = [s \in S |-> h[s]],
           \A s \in S : \E f \in [0 .. N -> S] : Chain(f, s, step, N) /\ h[s] = f[N]
    PROVE  h \in Permuting(S)
<1>1. step \in [Nat -> [S -> S]]
  BY DEF Permuting
<1>2. \A n \in Nat : \A x, y \in S : step[n][x] = step[n][y] => x = y
  BY DEF Permuting
<1>3. N \in 0 .. N
  OBVIOUS
<1>4. h \in [S -> S]
  BY <1>3
<1>5. ASSUME NEW s \in S, NEW t \in S, h[s] = h[t]
      PROVE  s = t
  <2>1. PICK f \in [0 .. N -> S] : Chain(f, s, step, N) /\ h[s] = f[N]
    OBVIOUS
  <2>2. PICK g \in [0 .. N -> S] : Chain(g, t, step, N) /\ h[t] = g[N]
    OBVIOUS
  <2> QED
    BY <1>1, <1>2, <1>5, <2>1, <2>2, ChainCancels
<1> QED
  BY <1>4, <1>5 DEF Permuting

-----------------------------------------------------------------------------
(* What the steps of a quarter round do, one by one. *)
StepMaps(L, g, qr) ==
    [n \in Nat |-> [v \in States(L) |-> IF n \in 1 .. Len(qr) THEN ApplyStep(v, g, qr[n]) ELSE v]]

LEMMA Identity == ASSUME NEW S PROVE [v \in S |-> v] \in Permuting(S)
  BY DEF Permuting

LEMMA StepMapsPermute ==
    ASSUME Fits, NEW L, NEW g, IsGroup(g, L), NEW qr, IsProgram(qr)
    PROVE  StepMaps(L, g, qr) \in [Nat -> Permuting(States(L))]
<1>1. ASSUME NEW n \in Nat
      PROVE  [v \in States(L) |-> IF n \in 1 .. Len(qr) THEN ApplyStep(v, g, qr[n]) ELSE v]
                \in Permuting(States(L))
  <2>1. CASE n \in 1 .. Len(qr)
    <3>1. IsStep(qr[n])
      BY <2>1 DEF IsProgram
    <3> QED
      BY <2>1, <3>1, StepPermutes
  <2>2. CASE n \notin 1 .. Len(qr)
    BY <2>2, Identity
  <2> QED
    BY <2>1, <2>2
<1> QED
  BY <1>1 DEF StepMaps

LEMMA StepsAreAChain ==
    ASSUME Fits, NEW L, NEW g, IsGroup(g, L), NEW qr, IsProgram(qr),
           NEW w \in States(L)
    PROVE  \E f \in [0 .. Len(qr) -> States(L)] :
              Chain(f, w, StepMaps(L, g, qr), Len(qr)) /\ ApplySteps(w, g, qr) = f[Len(qr)]
<1> DEFINE S == States(L)
           step == StepMaps(L, g, qr)
           N == Len(qr)
           IsFold(f) == f = [n \in 0 .. N |-> IF n = 0 THEN w ELSE ApplyStep(f[n - 1], g, qr[n])]
           f == CHOOSE f : IsFold(f)
<1>1. N \in Nat
  BY DEF IsProgram
<1>2. step \in [Nat -> [S -> S]]
  BY StepMapsPermute DEF Permuting
<1>3. \A n \in 1 .. N : \A v \in S : step[n][v] = ApplyStep(v, g, qr[n])
  BY DEF StepMaps
<1>4. ApplySteps(w, g, qr) = f[N]
  BY DEF ApplySteps, InTurn
<1> HIDE DEF S, step, N
<1>5. w \in S
  BY DEF S
<1>6. PICK e \in [0 .. N -> S] : Chain(e, w, step, N)
  BY <1>1, <1>2, <1>5, ChainExists
<1>7. \A n \in 1 .. N : n - 1 \in 0 .. N
  BY <1>1
<1>8. IsFold(e)
  <2>1. \A n \in 0 .. N : n = 0 \/ n \in 1 .. N
    BY <1>1
  <2>2. \A n \in 1 .. N : e[n] = ApplyStep(e[n - 1], g, qr[n])
    BY <1>3, <1>6, <1>7 DEF Chain
  <2>3. \A n \in 0 .. N : e[n] = IF n = 0 THEN w ELSE ApplyStep(e[n - 1], g, qr[n])
    BY <1>6, <2>1, <2>2 DEF Chain
  <2> QED
    BY <2>3
<1>9. IsFold(f)
  BY <1>8
<1> HIDE DEF f
<1>10. f = [n \in 0 .. N |-> f[n]] /\ f[0] = w
  BY <1>1, <1>9
<1>11. \A n \in 1 .. N : f[n - 1] \in S => f[n] = step[n][f[n - 1]]
  <2>1. \A n \in 1 .. N : n \in 0 .. N /\ n # 0
    OBVIOUS
  <2> QED
    BY <1>3, <1>9, <2>1
<1>12. Folding(f, S, w, step, N)
  BY <1>10, <1>11 DEF Folding
<1>13. f \in [0 .. N -> S] /\ Chain(f, w, step, N)
  <2> HIDE DEF IsFold
  <2> QED
    BY <1>1, <1>2, <1>5, <1>12, FoldsAreChains
<1> QED
  BY <1>4, <1>13 DEF S, step, N

LEMMA ProgramsPermute ==
    ASSUME Fits, NEW L, NEW g, IsGroup(g, L), NEW qr, IsProgram(qr)
    PROVE  [w \in States(L) |-> ApplySteps(w, g, qr)] \in Permuting(States(L))
<1> DEFINE h == [w \in States(L) |-> ApplySteps(w, g, qr)]
           S == States(L)
           step == StepMaps(L, g, qr)
           N == Len(qr)
<1>1. step \in [Nat -> Permuting(S)] /\ N \in Nat
  BY StepMapsPermute DEF IsProgram
<1>2. h = [s \in S |-> h[s]]
  OBVIOUS
<1>3. \A w \in S : \E f \in [0 .. N -> S] : Chain(f, w, step, N) /\ h[w] = f[N]
  BY StepsAreAChain
<1> HIDE DEF h, S, step, N
<1>4. h \in Permuting(S)
  BY <1>1, <1>2, <1>3, ChainsPermute
<1> QED
  BY <1>4 DEF h, S

-----------------------------------------------------------------------------
(* Rounds: a group after another. *)
LEMMA FourInSeq ==
    ASSUME NEW X, NEW p \in [1 .. 4 -> X]
    PROVE  p \in Seq(X) /\ Len(p) = 4 /\ DOMAIN p = 1 .. 4
<1>1. p \in Seq(X)
  BY SeqDef
<1>2. DOMAIN p = 1 .. 4 /\ DOMAIN p = 1 .. Len(p) /\ Len(p) \in Nat
  BY <1>1, LenProperties
<1>3. Len(p) = 4
  BY <1>2
<1> QED
  BY <1>1, <1>2, <1>3

LEMMA PartsAreGroups ==
    ASSUME NEW p \in Partitions, IsPartition(p), NEW k \in 1 .. 4
    PROVE  IsGroup(p[k], Lanes)
<1> DEFINE places == UNION {{<<g, i>> : i \in DOMAIN p[g]} : g \in DOMAIN p}
<1>1. p[k] \in [1 .. 4 -> Lanes] /\ DOMAIN p = 1 .. 4 /\ DOMAIN p[k] = 1 .. 4
  BY DEF Partitions
<1>2. \A i \in 1 .. 4 : <<k, i>> \in places
  BY <1>1
<1>3. \A at, other \in places : p[at[1]][at[2]] = p[other[1]][other[2]] => at = other
  BY DEF IsPartition
<1> HIDE DEF places
<1>4. ASSUME NEW i \in 1 .. 4, NEW j \in 1 .. 4, p[k][i] = p[k][j]
      PROVE  i = j
  <2> DEFINE at == <<k, i>>
             other == <<k, j>>
  <2>1. at \in places /\ other \in places /\ at[1] = k /\ at[2] = i /\ other[1] = k /\ other[2] = j
    BY <1>2
  <2> HIDE DEF at, other
  <2>2. at = other
    BY <1>3, <1>4, <2>1
  <2> QED
    BY <2>1, <2>2
<1> QED
  BY <1>1, <1>4 DEF IsGroup

GroupMaps(p, qr) ==
    [n \in Nat |-> [v \in States(Lanes) |-> IF n \in 1 .. 4 THEN ApplySteps(v, p[n], qr) ELSE v]]

LEMMA GroupMapsPermute ==
    ASSUME Fits, NEW p \in Partitions, IsPartition(p), NEW qr, IsProgram(qr)
    PROVE  GroupMaps(p, qr) \in [Nat -> Permuting(States(Lanes))]
<1>1. ASSUME NEW n \in Nat
      PROVE  [v \in States(Lanes) |-> IF n \in 1 .. 4 THEN ApplySteps(v, p[n], qr) ELSE v]
                \in Permuting(States(Lanes))
  <2>1. CASE n \in 1 .. 4
    BY <2>1, PartsAreGroups, ProgramsPermute
  <2>2. CASE n \notin 1 .. 4
    BY <2>2, Identity
  <2> QED
    BY <2>1, <2>2
<1> QED
  BY <1>1 DEF GroupMaps

LEMMA GroupsAreAChain ==
    ASSUME Fits, NEW t \in Topologies, NEW qr, IsProgram(qr),
           NEW round \in Nat, NEW w \in States(Lanes)
    PROVE  \E f \in [0 .. 4 -> States(Lanes)] :
              /\ Chain(f, w, GroupMaps(t[(round % 2) + 1], qr), 4)
              /\ TopologyRound(w, t, qr, round) = f[4]
<1> DEFINE S == States(Lanes)
           p == t[(round % 2) + 1]
           step == GroupMaps(p, qr)
           IsFold(f) == f = [n \in 0 .. 4 |-> IF n = 0 THEN w ELSE ApplySteps(f[n - 1], p[n], qr)]
           f == CHOOSE f : IsFold(f)
<1>1. p \in Partitions /\ IsPartition(p)
  <2>1. (round % 2) + 1 \in 1 .. 2 /\ DOMAIN t = 1 .. 2
    BY DEF Topologies
  <2>2. p \in ToSet(t)
    BY <2>1 DEF ToSet
  <2> QED
    BY <2>1, <2>2 DEF Topologies, IsBalanced
<1>2. step \in [Nat -> [S -> S]]
  <2> HIDE DEF p
  <2> QED
    BY <1>1, GroupMapsPermute DEF Permuting
<1>3. \A n \in 1 .. 4 : \A v \in S : step[n][v] = ApplySteps(v, p[n], qr)
  BY DEF GroupMaps
<1>4. TopologyRound(w, t, qr, round) = f[4]
  <2>1. Len(p) = 4
    <3> HIDE DEF p
    <3> QED
      BY <1>1, FourInSeq DEF Partitions
  <2> QED
    BY <2>1 DEF TopologyRound, InTurn
<1> HIDE DEF S, step, p
<1>5. w \in S
  BY DEF S
<1>6. PICK e \in [0 .. 4 -> S] : Chain(e, w, step, 4)
  BY <1>2, <1>5, ChainExists
<1>7. IsFold(e)
  <2>1. \A n \in 0 .. 4 : n = 0 \/ (n \in 1 .. 4 /\ n - 1 \in 0 .. 4)
    OBVIOUS
  <2>2. \A n \in 0 .. 4 : e[n] = IF n = 0 THEN w ELSE ApplySteps(e[n - 1], p[n], qr)
    BY <1>3, <1>6, <2>1 DEF Chain
  <2> QED
    BY <2>2
<1>8. IsFold(f)
  BY <1>7
<1> HIDE DEF f
<1>9. Folding(f, S, w, step, 4)
  <2>1. \A n \in 1 .. 4 : n \in 0 .. 4 /\ n # 0
    OBVIOUS
  <2>2. f = [n \in 0 .. 4 |-> f[n]] /\ f[0] = w
    BY <1>8
  <2> QED
    BY <1>3, <1>8, <2>1, <2>2 DEF Folding
<1>10. f \in [0 .. 4 -> S] /\ Chain(f, w, step, 4)
  <2> HIDE DEF IsFold
  <2> QED
    BY <1>2, <1>5, <1>9, FoldsAreChains
<1> QED
  BY <1>4, <1>10 DEF S, step, p

LEMMA WiringRoundPermutes ==
    ASSUME Fits, NEW t \in Topologies, NEW qr, IsProgram(qr), NEW round \in Nat
    PROVE  [w \in States(Lanes) |-> TopologyRound(w, t, qr, round)] \in Permuting(States(Lanes))
<1> DEFINE h == [w \in States(Lanes) |-> TopologyRound(w, t, qr, round)]
           S == States(Lanes)
           p == t[(round % 2) + 1]
           step == GroupMaps(p, qr)
<1>1. p \in Partitions /\ IsPartition(p)
  <2>1. (round % 2) + 1 \in 1 .. 2 /\ DOMAIN t = 1 .. 2
    BY DEF Topologies
  <2>2. p \in ToSet(t)
    BY <2>1 DEF ToSet
  <2> QED
    BY <2>1, <2>2 DEF Topologies, IsBalanced
<1>2. \A w \in S : \E f \in [0 .. 4 -> S] : Chain(f, w, step, 4) /\ h[w] = f[4]
  BY GroupsAreAChain, ZenonT(40)
<1>3. h = [s \in S |-> h[s]]
  OBVIOUS
<1> HIDE DEF p
<1>4. step \in [Nat -> Permuting(S)]
  BY <1>1, GroupMapsPermute
<1> HIDE DEF h, S, step
<1>5. h \in Permuting(S)
  BY <1>2, <1>3, <1>4, ChainsPermute, ZenonT(40)
<1> QED
  BY <1>5 DEF h, S

-----------------------------------------------------------------------------
(* The state space is finite, so that what loses nothing reaches everything. *)
LEMMA FiniteStates ==
    ASSUME Fits, NEW L, IsFiniteSet(L)
    PROVE  IsFiniteSet(States(L))
<1> DEFINE Places == L \X Positions(WordSize)
           OnesOf(w) == {at \in Places : at[2] \in w[at[1]]}
           ones == [w \in States(L) |-> OnesOf(w)]
<1>1. IsFiniteSet(SUBSET Places)
  <2>1. WordSize - 1 \in Int
    BY DEF Fits
  <2>2. IsFiniteSet(Positions(WordSize))
    BY <2>1, FS_Interval DEF Positions
  <2> QED
    BY <2>2, FS_Product, FS_SUBSET
<1>2. ones \in [States(L) -> SUBSET Places]
  OBVIOUS
<1>3. ASSUME NEW v \in States(L), NEW u \in States(L), ones[v] = ones[u]
      PROVE  v = u
  <2>1. ASSUME NEW i \in L PROVE v[i] = u[i]
    <3>1. v[i] \subseteq Positions(WordSize) /\ u[i] \subseteq Positions(WordSize)
      BY DEF States, Word
    <3>2. ASSUME NEW k \in Positions(WordSize) PROVE k \in v[i] <=> k \in u[i]
      <4>1. \A w \in States(L) : <<i, k>> \in ones[w] <=> k \in w[i]
        OBVIOUS
      <4> QED
        BY <1>3, <4>1
    <3> QED
      BY <3>1, <3>2
  <2> QED
    BY <2>1 DEF States
<1> HIDE DEF ones, Places
<1>4. ones \in Injection(States(L), SUBSET Places)
  BY <1>2, <1>3, Fun_IsInj
<1> QED
  BY <1>1, <1>4, FS_Injection

LEMMA PermutingIsBijection ==
    ASSUME NEW S, IsFiniteSet(S), NEW h \in Permuting(S)
    PROVE  h \in Bijection(S, S)
<1>1. h \in Injection(S, S)
  BY Fun_IsInj DEF Permuting
<1>2. h \in Surjection(S, S)
  BY <1>1, FS_Injection
<1> QED
  BY <1>1, <1>2, Fun_IsBij

LEMMA LegalIsProgram ==
    ASSUME NEW qr, IsLegal(qr), qr \in Seq(Range(qr))
    PROVE  IsProgram(qr)
<1>1. \A n \in 1 .. Len(qr) : qr[n] \in Steps(qr)
  BY DEF Steps
<1>2. \A s \in Steps(qr) : IsStep(s)
  <2>1. \A r \in 1 .. 31 : r \in Nat
    OBVIOUS
  <2> QED
    BY <2>1 DEF IsLegal, IsStep
<1>3. \A n \in 1 .. Len(qr) : IsStep(qr[n])
  BY <1>1, <1>2
<1> QED
  BY <1>3 DEF IsProgram

LEMMA FiniteLanes == IsFiniteSet(Lanes)
<1>1. 0 \in Int /\ 15 \in Int
  OBVIOUS
<1>2. IsFiniteSet(0 .. 15)
  BY <1>1, FS_Interval
<1> QED
  BY <1>2 DEF Lanes

-----------------------------------------------------------------------------
(* Any number of rounds. *)
RoundMaps(t, qr) ==
    [n \in Nat |-> [w \in States(Lanes) |-> IF n = 0 THEN w ELSE TopologyRound(w, t, qr, n - 1)]]

LEMMA Counting ==
    ASSUME NEW N \in Nat
    PROVE  Len([i \in 1 .. N |-> i - 1]) = N
<1> DEFINE q == [i \in 1 .. N |-> i - 1]
<1>1. q \in [1 .. N -> Int]
  OBVIOUS
<1>2. q \in Seq(Int)
  BY <1>1, SeqDef
<1>3. DOMAIN q = 1 .. N /\ DOMAIN q = 1 .. Len(q) /\ Len(q) \in Nat
  BY <1>2, LenProperties
<1> QED
  BY <1>3

LEMMA RoundMapsPermute ==
    ASSUME Fits, NEW t \in Topologies, NEW qr, IsProgram(qr)
    PROVE  RoundMaps(t, qr) \in [Nat -> Permuting(States(Lanes))]
<1>1. ASSUME NEW n \in Nat
      PROVE  [w \in States(Lanes) |-> IF n = 0 THEN w ELSE TopologyRound(w, t, qr, n - 1)]
                \in Permuting(States(Lanes))
  <2>1. CASE n = 0
    BY <2>1, Identity
  <2>2. CASE n # 0
    <3>1. n - 1 \in Nat
      BY <2>2
    <3> QED
      BY <2>2, <3>1, WiringRoundPermutes
  <2> QED
    BY <2>1, <2>2
<1> QED
  BY <1>1 DEF RoundMaps

LEMMA RoundsAreAChain ==
    ASSUME Fits, NEW t \in Topologies, NEW qr, IsProgram(qr),
           NEW N \in Nat, NEW w \in States(Lanes)
    PROVE  \E f \in [0 .. N -> States(Lanes)] :
              Chain(f, w, RoundMaps(t, qr), N) /\ TopologyRounds(w, t, qr, N) = f[N]
<1> DEFINE S == States(Lanes)
           step == RoundMaps(t, qr)
           IsFold(f) == f = [n \in 0 .. N |-> IF n = 0 THEN w ELSE TopologyRound(f[n - 1], t, qr, n - 1)]
           f == CHOOSE f : IsFold(f)
<1>1. step \in [Nat -> [S -> S]]
  BY RoundMapsPermute DEF Permuting
<1>2. \A n \in 1 .. N : \A v \in S : step[n][v] = TopologyRound(v, t, qr, n - 1)
  BY DEF RoundMaps
<1>3. TopologyRounds(w, t, qr, N) = f[N]
  <2> DEFINE q == [i \in 1 .. N |-> i - 1]
             Turned(v, r) == Strictly(LAMBDA u : TopologyRound(u, t, qr, r), v)
             IsTurn(g) == g = [n \in 0 .. Len(q) |-> IF n = 0 THEN w ELSE Turned(g[n - 1], q[n])]
  <2>1. Len(q) = N
    BY Counting
  <2>2. \A n \in 1 .. N : q[n] = n - 1
    OBVIOUS
  <2>3. TopologyRounds(w, t, qr, N) = (CHOOSE g : IsTurn(g))[Len(q)]
    BY DEF TopologyRounds, InTurn
  <2>4. \A v, r : Turned(v, r) = TopologyRound(v, t, qr, r)
    BY DEF Strictly
  <2> HIDE DEF q, Turned
  <2>5. \A n \in 0 .. N : n = 0 \/ n \in 1 .. N
    OBVIOUS
  <2>6. ASSUME NEW g
        PROVE  \A n \in 0 .. N :
                  (IF n = 0 THEN w ELSE Turned(g[n - 1], q[n]))
                  = (IF n = 0 THEN w ELSE TopologyRound(g[n - 1], t, qr, n - 1))
    BY <2>2, <2>5, <2>4
  <2>7. \A g : IsTurn(g) <=> IsFold(g)
    BY <2>1, <2>6
  <2>8. (CHOOSE g : IsTurn(g)) = (CHOOSE g : IsFold(g))
    BY <2>7
  <2> QED
    BY <2>1, <2>3, <2>8
<1> HIDE DEF S, step
<1>4. w \in S
  BY DEF S
<1>5. PICK e \in [0 .. N -> S] : Chain(e, w, step, N)
  BY <1>1, <1>4, ChainExists
<1>6. IsFold(e)
  <2>1. \A n \in 0 .. N : n = 0 \/ (n \in 1 .. N /\ n - 1 \in 0 .. N)
    OBVIOUS
  <2>2. \A n \in 0 .. N : e[n] = IF n = 0 THEN w ELSE TopologyRound(e[n - 1], t, qr, n - 1)
    BY <1>2, <1>5, <2>1 DEF Chain
  <2> QED
    BY <2>2
<1>7. IsFold(f)
  BY <1>6
<1> HIDE DEF f
<1>8. Folding(f, S, w, step, N)
  <2>1. \A n \in 1 .. N : n \in 0 .. N /\ n # 0
    OBVIOUS
  <2>2. f = [n \in 0 .. N |-> f[n]] /\ f[0] = w
    BY <1>7
  <2> QED
    BY <1>2, <1>7, <2>1, <2>2 DEF Folding
<1>9. f \in [0 .. N -> S] /\ Chain(f, w, step, N)
  <2> HIDE DEF IsFold
  <2> QED
    BY <1>1, <1>4, <1>8, FoldsAreChains
<1> QED
  BY <1>3, <1>9 DEF S, step

(* A legal quarter round on four lanes is invertible, whatever the lanes   *)
(* hold and however wide they are (quarter_round.rs:121).                  *)
THEOREM LegalQuarterRoundsPermute ==
    ASSUME Fits, NEW L, IsFiniteSet(L), NEW g, IsGroup(g, L),
           NEW qr, IsLegal(qr), qr \in Seq(Range(qr))
    PROVE  [w \in States(L) |-> ApplySteps(w, g, qr)] \in Bijection(States(L), States(L))
  BY LegalIsProgram, ProgramsPermute, FiniteStates, PermutingIsBijection

LEMMA RoundsPermute ==
    ASSUME Fits, NEW t \in Topologies, NEW qr, IsProgram(qr), NEW rounds \in Nat
    PROVE  [w \in States(Lanes) |-> TopologyRounds(w, t, qr, rounds)]
              \in Bijection(States(Lanes), States(Lanes))
<1> DEFINE h == [w \in States(Lanes) |-> TopologyRounds(w, t, qr, rounds)]
           S == States(Lanes)
           step == RoundMaps(t, qr)
<1>1. step \in [Nat -> Permuting(S)]
  BY RoundMapsPermute
<1>2. \A w \in S : \E f \in [0 .. rounds -> S] : Chain(f, w, step, rounds) /\ h[w] = f[rounds]
  BY RoundsAreAChain
<1>3. h = [s \in S |-> h[s]]
  OBVIOUS
<1>4. IsFiniteSet(S)
  BY FiniteLanes, FiniteStates
<1> HIDE DEF h, S, step
<1>5. h \in Permuting(S)
  BY <1>1, <1>2, <1>3, ChainsPermute
<1>6. h \in Bijection(S, S)
  BY <1>4, <1>5, PermutingIsBijection
<1> QED
  BY <1>6 DEF h, S

(* A wiring of legal quarter rounds is invertible, after any number of     *)
(* rounds (topology.rs).                                                   *)
THEOREM WiringsPermute ==
    ASSUME Fits, NEW t \in Topologies, NEW qr, IsLegal(qr), qr \in Seq(Range(qr)), NEW rounds \in Nat
    PROVE  [w \in States(Lanes) |-> TopologyRounds(w, t, qr, rounds)]
              \in Bijection(States(Lanes), States(Lanes))
  BY LegalIsProgram, RoundsPermute

-----------------------------------------------------------------------------
(* One design written several times is one design. *)
LEMMA ChaChaGroups ==
    /\ Columns \in Partitions /\ Diagonals \in Partitions
    /\ ColumnGroups = Columns /\ Groups("diag-1") = Diagonals
<1>1. \A g \in 1 .. 4 : g = 1 \/ g = 2 \/ g = 3 \/ g = 4
  OBVIOUS
<1>2. Columns \in Partitions /\ Diagonals \in Partitions
  BY DEF Columns, Diagonals, Partitions, Lanes
<1>3. \A g, k \in 1 .. 4 : Columns[g][k] = g - 1 + 4 * (k - 1)
  BY <1>1 DEF Columns
<1>4. \A g, k \in 1 .. 4 : Diagonals[g][k] = 4 * (k - 1) + ((g - 1 + (k - 1) * 1) % 4)
  BY <1>1 DEF Diagonals
<1>5. ASSUME NEW p \in Partitions, NEW q \in Partitions, \A g, k \in 1 .. 4 : p[g][k] = q[g][k]
      PROVE  p = q
  BY <1>5 DEF Partitions
<1>6. ColumnGroups = Columns
  <2>1. ColumnGroups \in Partitions
    BY DEF ColumnGroups, Partitions, Lanes
  <2>2. \A g, k \in 1 .. 4 : ColumnGroups[g][k] = Columns[g][k]
    BY <1>3 DEF ColumnGroups
  <2> QED
    BY <1>2, <1>5, <2>1, <2>2
<1>7. Groups("diag-1") = Diagonals
  <2>1. Groups("diag-1") = DiagonalGroups(1)
    BY DEF Groups
  <2>2. \A g, k \in 1 .. 4 : DiagonalGroups(1)[g][k] = Diagonals[g][k]
    BY <1>4 DEF DiagonalGroups
  <2>3. DiagonalGroups(1) \in Partitions
    <3>1. \A g, k \in 1 .. 4 : DiagonalGroups(1)[g][k] \in Lanes
      BY <1>2, <2>2 DEF Partitions
    <3> QED
      BY <3>1 DEF DiagonalGroups, Partitions
  <2> QED
    BY <1>2, <1>5, <2>1, <2>2, <2>3
<1> QED
  BY <1>2, <1>6, <1>7

(* The round of ChaCha is written for its own design, for wirings and for  *)
(* structures; they are one function, whatever it is given                 *)
(* (topology.rs:207, arx_structure.rs:238).                                *)
THEOREM RoundsAgree ==
    ASSUME NEW w, NEW rot, NEW round \in Nat
    PROVE  /\ ChaChaRound(w, rot, round) = TopologyRound(w, ChaChaTopology, CrossSteps(rot), round)
           /\ ChaChaRound(w, rot, round) = StructureRound(w, "double-cross", "diag-1", rot, round)
<1> DEFINE p == IF round % 2 = 0 THEN Columns ELSE Diagonals
           qr == CrossSteps(rot)
           IsFold(f) == f = [n \in 0 .. Len(p) |-> IF n = 0 THEN w ELSE ApplySteps(f[n - 1], p[n], qr)]
<1>1. p \in Partitions /\ Len(p) = 4
  BY ChaChaGroups, FourInSeq DEF Partitions
<1>2. TopologyRound(w, ChaChaTopology, qr, round) = (CHOOSE f : IsFold(f))[Len(p)]
  <2>1. ChaChaTopology[(round % 2) + 1] = p
    <3>1. round % 2 = 0 \/ round % 2 = 1
      OBVIOUS
    <3> QED
      BY <3>1 DEF ChaChaTopology
  <2> QED
    BY <2>1 DEF TopologyRound, InTurn
<1>3. StructureRound(w, "double-cross", "diag-1", rot, round) = (CHOOSE f : IsFold(f))[Len(p)]
  <2>1. (IF round % 2 = 0 THEN ColumnGroups ELSE Groups("diag-1")) = p
    BY ChaChaGroups
  <2>2. \A v, g : ApplyShape("double-cross", v, g, rot) = ApplySteps(v, g, qr)
    BY DEF ApplyShape
  <2> DEFINE IsShaped(f) ==
        f = [n \in 0 .. Len(p) |-> IF n = 0 THEN w ELSE ApplyShape("double-cross", f[n - 1], p[n], rot)]
  <2>3. StructureRound(w, "double-cross", "diag-1", rot, round) = (CHOOSE f : IsShaped(f))[Len(p)]
    BY <2>1 DEF StructureRound, InTurn
  <2>4. \A f : IsShaped(f) <=> IsFold(f)
    <3> HIDE DEF p, qr
    <3> QED
      BY <2>2
  <2>5. (CHOOSE f : IsShaped(f)) = (CHOOSE f : IsFold(f))
    <3> HIDE DEF IsShaped, IsFold
    <3> QED
      BY <2>4
  <2> QED
    BY <2>3, <2>5
<1>4. ChaChaRound(w, rot, round) = (CHOOSE f : IsFold(f))[Len(p)]
  <2> DEFINE Quarter(v, g) == QuarterRound(v, g[1], g[2], g[3], g[4], rot)
             IsQuartered(f) == f = [n \in 0 .. Len(p) |-> IF n = 0 THEN w ELSE Quarter(f[n - 1], p[n])]
  <2>1. ChaChaRound(w, rot, round) = (CHOOSE f : IsQuartered(f))[Len(p)]
    BY DEF ChaChaRound, InTurn
  <2>2. \A n \in 0 .. Len(p) : n = 0 \/ n \in 1 .. 4
    <3> HIDE DEF p
    <3> QED
      BY <1>1
  <2>3. ASSUME NEW v, NEW n \in 1 .. 4
        PROVE  Quarter(v, p[n]) = ApplySteps(v, p[n], qr)
    <3>1. p[n] \in [1 .. 4 -> Lanes]
      BY <1>1 DEF Partitions
    <3>2. <<p[n][1], p[n][2], p[n][3], p[n][4]>> = p[n]
      <4> HIDE DEF p
      <4> QED
        BY <3>1
    <3> QED
      BY <3>2 DEF QuarterRound
  <2>4. \A f : IsQuartered(f) <=> IsFold(f)
    <3> HIDE DEF p, qr, Quarter
    <3>1. ASSUME NEW f
          PROVE  \A n \in 0 .. Len(p) : (IF n = 0 THEN w ELSE Quarter(f[n - 1], p[n]))
                                        = (IF n = 0 THEN w ELSE ApplySteps(f[n - 1], p[n], qr))
      BY <2>2, <2>3
    <3> QED
      BY <3>1
  <2>5. (CHOOSE f : IsQuartered(f)) = (CHOOSE f : IsFold(f))
    <3> HIDE DEF IsQuartered, IsFold
    <3> QED
      BY <2>4
  <2> QED
    BY <2>1, <2>5
<1> QED
  BY <1>2, <1>3, <1>4

LEMMA FourSteps ==
    ASSUME NEW w, NEW g, NEW r
    PROVE  ApplySteps(w, g, CrossSteps(r)) =
              ApplyStep(ApplyStep(ApplyStep(ApplyStep(w, g, QrStep(1, 2, 4, r[1])),
                        g, QrStep(3, 4, 2, r[2])), g, QrStep(1, 2, 4, r[3])), g, QrStep(3, 4, 2, r[4]))
<1> DEFINE q == CrossSteps(r)
           w1 == ApplyStep(w, g, q[1])
           w2 == ApplyStep(w1, g, q[2])
           w3 == ApplyStep(w2, g, q[3])
           w4 == ApplyStep(w3, g, q[4])
           e == [n \in 0 .. 4 |-> IF n = 0 THEN w ELSE IF n = 1 THEN w1 ELSE IF n = 2 THEN w2
                                  ELSE IF n = 3 THEN w3 ELSE w4]
           IsFold(f) == f = [n \in 0 .. 4 |-> IF n = 0 THEN w ELSE ApplyStep(f[n - 1], g, q[n])]
           f == CHOOSE f : IsFold(f)
<1>1. /\ Len(q) = 4
      /\ q[1] = QrStep(1, 2, 4, r[1]) /\ q[2] = QrStep(3, 4, 2, r[2])
      /\ q[3] = QrStep(1, 2, 4, r[3]) /\ q[4] = QrStep(3, 4, 2, r[4])
  BY DEF CrossSteps
<1>2. ApplySteps(w, g, q) = f[4]
  BY <1>1 DEF ApplySteps, InTurn
<1> HIDE DEF q
<1>3. \A n \in 0 .. 4 : n = 0 \/ n = 1 \/ n = 2 \/ n = 3 \/ n = 4
  OBVIOUS
<1>4. w1 = ApplyStep(w, g, q[1]) /\ w2 = ApplyStep(w1, g, q[2])
      /\ w3 = ApplyStep(w2, g, q[3]) /\ w4 = ApplyStep(w3, g, q[4])
  OBVIOUS
<1> HIDE DEF w1, w2, w3, w4
<1>5. e[0] = w /\ e[1] = w1 /\ e[2] = w2 /\ e[3] = w3 /\ e[4] = w4
  OBVIOUS
<1>6. e = [n \in 0 .. 4 |-> e[n]]
  OBVIOUS
<1> HIDE DEF e
<1>7. \A n \in 0 .. 4 : e[n] = IF n = 0 THEN w ELSE ApplyStep(e[n - 1], g, q[n])
  BY <1>3, <1>4, <1>5
<1>8. IsFold(e)
  BY <1>6, <1>7
<1>9. IsFold(f)
  BY <1>8
<1> HIDE DEF f
<1>10. f[0] = w /\ \A n \in 1 .. 4 : f[n] = ApplyStep(f[n - 1], g, q[n])
  BY <1>9
<1>11. f[1] = w1 /\ f[2] = w2 /\ f[3] = w3 /\ f[4] = w4
  BY <1>4, <1>10
<1> QED
  BY <1>1, <1>2, <1>4, <1>11 DEF q

LEMMA TurnedRight ==
    ASSUME WordSize = 64, NEW L, NEW d \in L, NEW a \in L, NEW r \in 1 .. 63, NEW v \in States(L)
    PROVE  XorRotRight(v, d, a, r) = XorRot(v, d, a, 64 - r)
<1>1. Xor(v[d], v[a]) \in Word(WordSize)
  BY XorWord DEF States
<1>2. WordSize \in Nat \ {0} /\ r \in Nat /\ r % WordSize = r
  OBVIOUS
<1>3. Rotr(Xor(v[d], v[a]), r, WordSize) = Rotl(Xor(v[d], v[a]), 64 - r, WordSize)
  BY <1>1, <1>2, RotrIsRotl
<1> QED
  BY <1>3 DEF XorRotRight, XorRot, States

(* Nothing injected, the mixing of BLAKE2b is the quarter round of arx64   *)
(* with BLAKE2b's rotations (arx64.rs:180).                                *)
THEOREM MixingAgrees ==
    ASSUME WordSize = 64, NEW L, NEW w \in States(L), NEW g, IsGroup(g, L)
    PROVE  G(w, g[1], g[2], g[3], g[4], {}, {}) = QuarterRound(w, g[1], g[2], g[3], g[4], Blake2bRot)
<1> DEFINE a == g[1]
           b == g[2]
           c == g[3]
           d == g[4]
           h == <<a, b, c, d>>
           Add1(v, r) == XorRot(AddTo(v, a, b), d, a, r)
           Add2(v, r) == XorRot(AddTo(v, c, d), b, c, r)
           Inject(v) == [AddTo(v, a, b) EXCEPT ![a] = Plus(@, {})]
           Half(v, r, s) == XorRotRight(AddTo(XorRotRight(Inject(v), d, a, r), c, d), b, c, s)
<1>1. Fits /\ a \in L /\ b \in L /\ c \in L /\ d \in L /\ a # b /\ c # d /\ d # a /\ b # c
  BY DEF Fits, IsGroup
<1>2. /\ ApplyStep(w, h, QrStep(1, 2, 4, Blake2bRot[1])) = Add1(w, 32)
      /\ \A v : /\ ApplyStep(v, h, QrStep(3, 4, 2, Blake2bRot[2])) = Add2(v, 40)
                /\ ApplyStep(v, h, QrStep(1, 2, 4, Blake2bRot[3])) = Add1(v, 48)
                /\ ApplyStep(v, h, QrStep(3, 4, 2, Blake2bRot[4])) = Add2(v, 1)
  BY DEF ApplyStep, QrStep, Blake2bRot
<1>3. QuarterRound(w, a, b, c, d, Blake2bRot) = Add2(Add1(Add2(Add1(w, 32), 40), 48), 1)
  BY <1>2, FourSteps DEF QuarterRound
<1>4. G(w, a, b, c, d, {}, {}) = Half(Half(w, 32, 24), 16, 63)
  BY DEF G
<1> HIDE DEF a, b, c, d
<1>5. ASSUME NEW v \in States(L)
      PROVE  Inject(v) = AddTo(v, a, b) /\ AddTo(v, a, b) \in States(L)
  <2>1. AddTo(v, a, b) \in States(L)
    BY <1>1, AddToPermutes
  <2>2. ASSUME NEW x PROVE Plus(x, {}) = x
    BY DEF Plus, Add, Carry, Xor
  <2> QED
    BY <1>1, <2>1, <2>2 DEF States
<1>6. ASSUME NEW v \in States(L), NEW r \in 1 .. 63, NEW s \in 1 .. 63
      PROVE  Half(v, r, s) = Add2(Add1(v, 64 - r), 64 - s) /\ Half(v, r, s) \in States(L)
  <2>1. 64 - r \in Nat /\ 64 - s \in Nat
    OBVIOUS
  <2>2. AddTo(v, a, b) \in States(L)
    BY <1>5
  <2>3. XorRotRight(Inject(v), d, a, r) = Add1(v, 64 - r)
    BY <1>1, <1>5, <2>1, <2>2, TurnedRight
  <2>4. Add1(v, 64 - r) \in States(L)
    BY <1>1, <2>1, <2>2, XorRotPermutes
  <2>5. AddTo(Add1(v, 64 - r), c, d) \in States(L)
    BY <1>1, <2>4, AddToPermutes
  <2>6. Half(v, r, s) = Add2(Add1(v, 64 - r), 64 - s)
    BY <1>1, <2>1, <2>3, <2>5, TurnedRight
  <2>7. Add2(Add1(v, 64 - r), 64 - s) \in States(L)
    BY <1>1, <2>1, <2>5, XorRotPermutes
  <2> QED
    BY <2>6, <2>7
<1>7. /\ 32 \in 1 .. 63 /\ 24 \in 1 .. 63 /\ 16 \in 1 .. 63 /\ 63 \in 1 .. 63
      /\ 64 - 32 = 32 /\ 64 - 24 = 40 /\ 64 - 16 = 48 /\ 64 - 63 = 1
  OBVIOUS
<1> HIDE DEF Add1, Add2, Half
<1>8. Half(w, 32, 24) = Add2(Add1(w, 32), 40) /\ Half(w, 32, 24) \in States(L)
  <2>1. Half(w, 32, 24) = Add2(Add1(w, 64 - 32), 64 - 24) /\ Half(w, 32, 24) \in States(L)
    BY <1>6, <1>7, Zenon
  <2> QED
    BY <1>7, <2>1, Zenon
<1> DEFINE mid == Half(w, 32, 24)
<1>9. Half(mid, 16, 63) = Add2(Add1(mid, 48), 1)
  <2>1. mid \in States(L)
    BY <1>8
  <2> HIDE DEF mid
  <2>2. Half(mid, 16, 63) = Add2(Add1(mid, 64 - 16), 64 - 63)
    BY <1>6, <1>7, <2>1, Zenon
  <2> QED
    BY <1>7, <2>2, Zenon
<1> QED
  BY <1>3, <1>4, <1>8, <1>9 DEF a, b, c, d

(* A partition read place by place. *)
LEMMA ByPlaces ==
    ASSUME NEW p \in Partitions
    PROVE  IsPartition(p) <=>
              /\ \A lane \in Lanes : \E g, k \in 1 .. 4 : p[g][k] = lane
              /\ \A g, k, h, j \in 1 .. 4 : p[g][k] = p[h][j] => g = h /\ k = j
<1> DEFINE places == UNION {{<<g, k>> : k \in DOMAIN p[g]} : g \in DOMAIN p}
           Held == {p[at[1]][at[2]] : at \in places}
           Apart == \A at, other \in places : p[at[1]][at[2]] = p[other[1]][other[2]] => at = other
<1>1. DOMAIN p = 1 .. 4 /\ \A g \in 1 .. 4 : DOMAIN p[g] = 1 .. 4 /\ \A k \in 1 .. 4 : p[g][k] \in Lanes
  BY DEF Partitions
<1>2. places = (1 .. 4) \X (1 .. 4)
  BY <1>1
<1>3. IsPartition(p) <=> Held = Lanes /\ Apart
  BY DEF IsPartition
<1> HIDE DEF places
<1>4. Held = Lanes <=> \A lane \in Lanes : \E g, k \in 1 .. 4 : p[g][k] = lane
  <2>1. Held \subseteq Lanes
    BY <1>1, <1>2
  <2>2. \A lane \in Held : \E g, k \in 1 .. 4 : p[g][k] = lane
    BY <1>2
  <2>3. ASSUME NEW g \in 1 .. 4, NEW k \in 1 .. 4
        PROVE  p[g][k] \in Held
    <3> DEFINE at == <<g, k>>
    <3>1. at \in places /\ at[1] = g /\ at[2] = k
      BY <1>2
    <3> HIDE DEF at
    <3> QED
      BY <3>1
  <2> HIDE DEF Held
  <2> QED
    BY <2>1, <2>2, <2>3
<1>5. Apart <=> \A g, k, h, j \in 1 .. 4 : p[g][k] = p[h][j] => g = h /\ k = j
  <2>1. ASSUME Apart, NEW g \in 1 .. 4, NEW k \in 1 .. 4, NEW h \in 1 .. 4, NEW j \in 1 .. 4,
               p[g][k] = p[h][j]
        PROVE  g = h /\ k = j
    <3>1. <<g, k>> \in places /\ <<h, j>> \in places
      BY <1>2
    <3> DEFINE at == <<g, k>>
               other == <<h, j>>
    <3>2. at[1] = g /\ at[2] = k /\ other[1] = h /\ other[2] = j
      OBVIOUS
    <3> HIDE DEF at, other
    <3>3. at = other
      BY <2>1, <3>1, <3>2 DEF at, other
    <3> QED
      BY <3>2, <3>3
  <2>2. ASSUME \A g, k, h, j \in 1 .. 4 : p[g][k] = p[h][j] => g = h /\ k = j,
               NEW at \in places, NEW other \in places, p[at[1]][at[2]] = p[other[1]][other[2]]
        PROVE  at = other
    BY <1>2, <2>2
  <2> HIDE DEF Apart
  <2>3. Apart => \A g, k, h, j \in 1 .. 4 : p[g][k] = p[h][j] => g = h /\ k = j
    BY <2>1
  <2>4. (\A g, k, h, j \in 1 .. 4 : p[g][k] = p[h][j] => g = h /\ k = j) => Apart
    BY <2>2 DEF Apart
  <2> QED
    BY <2>3, <2>4
<1> HIDE DEF Held, Apart
<1> QED
  BY <1>3, <1>4, <1>5

LEMMA DiagonalsPart ==
    ASSUME NEW p \in Partitions, NEW s \in 0 .. 3,
           \A g, k \in 1 .. 4 : p[g][k] = 4 * (k - 1) + ((g - 1 + (k - 1) * s) % 4)
    PROVE  IsPartition(p)
<1>1. ASSUME NEW lane \in Lanes PROVE \E g, k \in 1 .. 4 : p[g][k] = lane
  <2> DEFINE k == (lane \div 4) + 1
             g == ((lane + 16 - (k - 1) * s) % 4) + 1
  <2>1. lane \in 0 .. 15
    BY DEF Lanes
  <2>2. k \in 1 .. 4 /\ g \in 1 .. 4
    BY <2>1
  <2>3. 4 * (k - 1) + ((g - 1 + (k - 1) * s) % 4) = lane
    <3>1. s = 0 \/ s = 1 \/ s = 2 \/ s = 3
      OBVIOUS
    <3> QED
      BY <2>1, <3>1
  <2> QED
    BY <2>2, <2>3
<1>2. ASSUME NEW g \in 1 .. 4, NEW k \in 1 .. 4, NEW h \in 1 .. 4, NEW j \in 1 .. 4,
             p[g][k] = p[h][j]
      PROVE  g = h /\ k = j
  <2>1. 4 * (k - 1) + ((g - 1 + (k - 1) * s) % 4) = 4 * (j - 1) + ((h - 1 + (j - 1) * s) % 4)
    BY <1>2
  <2>2. s = 0 \/ s = 1 \/ s = 2 \/ s = 3
    OBVIOUS
  <2>3. k = j
    BY <2>1, <2>2
  <2> QED
    BY <2>1, <2>2, <2>3
<1> QED
  BY <1>1, <1>2, ByPlaces

LEMMA ChaChaIsBalanced == ChaChaTopology \in Topologies
<1>1. \A g \in 1 .. 4 : g = 1 \/ g = 2 \/ g = 3 \/ g = 4
  OBVIOUS
<1>2. IsPartition(Columns)
  <2>1. \A g, k \in 1 .. 4 : Columns[g][k] = 4 * (k - 1) + ((g - 1 + (k - 1) * 0) % 4)
    BY <1>1 DEF Columns
  <2> QED
    BY <2>1, ChaChaGroups, DiagonalsPart
<1>3. IsPartition(Diagonals)
  <2>1. \A g, k \in 1 .. 4 : Diagonals[g][k] = 4 * (k - 1) + ((g - 1 + (k - 1) * 1) % 4)
    BY <1>1 DEF Diagonals
  <2> QED
    BY <2>1, ChaChaGroups, DiagonalsPart
<1>4. ChaChaTopology \in [1 .. 2 -> Partitions] /\ ToSet(ChaChaTopology) = {Columns, Diagonals}
  BY ChaChaGroups DEF ChaChaTopology, ToSet
<1> QED
  BY <1>2, <1>3, <1>4 DEF Topologies, IsBalanced

LEMMA PermuteIsRounds ==
    ASSUME NEW w, NEW rot, NEW N \in Nat
    PROVE  Permute(w, rot, N) = TopologyRounds(w, ChaChaTopology, CrossSteps(rot), N)
<1> DEFINE q == [i \in 1 .. N |-> i - 1]
           A(v, r) == Strictly(LAMBDA u : ChaChaRound(u, rot, r), v)
           B(v, r) == Strictly(LAMBDA u : TopologyRound(u, ChaChaTopology, CrossSteps(rot), r), v)
           IsA(f) == f = [n \in 0 .. Len(q) |-> IF n = 0 THEN w ELSE A(f[n - 1], q[n])]
           IsB(f) == f = [n \in 0 .. Len(q) |-> IF n = 0 THEN w ELSE B(f[n - 1], q[n])]
<1>1. Permute(w, rot, N) = (CHOOSE f : IsA(f))[Len(q)]
  BY DEF Permute, InTurn
<1>2. TopologyRounds(w, ChaChaTopology, CrossSteps(rot), N) = (CHOOSE f : IsB(f))[Len(q)]
  BY DEF TopologyRounds, InTurn
<1>3. ASSUME NEW v, NEW r \in Nat PROVE A(v, r) = B(v, r)
  <2>1. A(v, r) = ChaChaRound(v, rot, r)
    BY DEF Strictly
  <2>2. B(v, r) = TopologyRound(v, ChaChaTopology, CrossSteps(rot), r)
    BY DEF Strictly
  <2> QED
    BY <2>1, <2>2, RoundsAgree
<1>4. Len(q) = N
  BY Counting
<1>5. \A n \in 0 .. N : n = 0 \/ q[n] \in Nat
  OBVIOUS
<1> HIDE DEF q, A, B
<1>6. ASSUME NEW f
      PROVE  \A n \in 0 .. Len(q) : (IF n = 0 THEN w ELSE A(f[n - 1], q[n]))
                                    = (IF n = 0 THEN w ELSE B(f[n - 1], q[n]))
  BY <1>3, <1>4, <1>5
<1>7. \A f : IsA(f) <=> IsB(f)
  BY <1>6
<1>8. (CHOOSE f : IsA(f)) = (CHOOSE f : IsB(f))
  <2> HIDE DEF IsA, IsB
  <2> QED
    BY <1>7
<1> QED
  BY <1>1, <1>2, <1>8

LEMMA FourStepsProgram ==
    ASSUME NEW s, NEW t, NEW u, NEW v, IsStep(s), IsStep(t), IsStep(u), IsStep(v)
    PROVE  IsProgram(<<s, t, u, v>>)
<1> DEFINE qr == <<s, t, u, v>>
<1>1. Len(qr) = 4 /\ \A n \in 1 .. 4 : n = 1 \/ n = 2 \/ n = 3 \/ n = 4
  OBVIOUS
<1>2. qr \in Seq(Range(qr))
  BY DEF Range
<1>3. \A n \in 1 .. 4 : IsStep(qr[n])
  BY <1>1
<1> QED
  BY <1>1, <1>2, <1>3 DEF IsProgram

LEMMA CrossIsProgram ==
    ASSUME NEW rot \in [1 .. 4 -> Nat]
    PROVE  IsProgram(CrossSteps(rot))
<1>1. \A r \in Nat : IsStep(QrStep(1, 2, 4, r)) /\ IsStep(QrStep(3, 4, 2, r))
  BY DEF QrStep, IsStep
<1> QED
  BY <1>1, FourStepsProgram DEF CrossSteps

(* ChaCha is invertible with any rotations, after any number of rounds     *)
(* (systems.rs:79, arx64.rs:85).                                           *)
THEOREM ChaChaPermutes ==
    ASSUME Fits, NEW rot \in [1 .. 4 -> Nat], NEW rounds \in Nat
    PROVE  [w \in States(Lanes) |-> Permute(w, rot, rounds)] \in Bijection(States(Lanes), States(Lanes))
<1>1. IsProgram(CrossSteps(rot))
  BY CrossIsProgram
<1>2. [w \in States(Lanes) |-> Permute(w, rot, rounds)]
         = [w \in States(Lanes) |-> TopologyRounds(w, ChaChaTopology, CrossSteps(rot), rounds)]
  BY PermuteIsRounds
<1> QED
  BY <1>1, <1>2, ChaChaIsBalanced, RoundsPermute

LEMMA FourAreChaCha == StepsQr(4) = ChaChaQr
<1>1. StepsQr(4) = CrossSteps(ChaChaRot)
  <2>1. \A i \in 1 .. 4 : i = 1 \/ i = 2 \/ i = 3 \/ i = 4
    OBVIOUS
  <2>2. \A i \in 1 .. 4 : StepsQr(4)[i] = CrossSteps(ChaChaRot)[i]
    BY <2>1 DEF StepsQr, CrossSteps, ChaChaRot
  <2>3. DOMAIN StepsQr(4) = 1 .. 4 /\ StepsQr(4) = [i \in 1 .. 4 |-> StepsQr(4)[i]]
    BY DEF StepsQr
  <2>4. CrossSteps(ChaChaRot) = [i \in 1 .. 4 |-> CrossSteps(ChaChaRot)[i]]
    BY DEF CrossSteps
  <2> QED
    BY <2>2, <2>3, <2>4
<1> QED
  BY <1>1 DEF ChaChaQr

(* The timed block function is that of ChaCha20 at four steps a quarter    *)
(* round (arx_step_search.rs:239, arx_step_cycles.rs:321).                 *)
THEOREM BlocksAgree ==
    ASSUME NEW w
    PROVE  StepsBlock(w, 4, 20) = ChaChaBlock(w)
<1>1. StepsQr(4) = CrossSteps(ChaChaRot)
  BY FourAreChaCha DEF ChaChaQr
<1>2. Permute(w, ChaChaRot, 20) = TopologyRounds(w, ChaChaTopology, CrossSteps(ChaChaRot), 20)
  BY PermuteIsRounds
<1> QED
  BY <1>1, <1>2 DEF StepsBlock, ChaChaBlock

-----------------------------------------------------------------------------
(* The structures of arx_structure.rs. *)
LEMMA SalsaPermutes ==
    ASSUME Fits, NEW L, NEW g, IsGroup(g, L), NEW r \in [1 .. 4 -> Nat]
    PROVE  [w \in States(L) |-> SalsaCycle(w, g, r)] \in Permuting(States(L))
<1> DEFINE v1(w) == XorSum(w, g[2], g[1], g[4], r[1])
           v2(w) == XorSum(v1(w), g[3], g[2], g[1], r[2])
           v3(w) == XorSum(v2(w), g[4], g[3], g[2], r[3])
           v4(w) == XorSum(v3(w), g[1], g[4], g[3], r[4])
<1>1. /\ g[1] \in L /\ g[2] \in L /\ g[3] \in L /\ g[4] \in L
      /\ g[2] \notin {g[1], g[4]} /\ g[3] \notin {g[2], g[1]}
      /\ g[4] \notin {g[3], g[2]} /\ g[1] \notin {g[4], g[3]}
      /\ r[1] \in Nat /\ r[2] \in Nat /\ r[3] \in Nat /\ r[4] \in Nat
  BY DEF IsGroup
<1>2. \A w : SalsaCycle(w, g, r) = v4(w)
  BY DEF SalsaCycle
<1>3. ASSUME NEW w \in States(L), NEW u \in States(L)
      PROVE  v4(w) \in States(L) /\ (v4(w) = v4(u) => w = u)
  <2>1. /\ v1(w) \in States(L) /\ v1(u) \in States(L)
        /\ v1(w) = v1(u) => w = u
    BY <1>1, XorSumPermutes
  <2> HIDE DEF v1
  <2>2. /\ v2(w) \in States(L) /\ v2(u) \in States(L)
        /\ v2(w) = v2(u) => v1(w) = v1(u)
    BY <1>1, <2>1, XorSumPermutes
  <2> HIDE DEF v2
  <2>3. /\ v3(w) \in States(L) /\ v3(u) \in States(L)
        /\ v3(w) = v3(u) => v2(w) = v2(u)
    BY <1>1, <2>2, XorSumPermutes, SMTT(30)
  <2> HIDE DEF v3
  <2>4. /\ v4(w) \in States(L)
        /\ v4(w) = v4(u) => v3(w) = v3(u)
    BY <1>1, <2>3, XorSumPermutes
  <2> QED
    BY <2>1, <2>2, <2>3, <2>4
<1> QED
  BY <1>2, <1>3 DEF Permuting

LEMMA HalfParallelPermutes ==
    ASSUME Fits, NEW L, NEW g, IsGroup(g, L), NEW r \in Nat, NEW s \in Nat,
           NEW w \in States(L), NEW u \in States(L)
    PROVE  /\ HalfParallel(w, g, r, s) \in States(L)
           /\ HalfParallel(w, g, r, s) = HalfParallel(u, g, r, s) => w = u
<1> DEFINE v1(x) == AddTo(x, g[1], g[2])
           v2(x) == AddTo(v1(x), g[3], g[4])
           v3(x) == XorRot(v2(x), g[2], g[3], r)
           v4(x) == XorRot(v3(x), g[4], g[1], s)
<1>1. /\ g[1] \in L /\ g[2] \in L /\ g[3] \in L /\ g[4] \in L
      /\ g[1] # g[2] /\ g[3] # g[4] /\ g[2] # g[3] /\ g[4] # g[1]
  BY DEF IsGroup
<1>2. \A x : HalfParallel(x, g, r, s) = v4(x)
  BY DEF HalfParallel
<1>3. /\ v1(w) \in States(L) /\ v1(u) \in States(L)
      /\ v1(w) = v1(u) => w = u
  BY <1>1, AddToPermutes
<1> HIDE DEF v1
<1>4. /\ v2(w) \in States(L) /\ v2(u) \in States(L)
      /\ v2(w) = v2(u) => v1(w) = v1(u)
  BY <1>1, <1>3, AddToPermutes
<1> HIDE DEF v2
<1>5. /\ v3(w) \in States(L) /\ v3(u) \in States(L)
      /\ v3(w) = v3(u) => v2(w) = v2(u)
  BY <1>1, <1>4, XorRotPermutes
<1> HIDE DEF v3
<1>6. /\ v4(w) \in States(L)
      /\ v4(w) = v4(u) => v3(w) = v3(u)
  BY <1>1, <1>5, XorRotPermutes
<1> HIDE DEF v4
<1> QED
  BY <1>2, <1>3, <1>4, <1>5, <1>6

LEMMA ShapesPermute ==
    ASSUME Fits, NEW L, NEW g, IsGroup(g, L), NEW shape \in Shapes, NEW r \in [1 .. 4 -> Nat]
    PROVE  [w \in States(L) |-> ApplyShape(shape, w, g, r)] \in Permuting(States(L))
<1>1. r[1] \in Nat /\ r[2] \in Nat /\ r[3] \in Nat /\ r[4] \in Nat
  OBVIOUS
<1>2. CASE shape = "double-cross"
  <2>1. \A w : ApplyShape(shape, w, g, r) = ApplySteps(w, g, CrossSteps(r))
    BY <1>2 DEF ApplyShape
  <2> QED
    BY <2>1, CrossIsProgram, ProgramsPermute
<1>3. CASE shape = "salsa-cycle"
  <2>1. \A w : ApplyShape(shape, w, g, r) = SalsaCycle(w, g, r)
    BY <1>3 DEF ApplyShape
  <2> QED
    BY <2>1, SalsaPermutes
<1>4. CASE shape = "chain"
  <2> DEFINE qr == <<QrStep(1, 2, 3, r[1]), QrStep(2, 3, 4, r[2]),
                     QrStep(3, 4, 1, r[3]), QrStep(4, 1, 2, r[4])>>
  <2>1. IsProgram(qr)
    <3>1. /\ IsStep(QrStep(1, 2, 3, r[1])) /\ IsStep(QrStep(2, 3, 4, r[2]))
          /\ IsStep(QrStep(3, 4, 1, r[3])) /\ IsStep(QrStep(4, 1, 2, r[4]))
      BY <1>1 DEF QrStep, IsStep
    <3> QED
      BY <3>1, FourStepsProgram
  <2>2. \A w : ApplyShape(shape, w, g, r) = ApplySteps(w, g, qr)
    BY <1>4 DEF ApplyShape
  <2> HIDE DEF qr
  <2> QED
    BY <2>1, <2>2, ProgramsPermute
<1>5. CASE shape = "wide-cross"
  <2> DEFINE qr == <<QrStep(1, 2, 4, r[1]), QrStep(3, 4, 2, r[2]),
                     QrStep(2, 3, 1, r[3]), QrStep(4, 1, 3, r[4])>>
  <2>1. IsProgram(qr)
    <3>1. /\ IsStep(QrStep(1, 2, 4, r[1])) /\ IsStep(QrStep(3, 4, 2, r[2]))
          /\ IsStep(QrStep(2, 3, 1, r[3])) /\ IsStep(QrStep(4, 1, 3, r[4]))
      BY <1>1 DEF QrStep, IsStep
    <3> QED
      BY <3>1, FourStepsProgram
  <2>2. \A w : ApplyShape(shape, w, g, r) = ApplySteps(w, g, qr)
    BY <1>5 DEF ApplyShape
  <2> HIDE DEF qr
  <2> QED
    BY <2>1, <2>2, ProgramsPermute
<1>6. CASE shape = "parallel-cross"
  <2> DEFINE once(w) == HalfParallel(w, g, r[1], r[2])
             twice(w) == HalfParallel(once(w), g, r[3], r[4])
  <2>1. \A w : ApplyShape(shape, w, g, r) = twice(w)
    BY <1>6 DEF ApplyShape
  <2>2. ASSUME NEW w \in States(L), NEW u \in States(L)
        PROVE  twice(w) \in States(L) /\ (twice(w) = twice(u) => w = u)
    <3>1. /\ once(w) \in States(L) /\ once(u) \in States(L)
          /\ once(w) = once(u) => w = u
      BY <1>1, HalfParallelPermutes
    <3> HIDE DEF once
    <3>2. /\ twice(w) \in States(L)
          /\ twice(w) = twice(u) => once(w) = once(u)
      BY <1>1, <3>1, HalfParallelPermutes
    <3> QED
      BY <3>1, <3>2
  <2> QED
    BY <2>1, <2>2 DEF Permuting
<1> QED
  BY <1>2, <1>3, <1>4, <1>5, <1>6 DEF Shapes

LEMMA PatternsPart ==
    ASSUME NEW pattern \in Patterns
    PROVE  Groups(pattern) \in Partitions /\ IsPartition(Groups(pattern))
<1>1. ASSUME NEW s \in 0 .. 3
      PROVE  DiagonalGroups(s) \in Partitions /\ IsPartition(DiagonalGroups(s))
  <2>1. \A g, k \in 1 .. 4 : 4 * (k - 1) + ((g - 1 + (k - 1) * s) % 4) \in Lanes
    <3>1. s = 0 \/ s = 1 \/ s = 2 \/ s = 3
      OBVIOUS
    <3> QED
      BY <3>1 DEF Lanes
  <2>2. DiagonalGroups(s) \in Partitions
    BY <2>1 DEF DiagonalGroups, Partitions
  <2>3. \A g, k \in 1 .. 4 : DiagonalGroups(s)[g][k] = 4 * (k - 1) + ((g - 1 + (k - 1) * s) % 4)
    BY DEF DiagonalGroups
  <2> QED
    BY <2>2, <2>3, DiagonalsPart
<1>2. CASE pattern = "row"
  <2> DEFINE p == Groups("row")
  <2>1. \A g, k \in 1 .. 4 : p[g][k] = 4 * (g - 1) + k - 1
    BY DEF Groups
  <2>2. p \in Partitions
    BY DEF Groups, Partitions, Lanes
  <2>3. ASSUME NEW lane \in Lanes PROVE \E g, k \in 1 .. 4 : p[g][k] = lane
    <3> DEFINE g == (lane \div 4) + 1
               k == (lane % 4) + 1
    <3>1. g \in 1 .. 4 /\ k \in 1 .. 4 /\ 4 * (g - 1) + k - 1 = lane
      BY DEF Lanes
    <3> HIDE DEF p
    <3> QED
      BY <2>1, <3>1
  <2> HIDE DEF p
  <2>4. \A g, k, h, j \in 1 .. 4 : p[g][k] = p[h][j] => g = h /\ k = j
    BY <2>1
  <2> QED
    BY <1>2, <2>2, <2>3, <2>4, ByPlaces DEF p
<1>3. /\ pattern = "diag-1" => Groups(pattern) = DiagonalGroups(1)
      /\ pattern = "diag-2" => Groups(pattern) = DiagonalGroups(2)
      /\ pattern = "diag-3" => Groups(pattern) = DiagonalGroups(3)
  BY DEF Groups
<1> QED
  BY <1>1, <1>2, <1>3 DEF Patterns

ShapeMaps(p, shape, rot) ==
    [n \in Nat |-> [v \in States(Lanes) |-> IF n \in 1 .. 4 THEN ApplyShape(shape, v, p[n], rot) ELSE v]]

LEMMA ShapeMapsPermute ==
    ASSUME Fits, NEW p \in Partitions, IsPartition(p), NEW shape \in Shapes, NEW rot \in [1 .. 4 -> Nat]
    PROVE  ShapeMaps(p, shape, rot) \in [Nat -> Permuting(States(Lanes))]
<1>1. ASSUME NEW n \in Nat
      PROVE  [v \in States(Lanes) |-> IF n \in 1 .. 4 THEN ApplyShape(shape, v, p[n], rot) ELSE v]
                \in Permuting(States(Lanes))
  <2>1. CASE n \in 1 .. 4
    BY <2>1, PartsAreGroups, ShapesPermute
  <2>2. CASE n \notin 1 .. 4
    BY <2>2, Identity
  <2> QED
    BY <2>1, <2>2
<1> QED
  BY <1>1 DEF ShapeMaps

LEMMA ShapesAreAChain ==
    ASSUME Fits, NEW p \in Partitions, IsPartition(p), NEW shape \in Shapes, NEW rot \in [1 .. 4 -> Nat],
           NEW w \in States(Lanes)
    PROVE  \E f \in [0 .. 4 -> States(Lanes)] :
              /\ Chain(f, w, ShapeMaps(p, shape, rot), 4)
              /\ InTurn(LAMBDA v, g : ApplyShape(shape, v, g, rot), w, p) = f[4]
<1> DEFINE S == States(Lanes)
           step == ShapeMaps(p, shape, rot)
           IsFold(f) == f = [n \in 0 .. 4 |-> IF n = 0 THEN w ELSE ApplyShape(shape, f[n - 1], p[n], rot)]
           f == CHOOSE f : IsFold(f)
<1>1. step \in [Nat -> [S -> S]]
  BY ShapeMapsPermute DEF Permuting
<1>2. \A n \in 1 .. 4 : \A v \in S : step[n][v] = ApplyShape(shape, v, p[n], rot)
  BY DEF ShapeMaps
<1>3. InTurn(LAMBDA v, g : ApplyShape(shape, v, g, rot), w, p) = f[4]
  <2>1. Len(p) = 4
    BY FourInSeq DEF Partitions
  <2> QED
    BY <2>1 DEF InTurn
<1> HIDE DEF S, step
<1>4. w \in S
  BY DEF S
<1>5. PICK e \in [0 .. 4 -> S] : Chain(e, w, step, 4)
  BY <1>1, <1>4, ChainExists
<1>6. IsFold(e)
  <2>1. \A n \in 0 .. 4 : n = 0 \/ (n \in 1 .. 4 /\ n - 1 \in 0 .. 4)
    OBVIOUS
  <2>2. \A n \in 0 .. 4 : e[n] = IF n = 0 THEN w ELSE ApplyShape(shape, e[n - 1], p[n], rot)
    BY <1>2, <1>5, <2>1 DEF Chain
  <2> QED
    BY <2>2
<1>7. IsFold(f)
  BY <1>6
<1> HIDE DEF f
<1>8. Folding(f, S, w, step, 4)
  <2>1. \A n \in 1 .. 4 : n \in 0 .. 4 /\ n # 0
    OBVIOUS
  <2>2. f = [n \in 0 .. 4 |-> f[n]] /\ f[0] = w
    BY <1>7
  <2> QED
    BY <1>2, <1>7, <2>1, <2>2 DEF Folding
<1>9. f \in [0 .. 4 -> S] /\ Chain(f, w, step, 4)
  <2> HIDE DEF IsFold
  <2> QED
    BY <1>1, <1>4, <1>8, FoldsAreChains
<1> QED
  BY <1>3, <1>9 DEF S, step

(* Every pattern deals the lanes out, and a round of any structure over it *)
(* is invertible (arx_structure.rs:39, 150).                               *)
THEOREM StructuresPermute ==
    ASSUME Fits, NEW shape \in Shapes, NEW pattern \in Patterns, NEW rot \in [1 .. 4 -> Nat],
           NEW round \in Nat
    PROVE  /\ IsPartition(ColumnGroups) /\ IsPartition(Groups(pattern))
           /\ [w \in States(Lanes) |-> StructureRound(w, shape, pattern, rot, round)]
                 \in Bijection(States(Lanes), States(Lanes))
<1> DEFINE h == [w \in States(Lanes) |-> StructureRound(w, shape, pattern, rot, round)]
           S == States(Lanes)
           p == IF round % 2 = 0 THEN ColumnGroups ELSE Groups(pattern)
           step == ShapeMaps(p, shape, rot)
<1>1. ColumnGroups \in Partitions /\ IsPartition(ColumnGroups)
  <2>1. \A g, k \in 1 .. 4 : ColumnGroups[g][k] = 4 * (k - 1) + ((g - 1 + (k - 1) * 0) % 4)
    BY DEF ColumnGroups
  <2> QED
    BY <2>1, ChaChaGroups, DiagonalsPart
<1>2. p \in Partitions /\ IsPartition(p)
  BY <1>1, PatternsPart
<1>3. \A w \in S : StructureRound(w, shape, pattern, rot, round)
                   = InTurn(LAMBDA v, g : ApplyShape(shape, v, g, rot), w, p)
  BY DEF StructureRound
<1> HIDE DEF p
<1>4. \A w \in S : \E f \in [0 .. 4 -> S] : Chain(f, w, step, 4) /\ h[w] = f[4]
  BY <1>2, <1>3, ShapesAreAChain
<1>5. h = [s \in S |-> h[s]]
  OBVIOUS
<1>6. step \in [Nat -> Permuting(S)]
  BY <1>2, ShapeMapsPermute
<1>7. IsFiniteSet(S)
  BY FiniteLanes, FiniteStates
<1> HIDE DEF h, S, step
<1>8. h \in Permuting(S)
  BY <1>4, <1>5, <1>6, ChainsPermute, ZenonT(40)
<1>9. h \in Bijection(S, S)
  BY <1>7, <1>8, PermutingIsBijection
<1> QED
  BY <1>1, <1>9, PatternsPart DEF h, S

-----------------------------------------------------------------------------
(* How far a difference spreads. *)
LEMMA SameChain ==
    ASSUME NEW S, NEW s, NEW step, NEW N \in Nat, NEW M \in Nat, NEW f, NEW g,
           Chain(f, s, step, N), Chain(g, s, step, M)
    PROVE  \A n \in Nat : n <= N /\ n <= M => f[n] = g[n]
<1> DEFINE T == {n \in Nat : n <= N /\ n <= M => f[n] = g[n]}
<1>1. 0 \in T
  BY DEF Chain
<1>2. ASSUME NEW n \in Nat, n \in T
      PROVE  n + 1 \in T
  <2>1. SUFFICES ASSUME n + 1 <= N, n + 1 <= M PROVE f[n + 1] = g[n + 1]
    OBVIOUS
  <2>2. n + 1 \in 1 .. N /\ n + 1 \in 1 .. M /\ (n + 1) - 1 = n /\ n <= N /\ n <= M
    BY <2>1
  <2>3. f[n + 1] = step[n + 1][f[n]] /\ g[n + 1] = step[n + 1][g[n]]
    BY <2>2 DEF Chain
  <2> QED
    BY <1>2, <2>2, <2>3
<1>3. Nat \subseteq T
  <2> HIDE DEF T
  <2> QED
    BY <1>1, <1>2, Induction
<1> QED
  BY <1>3

Nearby(t, lanes) == UNION {c \in Cliques(t) : c \cap lanes # {}}

Hops(t) == [n \in Nat |-> [X \in SUBSET Lanes |-> IF X = Lanes THEN Lanes ELSE Nearby(t, X)]]

LEMMA CliquesOf ==
    ASSUME NEW t \in Topologies
    PROVE  /\ \A c \in Cliques(t) : c \subseteq Lanes
           /\ \A i \in 1 .. 2, k \in 1 .. 4 : ToSet(t[i][k]) \in Cliques(t)
           /\ \A i \in 1 .. 2, k \in 1 .. 4 : ToSet(t[i][k]) = {t[i][k][j] : j \in 1 .. 4}
<1>1. /\ DOMAIN t = 1 .. 2
      /\ \A i \in 1 .. 2 : DOMAIN t[i] = 1 .. 4 /\ \A k \in 1 .. 4 : t[i][k] \in [1 .. 4 -> Lanes]
  BY DEF Topologies, Partitions
<1>2. \A i \in 1 .. 2, k \in 1 .. 4 : ToSet(t[i][k]) = {t[i][k][j] : j \in 1 .. 4}
  BY <1>1 DEF ToSet
<1>3. ToSet(t) = {t[i] : i \in 1 .. 2} /\ \A i \in 1 .. 2 : ToSet(t[i]) = {t[i][k] : k \in 1 .. 4}
  BY <1>1 DEF ToSet
<1>4. Cliques(t) = UNION {{ToSet(t[i][k]) : k \in 1 .. 4} : i \in 1 .. 2}
  <2>1. ASSUME NEW i \in 1 .. 2
        PROVE  {ToSet(g) : g \in ToSet(t[i])} = {ToSet(t[i][k]) : k \in 1 .. 4}
    BY <1>3
  <2>2. Cliques(t) = UNION {{ToSet(g) : g \in ToSet(t[i])} : i \in 1 .. 2}
    BY <1>3 DEF Cliques
  <2> QED
    BY <2>1, <2>2
<1> QED
  BY <1>1, <1>2, <1>4

LEMMA BallsAreAChain ==
    ASSUME NEW t \in Topologies, NEW lane \in Lanes, NEW d \in Nat
    PROVE  \E f \in [0 .. d -> SUBSET Lanes] :
              Chain(f, {lane}, Hops(t), d) /\ Ball(t, lane, d) = f[d]
<1> DEFINE S == SUBSET Lanes
           step == Hops(t)
           Next1(X) == IF X = Lanes THEN Lanes ELSE Nearby(t, X)
           IsFold(f) == f = [n \in 0 .. d |-> IF n = 0 THEN {lane} ELSE Next1(f[n - 1])]
           f == CHOOSE f : IsFold(f)
<1>1. step \in [Nat -> [S -> S]]
  <2>1. \A X : Nearby(t, X) \in S
    BY CliquesOf DEF Nearby
  <2> QED
    BY <2>1 DEF Hops
<1>2. \A n \in 1 .. d : \A X \in S : step[n][X] = Next1(X)
  BY DEF Hops
<1>3. Ball(t, lane, d) = f[d]
  BY DEF Ball, Nearby
<1> HIDE DEF S, step, Next1
<1>4. {lane} \in S
  BY DEF S
<1>5. PICK e \in [0 .. d -> S] : Chain(e, {lane}, step, d)
  BY <1>1, <1>4, ChainExists
<1>6. IsFold(e)
  <2>1. \A n \in 0 .. d : n = 0 \/ (n \in 1 .. d /\ n - 1 \in 0 .. d)
    OBVIOUS
  <2>2. \A n \in 0 .. d : e[n] = IF n = 0 THEN {lane} ELSE Next1(e[n - 1])
    BY <1>2, <1>5, <2>1 DEF Chain
  <2> QED
    BY <2>2
<1>7. IsFold(f)
  BY <1>6
<1> HIDE DEF f
<1>8. Folding(f, S, {lane}, step, d)
  <2>1. \A n \in 1 .. d : n \in 0 .. d /\ n # 0
    OBVIOUS
  <2>2. f = [n \in 0 .. d |-> f[n]] /\ f[0] = {lane}
    BY <1>7
  <2> QED
    BY <1>2, <1>7, <2>1, <2>2 DEF Folding
<1>9. f \in [0 .. d -> S] /\ Chain(f, {lane}, step, d)
  <2> HIDE DEF IsFold
  <2> QED
    BY <1>1, <1>4, <1>8, FoldsAreChains
<1> QED
  BY <1>3, <1>9 DEF S, step

(* One more hop. *)
LEMMA BallGrows ==
    ASSUME NEW t \in Topologies, NEW lane \in Lanes, NEW d \in Nat
    PROVE  /\ Ball(t, lane, 0) = {lane}
           /\ Ball(t, lane, d) \subseteq Lanes
           /\ Ball(t, lane, d + 1) =
                 IF Ball(t, lane, d) = Lanes THEN Lanes ELSE Nearby(t, Ball(t, lane, d))
<1>1. PICK f \in [0 .. d -> SUBSET Lanes] : Chain(f, {lane}, Hops(t), d) /\ Ball(t, lane, d) = f[d]
  BY BallsAreAChain
<1>2. PICK g \in [0 .. d + 1 -> SUBSET Lanes] :
         Chain(g, {lane}, Hops(t), d + 1) /\ Ball(t, lane, d + 1) = g[d + 1]
  <2>1. d + 1 \in Nat
    OBVIOUS
  <2> QED
    BY <2>1, BallsAreAChain
<1>3. PICK b \in [0 .. 0 -> SUBSET Lanes] : Chain(b, {lane}, Hops(t), 0) /\ Ball(t, lane, 0) = b[0]
  <2>1. 0 \in Nat
    OBVIOUS
  <2> QED
    BY <2>1, BallsAreAChain
<1>4. f[d] = g[d]
  <2>1. d + 1 \in Nat /\ d <= d /\ d <= d + 1
    OBVIOUS
  <2> QED
    BY <1>1, <1>2, <2>1, SameChain
<1>5. g[d + 1] = Hops(t)[d + 1][g[d]]
  <2>1. d + 1 \in 1 .. d + 1 /\ (d + 1) - 1 = d
    OBVIOUS
  <2> QED
    BY <1>2, <2>1 DEF Chain
<1>6. d + 1 \in Nat /\ d \in 0 .. d
  OBVIOUS
<1>7. f[d] \in SUBSET Lanes
  BY <1>6
<1>8. Hops(t)[d + 1][f[d]] = IF f[d] = Lanes THEN Lanes ELSE Nearby(t, f[d])
  BY <1>6, <1>7 DEF Hops
<1>9. Ball(t, lane, 0) = {lane}
  BY <1>3 DEF Chain
<1> QED
  BY <1>1, <1>2, <1>4, <1>5, <1>7, <1>8, <1>9

Agree(v, u, X) == \A i \in Lanes : i \notin X => v[i] = u[i]

(* A difference that has all of a group, or none of it, stays where it is. *)
LEMMA StepConfines ==
    ASSUME Fits, NEW g, IsGroup(g, Lanes), NEW s, IsStep(s), NEW X,
           (\A j \in 1 .. 4 : g[j] \in X) \/ (\A j \in 1 .. 4 : g[j] \notin X),
           NEW v \in States(Lanes), NEW u \in States(Lanes), Agree(v, u, X)
    PROVE  Agree(ApplyStep(v, g, s), ApplyStep(u, g, s), X)
<1> DEFINE a == g[s.add_to]
           b == g[s.add_from]
           d == g[s.xor_into]
           Mid(w) == AddTo(w, a, b)
           Out(w) == XorRot(Mid(w), d, a, s.rot)
<1>1. /\ a \in Lanes /\ b \in Lanes /\ d \in Lanes /\ a # b /\ d # a
      /\ (a \in X /\ b \in X /\ d \in X) \/ (a \notin X /\ b \notin X /\ d \notin X)
  BY DEF IsGroup, IsStep
<1>2. \A w : ApplyStep(w, g, s) = Out(w)
  BY DEF ApplyStep
<1> HIDE DEF a, b, d
<1>3. Mid(v) \in States(Lanes) /\ Mid(u) \in States(Lanes)
  BY <1>1, AddToPermutes
<1>4. \A w \in States(Lanes) : Mid(w)[a] = Plus(w[a], w[b]) /\ \A i \in Lanes : i # a => Mid(w)[i] = w[i]
  BY <1>1 DEF AddTo, States
<1> HIDE DEF Mid
<1>5. \A w : Mid(w) \in States(Lanes) =>
         /\ Out(w)[d] = Rotl(Xor(Mid(w)[d], Mid(w)[a]), s.rot, WordSize)
         /\ \A i \in Lanes : i # d => Out(w)[i] = Mid(w)[i]
  BY <1>1 DEF XorRot, States
<1> HIDE DEF Out
<1>6. ASSUME NEW i \in Lanes, i \notin X
      PROVE  Out(v)[i] = Out(u)[i]
  <2>1. CASE a \in X /\ b \in X /\ d \in X
    BY <1>3, <1>4, <1>5, <1>6, <2>1 DEF Agree
  <2>2. CASE a \notin X /\ b \notin X /\ d \notin X
    <3>1. v[a] = u[a] /\ v[b] = u[b] /\ v[d] = u[d] /\ v[i] = u[i]
      BY <1>1, <1>6, <2>2 DEF Agree
    <3>2. Mid(v)[a] = Mid(u)[a] /\ Mid(v)[d] = Mid(u)[d] /\ Mid(v)[i] = Mid(u)[i]
      BY <1>1, <1>4, <3>1
    <3> QED
      BY <1>3, <1>5, <3>2
  <2> QED
    BY <1>1, <2>1, <2>2
<1> QED
  BY <1>2, <1>6 DEF Agree

LEMMA GroupConfines ==
    ASSUME Fits, NEW g, IsGroup(g, Lanes), NEW qr, IsProgram(qr), NEW X,
           (\A j \in 1 .. 4 : g[j] \in X) \/ (\A j \in 1 .. 4 : g[j] \notin X),
           NEW v \in States(Lanes), NEW u \in States(Lanes), Agree(v, u, X)
    PROVE  Agree(ApplySteps(v, g, qr), ApplySteps(u, g, qr), X)
<1> DEFINE N == Len(qr)
           step == StepMaps(Lanes, g, qr)
<1>1. PICK f \in [0 .. N -> States(Lanes)] : Chain(f, v, step, N) /\ ApplySteps(v, g, qr) = f[N]
  BY StepsAreAChain
<1>2. PICK h \in [0 .. N -> States(Lanes)] : Chain(h, u, step, N) /\ ApplySteps(u, g, qr) = h[N]
  BY StepsAreAChain
<1>3. N \in Nat
  BY DEF IsProgram
<1> DEFINE T == {n \in Nat : n <= N => Agree(f[n], h[n], X)}
<1>4. 0 \in T
  BY <1>1, <1>2 DEF Chain
<1>5. ASSUME NEW n \in Nat, n \in T
      PROVE  n + 1 \in T
  <2>1. SUFFICES ASSUME n + 1 <= N PROVE Agree(f[n + 1], h[n + 1], X)
    OBVIOUS
  <2>2. n + 1 \in 1 .. N /\ (n + 1) - 1 = n /\ n \in 0 .. N /\ n <= N /\ n + 1 \in Nat
    BY <1>3, <2>1
  <2>3. f[n] \in States(Lanes) /\ h[n] \in States(Lanes) /\ Agree(f[n], h[n], X)
    BY <1>5, <2>2
  <2>4. f[n + 1] = step[n + 1][f[n]] /\ h[n + 1] = step[n + 1][h[n]]
    BY <1>1, <1>2, <2>2 DEF Chain
  <2>5. f[n + 1] = ApplyStep(f[n], g, qr[n + 1]) /\ h[n + 1] = ApplyStep(h[n], g, qr[n + 1])
    BY <2>2, <2>3, <2>4 DEF StepMaps
  <2>6. IsStep(qr[n + 1])
    BY <2>2 DEF IsProgram
  <2> QED
    BY <2>3, <2>5, <2>6, StepConfines
<1>6. Nat \subseteq T
  <2> HIDE DEF T
  <2> QED
    BY <1>4, <1>5, Induction
<1>7. N <= N
  BY <1>3
<1> QED
  BY <1>1, <1>2, <1>3, <1>6, <1>7

LEMMA RoundConfines ==
    ASSUME Fits, NEW t \in Topologies, NEW qr, IsProgram(qr), NEW round \in Nat,
           NEW X \in SUBSET Lanes,
           NEW v \in States(Lanes), NEW u \in States(Lanes), Agree(v, u, X)
    PROVE  Agree(TopologyRound(v, t, qr, round), TopologyRound(u, t, qr, round), Nearby(t, X))
<1> DEFINE i == (round % 2) + 1
           p == t[i]
           Y == {lane \in Lanes : \E k, j, m \in 1 .. 4 : p[k][j] = lane /\ p[k][m] \in X}
           step == GroupMaps(p, qr)
<1>1. i \in 1 .. 2 /\ p \in Partitions /\ IsPartition(p)
  <2>1. i \in 1 .. 2 /\ DOMAIN t = 1 .. 2
    BY DEF Topologies
  <2>2. p \in ToSet(t)
    BY <2>1 DEF ToSet
  <2> QED
    BY <2>1, <2>2 DEF Topologies, IsBalanced
<1>2. PICK f \in [0 .. 4 -> States(Lanes)] : Chain(f, v, step, 4) /\ TopologyRound(v, t, qr, round) = f[4]
  BY GroupsAreAChain, ZenonT(40)
<1>3. PICK h \in [0 .. 4 -> States(Lanes)] : Chain(h, u, step, 4) /\ TopologyRound(u, t, qr, round) = h[4]
  BY GroupsAreAChain, ZenonT(40)
<1>4. Y \subseteq Nearby(t, X)
  <2>1. ASSUME NEW k \in 1 .. 4, NEW j \in 1 .. 4, NEW m \in 1 .. 4, t[i][k][m] \in X
        PROVE  t[i][k][j] \in Nearby(t, X)
    <3>1. i \in 1 .. 2
      BY <1>1
    <3> HIDE DEF i
    <3>2. ToSet(t[i][k]) \in Cliques(t) /\ ToSet(t[i][k]) = {t[i][k][e] : e \in 1 .. 4}
      BY <3>1, CliquesOf
    <3>3. t[i][k][j] \in ToSet(t[i][k]) /\ t[i][k][m] \in ToSet(t[i][k])
      BY <3>2
    <3> QED
      BY <2>1, <3>2, <3>3 DEF Nearby
  <2> QED
    BY <2>1
<1> HIDE DEF i, p
<1>5. X \subseteq Y /\ \A k, j \in 1 .. 4 : p[k][j] \in Lanes
  <2>1. \A k, j \in 1 .. 4 : p[k][j] \in Lanes
    BY <1>1 DEF Partitions
  <2>2. \A lane \in Lanes : \E k, j \in 1 .. 4 : p[k][j] = lane
    BY <1>1, ByPlaces
  <2> QED
    BY <2>1, <2>2
<1>6. ASSUME NEW k \in 1 .. 4
      PROVE  (\A j \in 1 .. 4 : p[k][j] \in Y) \/ (\A j \in 1 .. 4 : p[k][j] \notin Y)
  <2>1. CASE \E m \in 1 .. 4 : p[k][m] \in X
    BY <1>5, <2>1
  <2>2. CASE \A m \in 1 .. 4 : p[k][m] \notin X
    <3>1. \A g, e, j, m \in 1 .. 4 : p[g][e] = p[j][m] => g = j /\ e = m
      BY <1>1, ByPlaces
    <3> QED
      BY <2>2, <3>1
  <2> QED
    BY <2>1, <2>2
<1> HIDE DEF Y
<1>7. ASSUME NEW n \in 1 .. 4, Agree(f[n - 1], h[n - 1], Y)
      PROVE  Agree(f[n], h[n], Y)
  <2>1. n \in Nat /\ n - 1 \in 0 .. 4
    OBVIOUS
  <2>2. f[n - 1] \in States(Lanes) /\ h[n - 1] \in States(Lanes)
    BY <2>1
  <2>3. f[n] = ApplySteps(f[n - 1], p[n], qr) /\ h[n] = ApplySteps(h[n - 1], p[n], qr)
    BY <1>2, <1>3, <2>1, <2>2 DEF Chain, GroupMaps
  <2>4. IsGroup(p[n], Lanes)
    BY <1>1, PartsAreGroups
  <2> QED
    BY <1>6, <1>7, <2>2, <2>3, <2>4, GroupConfines
<1>8. Agree(f[0], h[0], Y)
  BY <1>2, <1>3, <1>5 DEF Chain, Agree
<1>9. Agree(f[4], h[4], Y)
  <2>1. /\ 1 \in 1 .. 4 /\ 2 \in 1 .. 4 /\ 3 \in 1 .. 4 /\ 4 \in 1 .. 4
        /\ 1 - 1 = 0 /\ 2 - 1 = 1 /\ 3 - 1 = 2 /\ 4 - 1 = 3
    OBVIOUS
  <2>2. Agree(f[1], h[1], Y)
    BY <1>7, <1>8, <2>1
  <2>3. Agree(f[2], h[2], Y)
    BY <1>7, <2>1, <2>2
  <2>4. Agree(f[3], h[3], Y)
    BY <1>7, <2>1, <2>3
  <2> QED
    BY <1>7, <2>1, <2>4
<1> QED
  BY <1>2, <1>3, <1>4, <1>9 DEF Agree

(* Two states that differ in one lane only, after any number of rounds     *)
(* over a balanced wiring, differ only in lanes that many hops away        *)
(* (topology.rs:128, 148).                                                 *)
THEOREM FlipsTravelOneHop ==
    ASSUME Fits, NEW t \in Topologies, NEW qr, IsLegal(qr), qr \in Seq(Range(qr)),
           NEW rounds \in Nat, NEW lane \in Lanes,
           NEW v \in States(Lanes), NEW u \in States(Lanes),
           \A i \in Lanes : i # lane => v[i] = u[i]
    PROVE  \A i \in Lanes : TopologyRounds(v, t, qr, rounds)[i] # TopologyRounds(u, t, qr, rounds)[i]
              => i \in Ball(t, lane, rounds)
<1> DEFINE step == RoundMaps(t, qr)
           N == rounds
<1>1. IsProgram(qr)
  BY LegalIsProgram
<1>2. PICK f \in [0 .. N -> States(Lanes)] : Chain(f, v, step, N) /\ TopologyRounds(v, t, qr, N) = f[N]
  BY <1>1, RoundsAreAChain
<1>3. PICK h \in [0 .. N -> States(Lanes)] : Chain(h, u, step, N) /\ TopologyRounds(u, t, qr, N) = h[N]
  BY <1>1, RoundsAreAChain
<1> DEFINE T == {n \in Nat : n <= N => Agree(f[n], h[n], Ball(t, lane, n))}
<1>4. 0 \in T
  <2>1. Ball(t, lane, 0) = {lane}
    BY BallGrows
  <2>2. f[0] = v /\ h[0] = u
    BY <1>2, <1>3 DEF Chain
  <2> QED
    BY <2>1, <2>2 DEF Agree
<1>5. ASSUME NEW n \in Nat, n \in T
      PROVE  n + 1 \in T
  <2>1. SUFFICES ASSUME n + 1 <= N PROVE Agree(f[n + 1], h[n + 1], Ball(t, lane, n + 1))
    OBVIOUS
  <2>2. n + 1 \in 1 .. N /\ (n + 1) - 1 = n /\ n \in 0 .. N /\ n <= N /\ n + 1 \in Nat /\ n + 1 # 0
    BY <2>1
  <2>3. f[n] \in States(Lanes) /\ h[n] \in States(Lanes) /\ Agree(f[n], h[n], Ball(t, lane, n))
    BY <1>5, <2>2
  <2>4. f[n + 1] = step[n + 1][f[n]] /\ h[n + 1] = step[n + 1][h[n]]
    BY <1>2, <1>3, <2>2 DEF Chain
  <2>5. f[n + 1] = TopologyRound(f[n], t, qr, n) /\ h[n + 1] = TopologyRound(h[n], t, qr, n)
    BY <2>2, <2>3, <2>4 DEF RoundMaps
  <2>6. Ball(t, lane, n) \in SUBSET Lanes
    BY BallGrows
  <2>7. Agree(f[n + 1], h[n + 1], Nearby(t, Ball(t, lane, n)))
    BY <1>1, <2>3, <2>5, <2>6, RoundConfines
  <2>8. Ball(t, lane, n + 1) =
           IF Ball(t, lane, n) = Lanes THEN Lanes ELSE Nearby(t, Ball(t, lane, n))
    BY BallGrows
  <2> QED
    BY <2>7, <2>8 DEF Agree
<1>6. Nat \subseteq T
  <2> HIDE DEF T
  <2> QED
    BY <1>4, <1>5, Induction
<1>7. Agree(f[N], h[N], Ball(t, lane, N))
  <2>1. N <= N
    OBVIOUS
  <2> QED
    BY <1>6, <2>1
<1> QED
  BY <1>2, <1>3, <1>7 DEF Agree

-----------------------------------------------------------------------------
(* The diameter. *)
LEMMA BallStays ==
    ASSUME NEW t \in Topologies, NEW lane \in Lanes, NEW d \in Nat, Ball(t, lane, d) = Lanes
    PROVE  \A m \in Nat : m >= d => Ball(t, lane, m) = Lanes
<1> DEFINE T == {n \in Nat : Ball(t, lane, d + n) = Lanes}
<1>1. 0 \in T
  <2>1. d + 0 = d
    OBVIOUS
  <2> QED
    BY <2>1
<1>2. ASSUME NEW n \in Nat, n \in T
      PROVE  n + 1 \in T
  <2>1. d + (n + 1) = (d + n) + 1 /\ d + n \in Nat
    OBVIOUS
  <2> QED
    BY <1>2, <2>1, BallGrows
<1>3. Nat \subseteq T
  <2> HIDE DEF T
  <2> QED
    BY <1>1, <1>2, Induction
<1>4. \A m \in Nat : m >= d => m - d \in Nat /\ d + (m - d) = m
  OBVIOUS
<1> QED
  BY <1>3, <1>4

LEMMA Least ==
    ASSUME NEW P \in SUBSET Nat, NEW some \in P
    PROVE  \E m \in P : \A k \in P : m <= k
<1> DEFINE T == {n \in Nat : (\E k \in P : k <= n) => \E m \in P : \A k \in P : m <= k}
<1>1. 0 \in T
  OBVIOUS
<1>2. ASSUME NEW n \in Nat, n \in T
      PROVE  n + 1 \in T
  <2>1. CASE \E k \in P : k <= n
    BY <1>2, <2>1
  <2>2. CASE \A k \in P : ~ (k <= n)
    <3>1. \A k \in P : n + 1 <= k
      BY <2>2
    <3> QED
      BY <3>1
  <2> QED
    BY <2>1, <2>2
<1>3. Nat \subseteq T
  <2> HIDE DEF T
  <2> QED
    BY <1>1, <1>2, Induction
<1>4. some \in Nat /\ some <= some
  OBVIOUS
<1> QED
  BY <1>3, <1>4

(* What the search for the farthest lane returns. *)
LEMMA DiameterMeasures ==
    ASSUME NEW t \in Topologies
    PROVE  \/ /\ Diameter(t) = 16
              /\ \E u \in Lanes : Ball(t, u, 15) # Lanes
           \/ /\ Diameter(t) \in 0 .. 15
              /\ \A u \in Lanes : Ball(t, u, Diameter(t)) = Lanes
              /\ Diameter(t) = 0 \/ \E u \in Lanes : Ball(t, u, Diameter(t) - 1) # Lanes
<1> DEFINE Full(d) == \A u \in Lanes : Ball(t, u, d) = Lanes
           Nearest(d) == Full(d) /\ (d = 0 \/ ~ Full(d - 1))
<1>1. CASE \E u \in Lanes : Ball(t, u, 15) # Lanes
  BY <1>1 DEF Diameter
<1>2. CASE \A u \in Lanes : Ball(t, u, 15) = Lanes
  <2>1. Diameter(t) = CHOOSE d \in 0 .. 15 : Nearest(d)
    BY <1>2 DEF Diameter
  <2>2. Full(15)
    BY <1>2
  <2> HIDE DEF Full
  <2> DEFINE P == {d \in Nat : Full(d)}
  <2>3. P \in SUBSET Nat /\ 15 \in P
    BY <2>2
  <2>4. PICK m \in P : \A k \in P : m <= k
    <3> HIDE DEF P
    <3> QED
      BY <2>3, Least
  <2>5. m \in 0 .. 15 /\ Nearest(m)
    BY <2>3, <2>4
  <2>6. Diameter(t) \in 0 .. 15 /\ Nearest(Diameter(t))
    BY <2>1, <2>5
  <2> QED
    BY <2>6 DEF Full
<1> QED
  BY <1>1, <1>2

LEMMA PrunedIsFar ==
    ASSUME NEW t \in Topologies, Prunes(t)
    PROVE  \E lane \in Lanes : Ball(t, lane, 3) # Lanes
<1>1. Diameter(t) > 3
  BY DEF Prunes, ScreenRounds
<1>2. CASE \E u \in Lanes : Ball(t, u, 15) # Lanes
  <2>1. 3 \in Nat /\ 15 \in Nat /\ 15 >= 3
    OBVIOUS
  <2> QED
    BY <1>2, <2>1, BallStays
<1>3. CASE /\ Diameter(t) \in 0 .. 15
           /\ Diameter(t) = 0 \/ \E u \in Lanes : Ball(t, u, Diameter(t) - 1) # Lanes
  <2>1. 3 \in Nat /\ Diameter(t) - 1 \in Nat /\ Diameter(t) - 1 >= 3 /\ Diameter(t) # 0
    BY <1>1, <1>3
  <2> QED
    BY <1>3, <2>1, BallStays
<1> QED
  BY <1>2, <1>3, DiameterMeasures

(* What the screen prunes could not have passed: some flip leaves some     *)
(* lane alone in the rounds of the screen, whatever the state              *)
(* (topology_search.rs:131).                                               *)
THEOREM PruningIsSound ==
    ASSUME Fits, NEW t \in Topologies, Prunes(t), NEW qr, IsLegal(qr), qr \in Seq(Range(qr))
    PROVE  \E lane, i \in Lanes :
              \A v, u \in States(Lanes) :
                 (\A k \in Lanes : k # lane => v[k] = u[k])
                 => TopologyRounds(v, t, qr, ScreenRounds)[i] = TopologyRounds(u, t, qr, ScreenRounds)[i]
<1>1. Diameter(t) > 3 /\ ScreenRounds = 3
  BY DEF Prunes, ScreenRounds
<1>2. PICK lane \in Lanes : Ball(t, lane, 3) # Lanes
  BY PrunedIsFar
<1>3. Ball(t, lane, 3) \subseteq Lanes
  BY BallGrows
<1>4. PICK i \in Lanes : i \notin Ball(t, lane, 3)
  BY <1>2, <1>3
<1>5. 3 \in Nat
  OBVIOUS
<1>6. ASSUME NEW v \in States(Lanes), NEW u \in States(Lanes),
             \A k \in Lanes : k # lane => v[k] = u[k]
      PROVE  TopologyRounds(v, t, qr, 3)[i] = TopologyRounds(u, t, qr, 3)[i]
  BY <1>4, <1>5, <1>6, FlipsTravelOneHop
<1> QED
  BY <1>1, <1>6

LEMMA BallTakes ==
    ASSUME NEW t \in Topologies, NEW lane \in Lanes, NEW d \in Nat,
           NEW c \in Cliques(t), c \cap Ball(t, lane, d) # {}
    PROVE  c \subseteq Ball(t, lane, d + 1)
<1>1. c \subseteq Lanes
  BY CliquesOf
<1>2. Ball(t, lane, d + 1) = IF Ball(t, lane, d) = Lanes THEN Lanes ELSE Nearby(t, Ball(t, lane, d))
  BY BallGrows
<1> QED
  BY <1>1, <1>2 DEF Nearby

(* One group that meets a group of every lane holds a wiring together. *)
LEMMA HubConnects ==
    ASSUME NEW t \in Topologies, NEW hub \in Cliques(t),
           \A lane \in Lanes : \E c \in Cliques(t) : lane \in c /\ c \cap hub # {}
    PROVE  Diameter(t) # Disconnected
<1>1. ASSUME NEW u \in Lanes PROVE Ball(t, u, 3) = Lanes
  <2>1. PICK c \in Cliques(t) : u \in c /\ c \cap hub # {}
    OBVIOUS
  <2>2. Ball(t, u, 0) = {u}
    BY BallGrows
  <2>3. c \subseteq Ball(t, u, 1)
    <3>1. 0 \in Nat /\ 0 + 1 = 1
      OBVIOUS
    <3>2. c \cap Ball(t, u, 0) # {}
      BY <2>1, <2>2
    <3> QED
      BY <3>1, <3>2, BallTakes
  <2>4. hub \subseteq Ball(t, u, 2)
    <3>1. 1 \in Nat /\ 1 + 1 = 2
      OBVIOUS
    <3>2. hub \cap Ball(t, u, 1) # {}
      BY <2>1, <2>3
    <3> QED
      BY <3>1, <3>2, BallTakes
  <2>5. ASSUME NEW lane \in Lanes PROVE lane \in Ball(t, u, 3)
    <3>1. 2 \in Nat /\ 2 + 1 = 3
      OBVIOUS
    <3>2. PICK e \in Cliques(t) : lane \in e /\ e \cap hub # {}
      OBVIOUS
    <3>3. e \cap Ball(t, u, 2) # {}
      BY <2>4, <3>2
    <3>4. e \subseteq Ball(t, u, 3)
      BY <3>1, <3>3, BallTakes
    <3> QED
      BY <3>2, <3>4
  <2>6. Ball(t, u, 3) \subseteq Lanes
    <3>1. 3 \in Nat
      OBVIOUS
    <3> QED
      BY <3>1, BallGrows
  <2> QED
    BY <2>5, <2>6
<1>2. \A u \in Lanes : Ball(t, u, 15) = Lanes
  <2>1. 3 \in Nat /\ 15 \in Nat /\ 15 >= 3
    OBVIOUS
  <2> QED
    BY <1>1, <2>1, BallStays
<1>3. Diameter(t) \in 0 .. 15
  BY <1>2, DiameterMeasures
<1> QED
  BY <1>3 DEF Disconnected

-----------------------------------------------------------------------------
(* The wirings of the climbs. *)
LEMMA PairOfPartitions ==
    ASSUME NEW p \in Partitions, NEW q \in Partitions, IsPartition(p), IsPartition(q)
    PROVE  <<p, q>> \in Topologies
<1>1. ToSet(<<p, q>>) = {p, q}
  BY DEF ToSet
<1>2. <<p, q>> \in [1 .. 2 -> Partitions]
  OBVIOUS
<1> QED
  BY <1>1, <1>2 DEF Topologies, IsBalanced

LEMMA BestRandomHolds == BestRandom \in Topologies /\ Diameter(BestRandom) # Disconnected
<1> DEFINE a == BestRandom[1]
           b == BestRandom[2]
<1>1. \A g \in 1 .. 4 : g = 1 \/ g = 2 \/ g = 3 \/ g = 4
  OBVIOUS
<1>2. a \in Partitions /\ b \in Partitions
  BY DEF BestRandom, Partitions, Lanes
<1>3. IsPartition(a)
  <2>1. \A lane \in Lanes : \E g, k \in 1 .. 4 : a[g][k] = lane
    BY DEF BestRandom, Lanes
  <2>2. \A g, k, h, j \in 1 .. 4 : a[g][k] = a[h][j] => g = h /\ k = j
    BY <1>1 DEF BestRandom
  <2> QED
    BY <1>2, <2>1, <2>2, ByPlaces
<1>4. IsPartition(b)
  <2>1. \A lane \in Lanes : \E g, k \in 1 .. 4 : b[g][k] = lane
    BY DEF BestRandom, Lanes
  <2>2. \A g, k, h, j \in 1 .. 4 : b[g][k] = b[h][j] => g = h /\ k = j
    BY <1>1 DEF BestRandom
  <2> QED
    BY <1>2, <2>1, <2>2, ByPlaces
<1>5. BestRandom = <<a, b>>
  BY DEF BestRandom
<1>6. BestRandom \in Topologies
  <2> HIDE DEF a, b
  <2> QED
    BY <1>2, <1>3, <1>4, <1>5, PairOfPartitions
<1>7. ToSet(a[3]) = {a[3][j] : j \in 1 .. 4} /\ \A k \in 1 .. 4 : ToSet(b[k]) = {b[k][j] : j \in 1 .. 4}
  <2>1. 1 \in 1 .. 2 /\ 2 \in 1 .. 2 /\ 3 \in 1 .. 4
    OBVIOUS
  <2> QED
    BY <1>6, <2>1, CliquesOf
<1>8. \A k \in 1 .. 4 : ToSet(b[k]) \cap ToSet(a[3]) # {}
  <2>1. a[3][1] = b[2][2] /\ a[3][2] = b[1][4] /\ a[3][3] = b[3][4] /\ a[3][4] = b[4][3]
    BY DEF BestRandom
  <2> HIDE DEF a, b
  <2> QED
    BY <1>1, <1>7, <2>1
<1>9. ToSet(a[3]) \in Cliques(BestRandom) /\ \A k \in 1 .. 4 : ToSet(b[k]) \in Cliques(BestRandom)
  <2>1. 1 \in 1 .. 2 /\ 2 \in 1 .. 2 /\ 3 \in 1 .. 4
    OBVIOUS
  <2> QED
    BY <1>6, <2>1, CliquesOf
<1> HIDE DEF a, b
<1>10. \A lane \in Lanes : \E k \in 1 .. 4 : lane \in ToSet(b[k])
  BY <1>2, <1>4, <1>7, ByPlaces
<1> QED
  BY <1>6, <1>8, <1>9, <1>10, HubConnects

LEMMA BestClimbedHolds == BestClimbed \in Topologies /\ Diameter(BestClimbed) # Disconnected
<1> DEFINE a == BestClimbed[1]
           b == BestClimbed[2]
<1>1. \A g \in 1 .. 4 : g = 1 \/ g = 2 \/ g = 3 \/ g = 4
  OBVIOUS
<1>2. a \in Partitions /\ b \in Partitions
  BY DEF BestClimbed, Partitions, Lanes
<1>3. IsPartition(a)
  <2>1. \A lane \in Lanes : \E g, k \in 1 .. 4 : a[g][k] = lane
    BY DEF BestClimbed, Lanes
  <2>2. \A g, k, h, j \in 1 .. 4 : a[g][k] = a[h][j] => g = h /\ k = j
    BY <1>1 DEF BestClimbed
  <2> QED
    BY <1>2, <2>1, <2>2, ByPlaces
<1>4. IsPartition(b)
  <2>1. \A lane \in Lanes : \E g, k \in 1 .. 4 : b[g][k] = lane
    BY DEF BestClimbed, Lanes
  <2>2. \A g, k, h, j \in 1 .. 4 : b[g][k] = b[h][j] => g = h /\ k = j
    BY <1>1 DEF BestClimbed
  <2> QED
    BY <1>2, <2>1, <2>2, ByPlaces
<1>5. BestClimbed = <<a, b>>
  BY DEF BestClimbed
<1>6. BestClimbed \in Topologies
  <2> HIDE DEF a, b
  <2> QED
    BY <1>2, <1>3, <1>4, <1>5, PairOfPartitions
<1>7. ToSet(a[1]) = {a[1][j] : j \in 1 .. 4} /\ \A k \in 1 .. 4 : ToSet(b[k]) = {b[k][j] : j \in 1 .. 4}
  <2>1. 1 \in 1 .. 2 /\ 2 \in 1 .. 2 /\ 1 \in 1 .. 4
    OBVIOUS
  <2> QED
    BY <1>6, <2>1, CliquesOf
<1>8. \A k \in 1 .. 4 : ToSet(b[k]) \cap ToSet(a[1]) # {}
  <2>1. a[1][1] = b[1][2] /\ a[1][2] = b[3][3] /\ a[1][3] = b[2][4] /\ a[1][4] = b[4][3]
    BY DEF BestClimbed
  <2> HIDE DEF a, b
  <2> QED
    BY <1>1, <1>7, <2>1
<1>9. ToSet(a[1]) \in Cliques(BestClimbed) /\ \A k \in 1 .. 4 : ToSet(b[k]) \in Cliques(BestClimbed)
  <2>1. 1 \in 1 .. 2 /\ 2 \in 1 .. 2 /\ 1 \in 1 .. 4
    OBVIOUS
  <2> QED
    BY <1>6, <2>1, CliquesOf
<1> HIDE DEF a, b
<1>10. \A lane \in Lanes : \E k \in 1 .. 4 : lane \in ToSet(b[k])
  BY <1>2, <1>4, <1>7, ByPlaces
<1> QED
  BY <1>6, <1>8, <1>9, <1>10, HubConnects

(* n is t with x put at one place. *)
IsPut(n, t, p, g, i, x) ==
    /\ t \in [1 .. 2 -> Partitions] /\ p \in 1 .. 2 /\ g \in 1 .. 4 /\ i \in 1 .. 4 /\ x \in Lanes
    /\ n = [t EXCEPT ![p][g][i] = x]

LEMMA PutLane ==
    ASSUME NEW n, NEW t, NEW p, NEW g, NEW i, NEW x, IsPut(n, t, p, g, i, x)
    PROVE  /\ n \in [1 .. 2 -> Partitions]
           /\ \A e \in 1 .. 2 : e # p => n[e] = t[e]
           /\ \A h, k \in 1 .. 4 : n[p][h][k] = IF h = g /\ k = i THEN x ELSE t[p][h][k]
  BY DEF Partitions, IsPut

LEMMA MutateBalances ==
    ASSUME NEW t \in Topologies, NEW m \in AllMoves
    PROVE  Mutate(t, m) \in Topologies
<1> DEFINE n == Mutate(t, m)
           old == t[m.p]
           new == n[m.p]
           Crossed(g, k) == IF g = m.g2 /\ k = m.j THEN old[m.g1][m.i]
                        ELSE IF g = m.g1 /\ k = m.i THEN old[m.g2][m.j] ELSE old[g][k]
<1>1. /\ m.p \in 1 .. 2 /\ m.g1 \in 1 .. 4 /\ m.g2 \in 1 .. 4 /\ m.i \in 1 .. 4 /\ m.j \in 1 .. 4
      /\ t \in [1 .. 2 -> Partitions]
  BY DEF AllMoves, Topologies
<1>2. \A e \in 1 .. 2 : t[e] \in Partitions /\ IsPartition(t[e])
  <2>1. \A e \in 1 .. 2 : t[e] \in ToSet(t)
    BY <1>1 DEF ToSet
  <2> QED
    BY <1>1, <2>1 DEF Topologies, IsBalanced
<1>3. \A g, k \in 1 .. 4 : old[g][k] \in Lanes
  BY <1>1, <1>2 DEF Partitions
<1>4. /\ n \in [1 .. 2 -> Partitions]
      /\ \A e \in 1 .. 2 : e # m.p => n[e] = t[e]
      /\ \A g, k \in 1 .. 4 : new[g][k] = Crossed(g, k)
  <2> DEFINE p == m.p
             g1 == m.g1
             g2 == m.g2
             i == m.i
             j == m.j
             x == t[p][g2][j]
             y == t[p][g1][i]
             half == [t EXCEPT ![p][g1][i] = x]
  <2>1. n = [half EXCEPT ![p][g2][j] = y]
    BY DEF Mutate
  <2>2. x \in Lanes /\ y \in Lanes
    BY <1>1, <1>3
  <2>3. p \in 1 .. 2 /\ g1 \in 1 .. 4 /\ g2 \in 1 .. 4 /\ i \in 1 .. 4 /\ j \in 1 .. 4
    BY <1>1
  <2>4. new = n[p] /\ \A g, k \in 1 .. 4 :
           Crossed(g, k) = IF g = g2 /\ k = j THEN y ELSE IF g = g1 /\ k = i THEN x ELSE t[p][g][k]
    OBVIOUS
  <2>5. half = [t EXCEPT ![p][g1][i] = x]
    OBVIOUS
  <2> HIDE DEF half, n, x, y, p, g1, g2, i, j, Crossed, new
  <2>6. IsPut(half, t, p, g1, i, x)
    BY <1>1, <2>2, <2>3, <2>5 DEF IsPut
  <2>7. /\ half \in [1 .. 2 -> Partitions]
        /\ \A e \in 1 .. 2 : e # p => half[e] = t[e]
        /\ \A g, k \in 1 .. 4 : half[p][g][k] = IF g = g1 /\ k = i THEN x ELSE t[p][g][k]
    BY <2>6, PutLane
  <2>8. IsPut(n, half, p, g2, j, y)
    BY <2>1, <2>2, <2>3, <2>7 DEF IsPut
  <2>9. /\ n \in [1 .. 2 -> Partitions]
        /\ \A e \in 1 .. 2 : e # p => n[e] = half[e]
        /\ \A g, k \in 1 .. 4 : n[p][g][k] = IF g = g2 /\ k = j THEN y ELSE half[p][g][k]
    BY <2>8, PutLane
  <2>10. \A e \in 1 .. 2 : e # p => n[e] = t[e]
    BY <2>7, <2>9
  <2>11. \A g, k \in 1 .. 4 : new[g][k] = Crossed(g, k)
    BY <2>4, <2>7, <2>9
  <2> QED
    BY <2>9, <2>10, <2>11 DEF p
<1>5. IsPartition(new)
  <2>1. new \in Partitions /\ old \in Partitions /\ IsPartition(old)
    BY <1>1, <1>2, <1>4
  <2>2. /\ \A lane \in Lanes : \E g, k \in 1 .. 4 : old[g][k] = lane
        /\ \A g, k, h, j \in 1 .. 4 : old[g][k] = old[h][j] => g = h /\ k = j
    BY <2>1, ByPlaces
  <2>3. \A g, k \in 1 .. 4 : new[g][k] = Crossed(g, k)
    BY <1>4
  <2> HIDE DEF n, new, old
  <2>4. ASSUME NEW lane \in Lanes PROVE \E g, k \in 1 .. 4 : new[g][k] = lane
    <3>1. PICK g \in 1 .. 4, k \in 1 .. 4 : old[g][k] = lane
      BY <2>2
    <3>2. CASE g = m.g1 /\ k = m.i
      BY <1>1, <2>3, <3>1, <3>2
    <3>3. CASE g = m.g2 /\ k = m.j
      BY <1>1, <2>3, <3>1, <3>3
    <3>4. CASE ~ (g = m.g1 /\ k = m.i) /\ ~ (g = m.g2 /\ k = m.j)
      BY <2>3, <3>1, <3>4
    <3> QED
      BY <3>2, <3>3, <3>4
  <2>5. ASSUME NEW g \in 1 .. 4, NEW k \in 1 .. 4, NEW h \in 1 .. 4, NEW j \in 1 .. 4,
               new[g][k] = new[h][j]
        PROVE  g = h /\ k = j
    <3> DEFINE g1 == m.g1
               g2 == m.g2
               i1 == m.i
               j1 == m.j
    <3>0. g1 \in 1 .. 4 /\ g2 \in 1 .. 4 /\ i1 \in 1 .. 4 /\ j1 \in 1 .. 4
      BY <1>1
    <3>1. old[m.g1][m.i] = old[m.g2][m.j] => m.g1 = m.g2 /\ m.i = m.j
      <4> HIDE DEF g1, g2, i1, j1
      <4>1. old[g1][i1] = old[g2][j1] => g1 = g2 /\ i1 = j1
        BY <3>0, <2>2
      <4> QED
        BY <4>1 DEF g1, g2, i1, j1
    <3>2. /\ \A a, b \in 1 .. 4 : old[a][b] = old[m.g1][m.i] => a = m.g1 /\ b = m.i
          /\ \A a, b \in 1 .. 4 : old[a][b] = old[m.g2][m.j] => a = m.g2 /\ b = m.j
          /\ old[g][k] = old[h][j] => g = h /\ k = j
      <4> HIDE DEF g1, g2, i1, j1
      <4>1. /\ \A a, b \in 1 .. 4 : old[a][b] = old[g1][i1] => a = g1 /\ b = i1
            /\ \A a, b \in 1 .. 4 : old[a][b] = old[g2][j1] => a = g2 /\ b = j1
            /\ old[g][k] = old[h][j] => g = h /\ k = j
        BY <3>0, <2>2
      <4> QED
        BY <4>1 DEF g1, g2, i1, j1
    <3>3. new[g][k] = Crossed(g, k) /\ new[h][j] = Crossed(h, j)
      BY <2>3
    <3>4. CASE g = m.g2 /\ k = m.j
      BY <2>5, <3>1, <3>2, <3>3, <3>4
    <3>5. CASE g = m.g1 /\ k = m.i
      BY <2>5, <3>1, <3>2, <3>3, <3>5
    <3>6. CASE ~ (g = m.g1 /\ k = m.i) /\ ~ (g = m.g2 /\ k = m.j)
      BY <2>5, <3>1, <3>2, <3>3, <3>6
    <3> QED
      BY <3>4, <3>5, <3>6
  <2> QED
    BY <2>1, <2>4, <2>5, ByPlaces
<1>6. \A e \in 1 .. 2 : IsPartition(n[e])
  BY <1>2, <1>4, <1>5
<1>7. \A q \in ToSet(n) : IsPartition(q)
  BY <1>4, <1>6 DEF ToSet
<1> QED
  BY <1>4, <1>7 DEF Topologies, IsBalanced

Orders == {s \in [1 .. 16 -> Lanes] : /\ \A lane \in Lanes : \E i \in 1 .. 16 : s[i] = lane
                                      /\ \A i, j \in 1 .. 16 : s[i] = s[j] => i = j}

LEMMA SwapKeeps ==
    ASSUME NEW s \in Orders, NEW i \in 1 .. 16, NEW j \in 1 .. 16
    PROVE  Swap(s, i, j) \in Orders
<1>1. /\ s \in [1 .. 16 -> Lanes]
      /\ \A lane \in Lanes : \E k \in 1 .. 16 : s[k] = lane
      /\ \A k, h \in 1 .. 16 : s[k] = s[h] => k = h
  BY DEF Orders
<1> DEFINE n == Swap(s, i, j)
<1>2. /\ n \in [1 .. 16 -> Lanes]
      /\ \A k \in 1 .. 16 : n[k] = IF k = j THEN s[i] ELSE IF k = i THEN s[j] ELSE s[k]
  BY <1>1 DEF Swap
<1> HIDE DEF n
<1>3. ASSUME NEW lane \in Lanes PROVE \E k \in 1 .. 16 : n[k] = lane
  <2>1. PICK k \in 1 .. 16 : s[k] = lane
    BY <1>1
  <2> QED
    BY <1>2, <2>1
<1>4. \A k, h \in 1 .. 16 : n[k] = n[h] => k = h
  BY <1>1, <1>2
<1> QED
  BY <1>2, <1>3, <1>4 DEF Orders, n

LEMMA ShuffledKeeps ==
    ASSUME NEW s \in Orders, NEW draws \in AllShuffles
    PROVE  Shuffled(s, draws) \in Orders
<1> DEFINE q == [k \in 1 .. Len(s) - 1 |-> Len(s) - k]
           IsFold(f) == f = [n \in 0 .. Len(q) |-> IF n = 0 THEN s ELSE Swap(f[n - 1], q[n] + 1, draws[q[n]] + 1)]
           step == [n \in Nat |-> [v \in Orders |->
                       IF n \in 1 .. 15 THEN Swap(v, 16 - n + 1, draws[16 - n] + 1) ELSE v]]
           f == CHOOSE f : IsFold(f)
<1>1. Len(s) = 16
  <2>1. s \in [1 .. 16 -> Lanes]
    BY DEF Orders
  <2>2. s \in Seq(Lanes)
    <3>1. [1 .. 16 -> Lanes] \in {[1 .. n -> Lanes] : n \in Nat}
      OBVIOUS
    <3> QED
      BY <2>1, <3>1, SeqDef
  <2>3. DOMAIN s = 1 .. 16 /\ DOMAIN s = 1 .. Len(s) /\ Len(s) \in Nat
    BY <2>1, <2>2, LenProperties
  <2> QED
    BY <2>3
<1>2. Len(q) = 15 /\ \A n \in 1 .. 15 : q[n] = 16 - n
  <2> DEFINE r == [k \in 1 .. 15 |-> 16 - k]
  <2>1. r \in [1 .. 15 -> Int]
    OBVIOUS
  <2>2. r \in Seq(Int)
    BY <2>1, SeqDef
  <2>3. DOMAIN r = 1 .. 15 /\ DOMAIN r = 1 .. Len(r) /\ Len(r) \in Nat
    BY <2>2, LenProperties
  <2>4. Len(r) = 15
    BY <2>3
  <2>5. q = r
    BY <1>1
  <2> QED
    BY <2>4, <2>5
<1>3. Shuffled(s, draws) = f[15]
  BY <1>2 DEF Shuffled, InTurn
<1> HIDE DEF q
<1>4. step \in [Nat -> [Orders -> Orders]]
  <2>1. ASSUME NEW n \in 1 .. 15
        PROVE  16 - n + 1 \in 1 .. 16 /\ draws[16 - n] + 1 \in 1 .. 16
    <3>1. 16 - n \in 1 .. 15
      OBVIOUS
    <3>2. draws[16 - n] \in Nat /\ draws[16 - n] <= 16 - n
      BY <3>1 DEF AllShuffles
    <3> QED
      BY <3>2
  <2>2. \A n \in Nat : \A v \in Orders :
           (IF n \in 1 .. 15 THEN Swap(v, 16 - n + 1, draws[16 - n] + 1) ELSE v) \in Orders
    BY <2>1, SwapKeeps
  <2> QED
    BY <2>2
<1>5. \A n \in 1 .. 15 : \A v \in Orders : step[n][v] = Swap(v, q[n] + 1, draws[q[n]] + 1)
  <2>1. \A n \in 1 .. 15 : n \in Nat /\ q[n] = 16 - n
    BY <1>2
  <2> QED
    BY <2>1
<1> HIDE DEF step
<1>6. PICK e \in [0 .. 15 -> Orders] : Chain(e, s, step, 15)
  <2>1. 15 \in Nat
    OBVIOUS
  <2> QED
    BY <1>4, <2>1, ChainExists
<1>7. IsFold(e)
  <2>1. \A n \in 0 .. 15 : n = 0 \/ (n \in 1 .. 15 /\ n - 1 \in 0 .. 15)
    OBVIOUS
  <2>2. \A n \in 0 .. 15 : e[n] = IF n = 0 THEN s ELSE Swap(e[n - 1], q[n] + 1, draws[q[n]] + 1)
    BY <1>5, <1>6, <2>1 DEF Chain
  <2> QED
    BY <1>2, <2>2
<1>8. IsFold(f)
  BY <1>7
<1> HIDE DEF f
<1>9. Folding(f, Orders, s, step, 15)
  <2>1. \A n \in 1 .. 15 : n \in 0 .. 15 /\ n # 0
    OBVIOUS
  <2>2. f = [n \in 0 .. 15 |-> f[n]] /\ f[0] = s
    BY <1>2, <1>8
  <2> QED
    BY <1>2, <1>5, <1>8, <2>1, <2>2 DEF Folding
<1>10. f \in [0 .. 15 -> Orders]
  <2>1. 15 \in Nat
    OBVIOUS
  <2> HIDE DEF IsFold
  <2> QED
    BY <1>4, <1>9, <2>1, FoldsAreChains
<1> QED
  BY <1>3, <1>10

(* Whatever is drawn, a random wiring deals every lane out once in each    *)
(* partition (topology.rs:80).                                             *)
THEOREM RandomWiringsBalance ==
    ASSUME NEW first \in AllShuffles, NEW second \in AllShuffles
    PROVE  RandomTopology(first, second) \in Topologies
<1>1. ASSUME NEW draws \in AllShuffles
      PROVE  RandomPartition(draws) \in Partitions /\ IsPartition(RandomPartition(draws))
  <2> DEFINE start == [i \in 1 .. 16 |-> i - 1]
             s == Shuffled(start, draws)
             p == RandomPartition(draws)
  <2>1. start \in Orders
    <3>1. start \in [1 .. 16 -> Lanes]
      BY DEF Lanes
    <3>2. \A lane \in Lanes : lane + 1 \in 1 .. 16 /\ start[lane + 1] = lane
      BY DEF Lanes
    <3>3. \A i, j \in 1 .. 16 : start[i] = start[j] => i = j
      OBVIOUS
    <3> HIDE DEF start
    <3> QED
      BY <3>1, <3>2, <3>3 DEF Orders
  <2>2. s \in Orders
    BY <2>1, ShuffledKeeps
  <2>3. p = [g \in 1 .. 4 |-> [k \in 1 .. 4 |-> s[4 * (g - 1) + k]]]
    BY DEF RandomPartition
  <2> HIDE DEF s, p
  <2>4. /\ s \in [1 .. 16 -> Lanes]
        /\ \A lane \in Lanes : \E i \in 1 .. 16 : s[i] = lane
        /\ \A i, j \in 1 .. 16 : s[i] = s[j] => i = j
    BY <2>2 DEF Orders
  <2>5. \A g, k \in 1 .. 4 : 4 * (g - 1) + k \in 1 .. 16 /\ p[g][k] = s[4 * (g - 1) + k]
    BY <2>3
  <2>6. p \in Partitions
    BY <2>3, <2>4, <2>5 DEF Partitions
  <2>7. ASSUME NEW lane \in Lanes PROVE \E g, k \in 1 .. 4 : p[g][k] = lane
    <3>1. PICK i \in 1 .. 16 : s[i] = lane
      BY <2>4
    <3> DEFINE g == ((i - 1) \div 4) + 1
               k == ((i - 1) % 4) + 1
    <3>2. g \in 1 .. 4 /\ k \in 1 .. 4 /\ 4 * (g - 1) + k = i
      OBVIOUS
    <3> HIDE DEF g, k
    <3>3. p[g][k] = lane
      BY <2>5, <3>1, <3>2
    <3> QED
      BY <3>2, <3>3
  <2>8. ASSUME NEW g \in 1 .. 4, NEW k \in 1 .. 4, NEW h \in 1 .. 4, NEW j \in 1 .. 4,
               p[g][k] = p[h][j]
        PROVE  g = h /\ k = j
    <3>1. 4 * (g - 1) + k = 4 * (h - 1) + j
      BY <2>4, <2>5, <2>8
    <3> QED
      BY <3>1
  <2>9. IsPartition(p)
    BY <2>6, <2>7, <2>8, ByPlaces
  <2> QED
    BY <2>6, <2>9 DEF p
<1> QED
  BY <1>1, PairOfPartitions DEF RandomTopology

-----------------------------------------------------------------------------
(* The climbs. *)
BeginsAt(op) == IF op = "climb" THEN BestRandom ELSE BestClimbed

Places == [cur : Topologies, fit : Int, evals : Nat, accepted : Nat, stalls : Nat]

(* What is so of a climb between two turns. *)
Legal(op, c) ==
    /\ c \in Places
    /\ Diameter(c.cur) # Disconnected
    /\ c.fit = Fitness(c.cur) /\ c.fit <= Fitness(BeginsAt(op))
    /\ c.evals <= Budget + (IF op = "climb" THEN 1 ELSE 0)
    /\ c.stalls < Patience \/ op = "climb2"

ClimbIInv ==
    call # None => call \in [op : {"climb", "climb2"}, at : Places] /\ Legal(call.op, call.at)

(* Scores are numbers. *)
ClimbAssumption == ClimbBounds /\ \A t \in Topologies : Fitness(t) \in Int

LEMMA LegalWhen ==
    ASSUME Budget \in Nat, NEW op \in {"climb", "climb2"}, NEW c \in Places,
           Diameter(c.cur) # Disconnected, c.fit = Fitness(c.cur), c.fit <= Fitness(BeginsAt(op)),
           c.evals <= Budget \/ (op = "climb" /\ c.evals <= Budget + 1),
           c.stalls < Patience \/ op = "climb2"
    PROVE  Legal(op, c)
<1>1. c.evals \in Nat
  BY DEF Places
<1>2. CASE op = "climb"
  BY <1>1, <1>2 DEF Legal
<1>3. CASE op = "climb2"
  BY <1>1, <1>3 DEF Legal
<1> QED
  BY <1>2, <1>3

LEMMA StartIsLegal ==
    ASSUME ClimbAssumption, NEW op \in {"climb", "climb2"}
    PROVE  Legal(op, Start(BeginsAt(op)))
<1> DEFINE best == BeginsAt(op)
<1>1. best \in Topologies /\ Diameter(best) # Disconnected
  BY BestRandomHolds, BestClimbedHolds DEF BeginsAt
<1>2. Fitness(best) \in Int
  BY <1>1 DEF ClimbAssumption, ClimbBounds
<1> HIDE DEF best
<1> QED
  BY <1>1, <1>2 DEF Legal, Start, Places, ClimbAssumption, ClimbBounds, best

(* What the steps of a turn do to the fields. *)
Stalled(c, n) == [c EXCEPT !.stalls = n]
Accepted(c) == [c EXCEPT !.accepted = @ + 1]

LEMMA Fields ==
    ASSUME NEW c \in Places
    PROVE  c.cur \in Topologies /\ c.fit \in Int /\ c.evals \in Nat /\ c.stalls \in Nat
  BY DEF Places

LEMMA Scores ==
    ASSUME NEW c \in Places
    PROVE  /\ Scored(c) \in Places /\ Scored(c).evals = c.evals + 1
           /\ Scored(c).cur = c.cur /\ Scored(c).fit = c.fit /\ Scored(c).stalls = c.stalls
  BY DEF Places, Scored

LEMMA MovesTo ==
    ASSUME NEW c \in Places, NEW wiring \in Topologies, Fitness(wiring) \in Int
    PROVE  /\ MovedTo(c, wiring) \in Places /\ MovedTo(c, wiring).evals = c.evals
           /\ MovedTo(c, wiring).cur = wiring /\ MovedTo(c, wiring).fit = Fitness(wiring)
           /\ MovedTo(c, wiring).stalls = c.stalls
  BY DEF Places, MovedTo

LEMMA Stalls ==
    ASSUME NEW c \in Places, NEW n \in Nat
    PROVE  /\ Stalled(c, n) \in Places /\ Stalled(c, n).evals = c.evals
           /\ Stalled(c, n).cur = c.cur /\ Stalled(c, n).fit = c.fit /\ Stalled(c, n).stalls = n
  BY DEF Places, Stalled

LEMMA Accepts ==
    ASSUME NEW c \in Places
    PROVE  /\ Accepted(c) \in Places /\ Accepted(c).evals = c.evals
           /\ Accepted(c).cur = c.cur /\ Accepted(c).fit = c.fit /\ Accepted(c).stalls = c.stalls
  BY DEF Places, Accepted

LEMMA RestartIsLegal ==
    ASSUME ClimbAssumption, NEW c, Legal("climb", c), c.evals < Budget, NEW fresh \in Topologies
    PROVE  Legal("climb", Restarted(Scored(c), fresh))
<1> DEFINE s == Scored(c)
           n == Restarted(s, fresh)
<1>1. /\ c \in Places /\ Diameter(c.cur) # Disconnected
      /\ c.fit = Fitness(c.cur) /\ c.fit <= Fitness(BestRandom)
  BY DEF Legal, BeginsAt
<1>2. /\ Fitness(fresh) \in Int /\ Fitness(BestRandom) \in Int
      /\ Patience > 0 /\ Patience \in Nat /\ Budget \in Nat /\ 0 \in Nat
  BY BestRandomHolds DEF ClimbAssumption, ClimbBounds
<1>3. /\ s \in Places /\ s.evals = c.evals + 1 /\ s.cur = c.cur /\ s.fit = c.fit
      /\ c.evals \in Nat /\ c.fit \in Int
  BY <1>1, Scores, Fields
<1>4. s.evals <= Budget
  BY <1>2, <1>3
<1>5. CASE Diameter(fresh) = Disconnected
  <2>1. n = Stalled(s, 0)
    BY <1>5 DEF Restarted, Stalled
  <2> HIDE DEF s, n
  <2>2. n \in Places /\ n.evals = s.evals /\ n.cur = s.cur /\ n.fit = s.fit /\ n.stalls = 0
    BY <1>2, <1>3, <2>1, Stalls
  <2>3. Legal("climb", n)
    BY <1>1, <1>2, <1>3, <1>4, <2>2, LegalWhen DEF BeginsAt
  <2> QED
    BY <2>3 DEF n, s
<1>6. CASE Diameter(fresh) # Disconnected /\ Fitness(fresh) < s.fit
  <2>1. n = Stalled(MovedTo(Scored(s), fresh), 0)
    BY <1>6 DEF Restarted, Stalled
  <2> DEFINE m == MovedTo(Scored(s), fresh)
  <2> HIDE DEF s, n
  <2>2. Scored(s) \in Places /\ Scored(s).evals = s.evals + 1
    BY <1>3, Scores
  <2>3. m \in Places /\ m.evals = s.evals + 1 /\ m.cur = fresh /\ m.fit = Fitness(fresh)
    BY <1>2, <2>2, MovesTo
  <2> HIDE DEF m
  <2>4. n \in Places /\ n.evals = s.evals + 1 /\ n.cur = fresh /\ n.fit = Fitness(fresh) /\ n.stalls = 0
    BY <1>2, <2>1, <2>3, Stalls DEF m
  <2>5. n.evals <= Budget + 1 /\ n.fit <= Fitness(BestRandom)
    BY <1>1, <1>2, <1>3, <1>4, <1>6, <2>4
  <2>6. Legal("climb", n)
    BY <1>2, <1>6, <2>4, <2>5, LegalWhen DEF BeginsAt
  <2> QED
    BY <2>6 DEF n, s
<1>7. CASE Diameter(fresh) # Disconnected /\ ~ Fitness(fresh) < s.fit
  <2>1. n = Stalled(Scored(s), 0)
    BY <1>7 DEF Restarted, Stalled
  <2> DEFINE m == Scored(s)
  <2> HIDE DEF s, n
  <2>2. m \in Places /\ m.evals = s.evals + 1 /\ m.cur = s.cur /\ m.fit = s.fit
    BY <1>3, Scores
  <2> HIDE DEF m
  <2>3. n \in Places /\ n.evals = s.evals + 1 /\ n.cur = s.cur /\ n.fit = s.fit /\ n.stalls = 0
    BY <1>2, <2>1, <2>2, Stalls DEF m
  <2>4. n.evals <= Budget + 1
    BY <1>2, <1>3, <1>4, <2>3
  <2>5. Legal("climb", n)
    BY <1>1, <1>2, <1>3, <2>3, <2>4, LegalWhen DEF BeginsAt
  <2> QED
    BY <2>5 DEF n, s
<1> QED
  BY <1>5, <1>6, <1>7

LEMMA TurnIsLegal ==
    ASSUME ClimbAssumption, NEW c, Legal("climb", c), c.evals < Budget,
           NEW cand \in Topologies, NEW fresh \in Topologies
    PROVE  Legal("climb", ClimbTurn(c, cand, fresh))
<1> DEFINE s == Scored(c)
           n == ClimbTurn(c, cand, fresh)
<1>1. /\ c \in Places /\ Diameter(c.cur) # Disconnected
      /\ c.fit = Fitness(c.cur) /\ c.fit <= Fitness(BestRandom)
  BY DEF Legal, BeginsAt
<1>2. /\ Fitness(cand) \in Int /\ Fitness(BestRandom) \in Int
      /\ Patience > 0 /\ Patience \in Nat /\ Budget \in Nat /\ 0 \in Nat
  BY BestRandomHolds DEF ClimbAssumption, ClimbBounds
<1>3. /\ s \in Places /\ s.evals = c.evals + 1 /\ s.cur = c.cur /\ s.fit = c.fit /\ s.stalls = c.stalls
      /\ c.evals \in Nat /\ c.fit \in Int /\ c.stalls \in Nat
  BY <1>1, Scores, Fields
<1>4. s.evals <= Budget
  BY <1>2, <1>3
<1>5. CASE Diameter(cand) = Disconnected
  BY <1>5 DEF ClimbTurn
<1>6. CASE Diameter(cand) # Disconnected /\ Fitness(cand) < c.fit
  <2> DEFINE m == MovedTo(s, cand)
             a == Accepted(m)
  <2>1. n = Stalled(a, 0)
    BY <1>6 DEF ClimbTurn, Accepted, Stalled
  <2> HIDE DEF s, n
  <2>2. m \in Places /\ m.evals = s.evals /\ m.cur = cand /\ m.fit = Fitness(cand)
    BY <1>2, <1>3, MovesTo
  <2> HIDE DEF m
  <2>3. a \in Places /\ a.evals = s.evals /\ a.cur = cand /\ a.fit = Fitness(cand)
    BY <2>2, Accepts
  <2> HIDE DEF a
  <2>4. n \in Places /\ n.evals = s.evals /\ n.cur = cand /\ n.fit = Fitness(cand) /\ n.stalls = 0
    BY <1>2, <2>1, <2>3, Stalls
  <2>5. n.fit <= Fitness(BestRandom)
    BY <1>1, <1>2, <1>3, <1>6, <2>4
  <2>6. Legal("climb", n)
    BY <1>2, <1>4, <1>6, <2>4, <2>5, LegalWhen DEF BeginsAt
  <2> QED
    BY <2>6 DEF n
<1>7. CASE Diameter(cand) # Disconnected /\ ~ Fitness(cand) < c.fit /\ c.stalls + 1 >= Patience
  BY <1>7, RestartIsLegal DEF ClimbTurn
<1>8. CASE Diameter(cand) # Disconnected /\ ~ Fitness(cand) < c.fit /\ ~ c.stalls + 1 >= Patience
  <2>1. n = Stalled(s, s.stalls + 1)
    BY <1>8 DEF ClimbTurn, Stalled
  <2> HIDE DEF s, n
  <2>2. s.stalls + 1 \in Nat /\ s.stalls + 1 < Patience
    BY <1>2, <1>3, <1>8
  <2>3. n \in Places /\ n.evals = s.evals /\ n.cur = s.cur /\ n.fit = s.fit /\ n.stalls = s.stalls + 1
    BY <1>3, <2>1, <2>2, Stalls
  <2>4. Legal("climb", n)
    BY <1>1, <1>2, <1>3, <1>4, <2>2, <2>3, LegalWhen DEF BeginsAt
  <2> QED
    BY <2>4 DEF n
<1> QED
  BY <1>5, <1>6, <1>7, <1>8

LEMMA Turn2IsLegal ==
    ASSUME ClimbAssumption, NEW c, Legal("climb2", c), c.evals < Budget, NEW cand \in Topologies
    PROVE  Legal("climb2", Climb2Turn(c, cand))
<1> DEFINE s == Scored(c)
           n == Climb2Turn(c, cand)
<1>1. /\ c \in Places /\ Diameter(c.cur) # Disconnected
      /\ c.fit = Fitness(c.cur) /\ c.fit <= Fitness(BestClimbed)
  BY DEF Legal, BeginsAt
<1>2. Fitness(cand) \in Int /\ Fitness(BestClimbed) \in Int /\ Budget \in Nat
  BY BestClimbedHolds DEF ClimbAssumption, ClimbBounds
<1>3. /\ s \in Places /\ s.evals = c.evals + 1 /\ s.cur = c.cur /\ s.fit = c.fit
      /\ c.evals \in Nat /\ c.fit \in Int
  BY <1>1, Scores, Fields
<1>4. s.evals <= Budget
  BY <1>2, <1>3
<1>5. CASE Diameter(cand) = Disconnected
  BY <1>5 DEF Climb2Turn
<1>6. CASE Diameter(cand) # Disconnected /\ Fitness(cand) < c.fit
  <2> DEFINE m == MovedTo(s, cand)
  <2>1. n = Accepted(m)
    BY <1>6 DEF Climb2Turn, Accepted
  <2> HIDE DEF s, n
  <2>2. m \in Places /\ m.evals = s.evals /\ m.cur = cand /\ m.fit = Fitness(cand)
    BY <1>2, <1>3, MovesTo
  <2> HIDE DEF m
  <2>3. n \in Places /\ n.evals = s.evals /\ n.cur = cand /\ n.fit = Fitness(cand)
    BY <2>1, <2>2, Accepts
  <2>4. n.fit <= Fitness(BestClimbed)
    BY <1>1, <1>2, <1>3, <1>6, <2>3
  <2>5. Legal("climb2", n)
    BY <1>2, <1>4, <1>6, <2>3, <2>4, LegalWhen DEF BeginsAt
  <2> QED
    BY <2>5 DEF n
<1>7. CASE Diameter(cand) # Disconnected /\ ~ Fitness(cand) < c.fit
  <2>1. n = s
    BY <1>7 DEF Climb2Turn
  <2> HIDE DEF s, n
  <2>2. Legal("climb2", n)
    BY <1>1, <1>2, <1>3, <1>4, <2>1, LegalWhen DEF BeginsAt
  <2> QED
    BY <2>2 DEF n
<1> QED
  BY <1>5, <1>6, <1>7

LEMMA ClimbStep ==
    ASSUME ClimbAssumption, ClimbIInv, [ClimbNext]_call
    PROVE  ClimbIInv'
<1>1. CASE call = None /\ Begins
  <2>1. ASSUME NEW op \in {"climb", "climb2"}, call' = [op |-> op, at |-> Start(BeginsAt(op))]
        PROVE  ClimbIInv'
    <3> DEFINE c == Start(BeginsAt(op))
    <3>1. Legal(op, c)
      BY StartIsLegal
    <3>2. c \in Places
      BY <3>1 DEF Legal
    <3> HIDE DEF c
    <3> QED
      BY <2>1, <3>1, <3>2 DEF ClimbIInv, Legal, BeginsAt, c
  <2> QED
    BY <1>1, <2>1 DEF Begins, BeginsAt
<1>2. CASE Climbs
  <2>1. call.op = "climb" /\ call.at.evals < Budget
    BY <1>2 DEF Climbs
  <2>2. call # None
    BY <2>1 DEF None
  <2>3. Legal("climb", call.at) /\ call \in [op : {"climb", "climb2"}, at : Places]
    BY <2>1, <2>2 DEF ClimbIInv
  <2>4. PICK m \in Moves, fresh \in Wirings :
            call' = [call EXCEPT !.at = ClimbTurn(@, Mutate(@.cur, m), fresh)]
    BY <1>2 DEF Climbs
  <2> DEFINE n == ClimbTurn(call.at, Mutate(call.at.cur, m), fresh)
  <2>5. Mutate(call.at.cur, m) \in Topologies
    <3>1. call.at.cur \in Topologies /\ m \in AllMoves
      BY <2>3, <2>4 DEF Places, ClimbAssumption, ClimbBounds
    <3> QED
      BY <3>1, MutateBalances
  <2>6. fresh \in Topologies
    <3>1. PICK d \in Shuffles, e \in Shuffles : fresh = RandomTopology(d, e)
      BY <2>4 DEF Wirings
    <3>2. d \in AllShuffles /\ e \in AllShuffles
      BY <3>1 DEF ClimbAssumption, ClimbBounds
    <3> QED
      BY <3>1, <3>2, RandomWiringsBalance
  <2>7. Legal("climb", n)
    BY <2>1, <2>3, <2>5, <2>6, TurnIsLegal
  <2>8. call' = [call EXCEPT !.at = n]
    BY <2>4
  <2>9. n \in Places
    BY <2>7 DEF Legal
  <2> HIDE DEF n
  <2>10. call'.op = "climb" /\ call'.at = n /\ call' \in [op : {"climb", "climb2"}, at : Places]
    BY <2>1, <2>3, <2>8, <2>9
  <2> QED
    BY <2>7, <2>10 DEF ClimbIInv, Legal, BeginsAt
<1>3. CASE ClimbsOn
  <2>1. call.op = "climb2" /\ call.at.evals < Budget
    BY <1>3 DEF ClimbsOn
  <2>2. call # None
    BY <2>1 DEF None
  <2>3. Legal("climb2", call.at) /\ call \in [op : {"climb", "climb2"}, at : Places]
    BY <2>1, <2>2 DEF ClimbIInv
  <2>4. PICK m \in Moves : call' = [call EXCEPT !.at = Climb2Turn(@, Mutate(@.cur, m))]
    BY <1>3 DEF ClimbsOn
  <2> DEFINE n == Climb2Turn(call.at, Mutate(call.at.cur, m))
  <2>5. Mutate(call.at.cur, m) \in Topologies
    <3>1. call.at.cur \in Topologies /\ m \in AllMoves
      BY <2>3, <2>4 DEF Places, ClimbAssumption, ClimbBounds
    <3> QED
      BY <3>1, MutateBalances
  <2>6. Legal("climb2", n)
    BY <2>1, <2>3, <2>5, Turn2IsLegal
  <2>7. call' = [call EXCEPT !.at = n]
    BY <2>4
  <2>8. n \in Places
    BY <2>6 DEF Legal
  <2> HIDE DEF n
  <2>9. call'.op = "climb2" /\ call'.at = n /\ call' \in [op : {"climb", "climb2"}, at : Places]
    BY <2>1, <2>3, <2>7, <2>8
  <2> QED
    BY <2>6, <2>9 DEF ClimbIInv, Legal, BeginsAt
<1>4. CASE UNCHANGED call
  BY <1>4 DEF ClimbIInv, Legal, BeginsAt
<1> QED
  BY <1>1, <1>2, <1>3, <1>4 DEF ClimbNext

LEMMA LegalIsLegal == ClimbIInv => ClimbsStayLegal
<1> SUFFICES ASSUME ClimbIInv, call.op \in {"climb", "climb2"} PROVE ClimbsStayLegal
  BY DEF ClimbsStayLegal
<1>1. call # None
  BY DEF None
<1>2. Legal(call.op, call.at)
  BY <1>1 DEF ClimbIInv
<1>3. IsBalanced(call.at.cur)
  BY <1>2 DEF Legal, Places, Topologies
<1> QED
  BY <1>2, <1>3 DEF ClimbsStayLegal, Legal, BeginsAt

(* For any score, budget and patience, and whatever is drawn: a climb only *)
(* visits wirings of sixteen lanes that hang together, knows the score of  *)
(* the one it is at, is never worse off than where it began, and scores at *)
(* most one wiring over its budget (topology_climb.rs:89, 143, 165;        *)
(* topology_climb2.rs:150).                                                *)
THEOREM ClimbsAreLegal ==
    ASSUME ClimbAssumption
    PROVE  ClimbSpec => []ClimbsStayLegal
<1>1. ClimbInit => ClimbIInv
  BY DEF ClimbInit, ClimbIInv
<1>2. ClimbIInv /\ [ClimbNext]_call => ClimbIInv'
  BY ClimbStep
<1>3. ClimbIInv => ClimbsStayLegal
  BY LegalIsLegal
<1> QED
  BY <1>1, <1>2, <1>3, PTL DEF ClimbSpec
-----------------------------------------------------------------------------
(* The calls of DesignCalls. *)
LEMMA ChaChaIsLegal == IsLegal(ChaChaQr) /\ ChaChaQr \in Seq(Range(ChaChaQr)) /\ IsProgram(ChaChaQr)
<1>1. ChaChaQr = <<QrStep(1, 2, 4, 16), QrStep(3, 4, 2, 12), QrStep(1, 2, 4, 8), QrStep(3, 4, 2, 7)>>
  BY DEF ChaChaQr, CrossSteps, ChaChaRot
<1>2. Steps(ChaChaQr) = {QrStep(1, 2, 4, 16), QrStep(3, 4, 2, 12), QrStep(1, 2, 4, 8), QrStep(3, 4, 2, 7)}
  BY <1>1 DEF Steps
<1>3. \A s \in Steps(ChaChaQr) :
         \/ s = [add_to |-> 1, add_from |-> 2, xor_into |-> 4, rot |-> 16]
         \/ s = [add_to |-> 3, add_from |-> 4, xor_into |-> 2, rot |-> 12]
         \/ s = [add_to |-> 1, add_from |-> 2, xor_into |-> 4, rot |-> 8]
         \/ s = [add_to |-> 3, add_from |-> 4, xor_into |-> 2, rot |-> 7]
  BY <1>2 DEF QrStep
<1>4. IsLegal(ChaChaQr)
  BY <1>3 DEF IsLegal
<1>5. ChaChaRot \in [1 .. 4 -> Nat]
  BY DEF ChaChaRot
<1>6. IsProgram(ChaChaQr)
  BY <1>5, CrossIsProgram DEF ChaChaQr
<1> QED
  BY <1>4, <1>6 DEF IsProgram

LEMMA CandidatesBalance ==
    ASSUME DesignAssumption, NEW t \in Candidates
    PROVE  t \in Topologies
<1>1. CASE t \in Wirings
  BY <1>1, RandomWiringsBalance DEF Wirings, DesignAssumption
<1>2. CASE t \in {ChaChaTopology, BestRandom, BestClimbed}
  BY <1>2, ChaChaIsBalanced, BestRandomHolds, BestClimbedHolds
<1>3. CASE t \in Others
  BY <1>3 DEF DesignAssumption
<1> QED
  BY <1>1, <1>2, <1>3 DEF Candidates

(* What a flip reaches is in its ball, from any state. *)
LEMMA ReachedInBall ==
    ASSUME DesignAssumption, NEW t \in Topologies, NEW lane \in Lanes, NEW rounds \in Nat
    PROVE  Reached(t, lane, rounds) \subseteq Ball(t, lane, rounds)
<1>1. ASSUME NEW w \in Given, NEW i \in Lanes,
             TopologyRounds(w, t, ChaChaQr, rounds)[i]
               # TopologyRounds([w EXCEPT ![lane] = Xor(@, {0})], t, ChaChaQr, rounds)[i]
      PROVE  i \in Ball(t, lane, rounds)
  <2> DEFINE u == [w EXCEPT ![lane] = Xor(@, {0})]
  <2>1. w \in States(Lanes)
    BY DEF DesignAssumption, States
  <2>2. {0} \in Word(WordSize) /\ Fits
    BY DEF DesignAssumption, Word, Positions, Fits
  <2>3. Xor(w[lane], {0}) \in Word(WordSize)
    BY <2>1, <2>2, XorWord DEF States
  <2>4. u \in States(Lanes) /\ \A k \in Lanes : k # lane => w[k] = u[k]
    BY <2>1, <2>3 DEF States
  <2>5. TopologyRounds(w, t, ChaChaQr, rounds)[i] # TopologyRounds(u, t, ChaChaQr, rounds)[i]
    BY <1>1
  <2> HIDE DEF u
  <2> QED
    BY <2>1, <2>2, <2>4, <2>5, ChaChaIsLegal, FlipsTravelOneHop
<1> QED
  BY <1>1 DEF Reached

(* A wiring the screen prunes leaves some lane alone. *)
LEMMA PrunedMisses ==
    ASSUME DesignAssumption, NEW t \in Topologies, Prunes(t)
    PROVE  \E lane \in Lanes : Reached(t, lane, ScreenRounds) # Lanes
<1>1. PICK lane \in Lanes : Ball(t, lane, 3) # Lanes
  BY PrunedIsFar
<1>2. Ball(t, lane, 3) \subseteq Lanes
  BY BallGrows
<1>3. Reached(t, lane, 3) \subseteq Ball(t, lane, 3)
  BY ReachedInBall
<1>4. Reached(t, lane, 3) # Lanes
  BY <1>1, <1>2, <1>3
<1> QED
  BY <1>4 DEF ScreenRounds

(* The functions that are written more than once. *)
LEMMA RoundsOnceAgree ==
    ASSUME NEW w, NEW round \in 0 .. 1, RoundsOnce(w, round)
    PROVE  DesignsAgree'
<1>1. /\ ChaChaRound(w, ChaChaRot, round) = TopologyRound(w, ChaChaTopology, ChaChaQr, round)
      /\ ChaChaRound(w, ChaChaRot, round) = StructureRound(w, "double-cross", "diag-1", ChaChaRot, round)
  <2>1. round \in Nat
    OBVIOUS
  <2> QED
    BY <2>1, RoundsAgree DEF ChaChaQr
<1>2. StepsRound(w, 4, round) = TopologyRound(w, ChaChaTopology, ChaChaQr, round)
  BY FourAreChaCha DEF StepsRound
<1>3. call'.rounds = {ChaChaRound(w, ChaChaRot, round)}
  BY <1>1, <1>2 DEF RoundsOnce
<1> QED
  BY <1>3 DEF DesignsAgree

LEMMA MixesNothingAgrees ==
    ASSUME DesignAssumption, NEW w \in Given, NEW k \in 1 .. 4, MixesNothing(w, Columns[k])
    PROVE  DesignsAgree'
<1> DEFINE g == Columns[k]
<1>1. WordSize = 64 /\ w \in States(Lanes)
  BY DEF MixesNothing, DesignAssumption, States
<1>2. IsGroup(g, Lanes)
  <2>1. Columns \in Partitions
    BY ChaChaGroups
  <2>2. IsPartition(Columns)
    BY ChaChaIsBalanced DEF Topologies, IsBalanced, ChaChaTopology, ToSet
  <2> QED
    BY <2>1, <2>2, PartsAreGroups
<1> HIDE DEF g
<1>3. G(w, g[1], g[2], g[3], g[4], {}, {}) = QuarterRound(w, g[1], g[2], g[3], g[4], Blake2bRot)
  BY <1>1, <1>2, MixingAgrees
<1>4. call'.rounds = {G(w, g[1], g[2], g[3], g[4], {}, {})}
  BY <1>3 DEF MixesNothing, g
<1> QED
  BY <1>4 DEF DesignsAgree

LEMMA CallsAgree ==
    ASSUME DesignAssumption, DesignsAgree, [DesignsNext]_call
    PROVE  DesignsAgree'
<1>1. ASSUME NEW w \in Given, BlocksOnce(w) PROVE DesignsAgree'
  <2>1. call'.rounds = {ChaChaBlock(w)}
    BY <1>1, BlocksAgree DEF BlocksOnce
  <2> QED
    BY <2>1 DEF DesignsAgree
<1>2. CASE Writes
  BY <1>1, <1>2, RoundsOnceAgree, MixesNothingAgrees DEF Writes
<1>3. CASE Spreads
  BY <1>3 DEF Spreads, Groupings, Diffuses, Considers, DesignsAgree
<1>4. CASE UNCHANGED call
  BY <1>4 DEF DesignsAgree
<1> QED
  BY <1>2, <1>3, <1>4 DEF DesignsNext

(* The functions written more than once for ChaCha's round and block and   *)
(* for BLAKE2b's mixing answer alike on every state, at every word size    *)
(* (topology.rs:207, arx_structure.rs:238, arx_step_search.rs:239,         *)
(* arx_step_cycles.rs:321, arx64.rs:180).                                  *)
THEOREM DesignsCoincide ==
    ASSUME DesignAssumption
    PROVE  DesignsSpec => []DesignsAgree
<1>1. ClimbInit => DesignsAgree
  BY DEF ClimbInit, None, DesignsAgree
<1>2. DesignsAgree /\ [DesignsNext]_call => DesignsAgree'
  BY CallsAgree
<1> QED
  BY <1>1, <1>2, PTL DEF DesignsSpec

LEMMA GroupingsBounded ==
    ASSUME NEW pattern \in Patterns, NEW round \in 0 .. 1, Groupings(pattern, round)
    PROVE  DiffusionIsBounded'
<1>1. IsPartition(ColumnGroups)
  BY ChaChaGroups, ChaChaIsBalanced DEF Topologies, IsBalanced, ChaChaTopology, ToSet
<1>2. IsPartition(call'.groups) /\ call'.op = "groups"
  BY <1>1, PatternsPart DEF Groupings
<1> QED
  BY <1>2 DEF DiffusionIsBounded

LEMMA DiffusesBounded ==
    ASSUME DesignAssumption, NEW t \in Candidates, NEW lane \in Lanes,
           NEW rounds \in 0 .. MostRounds, Diffuses(t, lane, rounds)
    PROVE  DiffusionIsBounded'
<1>1. t \in Topologies /\ IsBalanced(t)
  BY CandidatesBalance DEF Topologies
<1>2. rounds \in Nat
  BY DEF DesignAssumption
<1>3. Reached(t, lane, rounds) \subseteq Ball(t, lane, rounds)
  BY <1>1, <1>2, ReachedInBall
<1>4. /\ call'.op = "diffuse" /\ call'.topology = t /\ call'.lane = lane /\ call'.rounds = rounds
      /\ call'.changed = Reached(t, lane, rounds)
  BY DEF Diffuses
<1> QED
  BY <1>1, <1>3, <1>4 DEF DiffusionIsBounded

LEMMA ConsidersBounded ==
    ASSUME DesignAssumption, NEW t \in Candidates, Considers(t)
    PROVE  DiffusionIsBounded'
<1>1. t \in Topologies
  BY CandidatesBalance
<1>2. /\ call'.op = "consider" /\ call'.pruned = Prunes(t)
      /\ call'.connected = (Diameter(t) # Disconnected)
      /\ call'.reached = [lane \in Lanes |-> Reached(t, lane, ScreenRounds)]
  BY DEF Considers
<1>3. Diameter(t) = Disconnected => Prunes(t)
  BY DEF Disconnected, Prunes, ScreenRounds
<1>4. Prunes(t) => \E lane \in Lanes : Reached(t, lane, ScreenRounds) # Lanes
  BY <1>1, PrunedMisses
<1> QED
  BY <1>2, <1>3, <1>4, ZenonT(40) DEF DiffusionIsBounded

LEMMA CallsBounded ==
    ASSUME DesignAssumption, DiffusionIsBounded, [DesignsNext]_call
    PROVE  DiffusionIsBounded'
<1>1. CASE Writes
  BY <1>1 DEF Writes, RoundsOnce, BlocksOnce, MixesNothing, DiffusionIsBounded
<1>2. CASE Spreads
  BY <1>2, GroupingsBounded, DiffusesBounded, ConsidersBounded DEF Spreads
<1>3. CASE UNCHANGED call
  BY <1>3 DEF DiffusionIsBounded
<1> QED
  BY <1>1, <1>2, <1>3 DEF DesignsNext

(* Over any wiring that can be drawn or climbed to, from any states, a     *)
(* flip stays within its hops, what the screen prunes could not have       *)
(* passed it, and every pattern of a structure is a partition of the lanes *)
(* (topology.rs:151, topology_search.rs:131, arx_structure.rs:150).        *)
THEOREM DiffusionBound ==
    ASSUME DesignAssumption
    PROVE  DesignsSpec => []DiffusionIsBounded
<1>1. ClimbInit => DiffusionIsBounded
  BY DEF ClimbInit, None, DiffusionIsBounded
<1>2. DiffusionIsBounded /\ [DesignsNext]_call => DiffusionIsBounded'
  BY CallsBounded
<1> QED
  BY <1>1, <1>2, PTL DEF DesignsSpec
=============================================================================
