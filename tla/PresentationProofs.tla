-------------------------- MODULE PresentationProofs --------------------------
(***************************************************************************)
(* Proofs about what the pages show: the runs of the number systems and    *)
(* their metrics, the datasets that the seven generators make of them, the *)
(* pictures, tables and exports, for any initial states, limits,           *)
(* specifications, series, sizes and parities, the PNG files, for any      *)
(* images, texts and size of a stored block, and the list of the           *)
(* Comparison Lab, for any inputs, palette and number of runs under way.   *)
(***************************************************************************)
EXTENDS ComparisonLab, DatasetSpecs, PngFiles, Presentation, WellFoundedInduction,
        FiniteSetTheorems, SequenceTheorems, TLAPS

(* Induction over the natural numbers, by their well-foundedness. *)
LEMMA Induction ==
    ASSUME NEW T, 0 \in T, \A n \in Nat : n \in T => n + 1 \in T
    PROVE  Nat \subseteq T
<1> DEFINE R == {p \in Nat \X Nat : p[1] < p[2]}
           Out == Nat \ T
<1>1. IsWellFoundedOn(R, Nat)
  <2>1. OpToRel(<, Nat) = R
    BY DEF OpToRel
  <2> QED
    BY NatLessThanWellFounded, <2>1
<1>2. SUFFICES ASSUME Out # {} PROVE FALSE
  OBVIOUS
<1>3. PICK n \in Out : \A m \in Out : <<m, n>> \notin R
  <2>1. Out \subseteq Nat
    OBVIOUS
  <2> HIDE DEF R, Out
  <2> QED
    BY <1>1, <1>2, <2>1, WFMin
<1>4. n \in Nat /\ n # 0 /\ n - 1 \in Nat /\ (n - 1) + 1 = n
  OBVIOUS
<1>5. n - 1 \notin T
  BY <1>4
<1>6. <<n - 1, n>> \in R
  BY <1>4
<1> QED
  BY <1>3, <1>4, <1>5, <1>6

-----------------------------------------------------------------------------
(* Numbers: the least and the greatest of some, halves and lengths.        *)
LEMMA StrongInduction ==
    ASSUME NEW T, \A n \in Nat : (\A m \in Nat : m < n => m \in T) => n \in T
    PROVE  Nat \subseteq T
<1> DEFINE U == {n \in Nat : \A m \in Nat : m < n => m \in T}
<1>1. 0 \in U
  OBVIOUS
<1>2. ASSUME NEW n \in Nat, n \in U
      PROVE  n + 1 \in U
  <2>1. \A m \in Nat : m < n + 1 => m < n \/ m = n
    OBVIOUS
  <2> QED
    BY <1>2, <2>1
<1>3. Nat \subseteq U
  <2> HIDE DEF U
  <2> QED
    BY <1>1, <1>2, Induction
<1> QED
  BY <1>3

(* A set of natural numbers has a least member, which is its Min. *)
LEMMA Least ==
    ASSUME NEW P \in SUBSET Nat, P # {}
    PROVE  Min(P) \in P /\ \A k \in P : Min(P) <= k
<1> DEFINE T == {n \in Nat : n \in P => \E m \in P : \A k \in P : m <= k}
<1>1. ASSUME NEW n \in Nat, \A m \in Nat : m < n => m \in T
      PROVE  n \in T
  <2>1. CASE \E m \in P : m < n
    BY <1>1, <2>1
  <2>2. CASE \A m \in P : ~ (m < n)
    BY <2>2
  <2> QED
    BY <2>1, <2>2
<1>2. Nat \subseteq T
  <2> HIDE DEF T
  <2> QED
    BY <1>1, StrongInduction
<1>3. \E m \in P : \A k \in P : m <= k
  BY <1>2
<1> QED
  BY <1>3 DEF Min

(* A bounded set of natural numbers has a greatest one, its Max. *)
LEMMA Greatest ==
    ASSUME NEW P \in SUBSET Nat, P # {}, NEW bound \in Nat, \A k \in P : k <= bound
    PROVE  Max(P) \in P /\ \A k \in P : k <= Max(P)
<1> DEFINE B == {n \in Nat : \A k \in P : k <= n}
<1>1. B \in SUBSET Nat /\ B # {}
  OBVIOUS
<1>2. Min(B) \in B /\ \A k \in B : Min(B) <= k
  <2> HIDE DEF B
  <2> QED
    BY <1>1, Least
<1> DEFINE top == Min(B)
<1>5. top \in Nat /\ (\A k \in P : k <= top) /\ \A k \in B : top <= k
  BY <1>2
<1> HIDE DEF top
<1>3. top \in P
  <2>1. SUFFICES ASSUME top \notin P PROVE FALSE
    OBVIOUS
  <2>2. top \in Nat /\ \A k \in P : k <= top /\ k # top
    BY <1>5, <2>1
  <2>3. top # 0
    <3>1. PICK k \in P : TRUE
      OBVIOUS
    <3>2. k \in Nat /\ k <= top /\ k # top
      BY <2>2
    <3> QED
      BY <3>2
  <2>4. \A k \in P : k \in Nat /\ k <= top - 1
    BY <2>2
  <2>5. top - 1 \in B
    BY <2>2, <2>3, <2>4
  <2> HIDE DEF B
  <2> QED
    BY <1>5, <2>2, <2>5
<1> QED
  BY <1>3, <1>5 DEF Max

(* The equation of the bit length. *)
Halving(g, N) == \A n \in 0 .. N : g[n] = IF n = 0 THEN 0 ELSE 1 + g[n \div 2]

(* Half of a positive number is smaller. *)
LEMMA HalfIsLess ==
    ASSUME NEW n \in Nat, n # 0
    PROVE  n \div 2 \in Nat /\ n \div 2 < n
  OBVIOUS

(* The equation of the bit length has a solution as far as one goes, *)
LEMMA HalvingExists == \A N \in Nat : \E g \in [0 .. N -> Nat] : Halving(g, N)
<1> DEFINE T == {N \in Nat : \E g \in [0 .. N -> Nat] : Halving(g, N)}
<1>1. 0 \in T
  <2> DEFINE g == [n \in 0 .. 0 |-> 0]
  <2>1. g \in [0 .. 0 -> Nat] /\ Halving(g, 0)
    BY DEF Halving
  <2> HIDE DEF g
  <2> QED
    BY <2>1
<1>2. ASSUME NEW N \in Nat, N \in T
      PROVE  N + 1 \in T
  <2>1. PICK g \in [0 .. N -> Nat] : Halving(g, N)
    BY <1>2
  <2> DEFINE h == [n \in 0 .. N + 1 |-> IF n = N + 1 THEN 1 + g[(N + 1) \div 2] ELSE g[n]]
  <2>2. (N + 1) \div 2 \in 0 .. N
    OBVIOUS
  <2>3. g[(N + 1) \div 2] \in Nat
    BY <2>2
  <2>4. \A n \in 0 .. N : n \in 0 .. N + 1 /\ n # N + 1 /\ g[n] \in Nat
    OBVIOUS
  <2>5. h \in [0 .. N + 1 -> Nat]
    BY <2>3, <2>4
  <2>6. (\A n \in 0 .. N : h[n] = g[n]) /\ h[N + 1] = 1 + g[(N + 1) \div 2]
    BY <2>4
  <2> HIDE DEF h
  <2>7. ASSUME NEW n \in 0 .. N + 1
        PROVE  h[n] = IF n = 0 THEN 0 ELSE 1 + h[n \div 2]
    <3>1. CASE n = N + 1
      BY <2>2, <2>6, <3>1
    <3>2. CASE n # N + 1
      <4>1. n \in 0 .. N /\ (n # 0 => n \div 2 \in 0 .. N)
        BY <3>2
      <4> QED
        BY <2>1, <2>6, <4>1 DEF Halving
    <3> QED
      BY <3>1, <3>2
  <2>8. Halving(h, N + 1)
    BY <2>7 DEF Halving
  <2> QED
    BY <2>5, <2>8
<1>3. Nat \subseteq T
  <2> HIDE DEF T
  <2> QED
    BY <1>1, <1>2, Induction
<1> QED
  BY <1>3

(* and only one, however far it is taken. *)
LEMMA HalvingAgrees ==
    ASSUME NEW N \in Nat, NEW M \in Nat, NEW g, NEW h, Halving(g, N), Halving(h, M)
    PROVE  \A n \in Nat : n <= N /\ n <= M => g[n] = h[n]
<1> DEFINE T == {n \in Nat : n <= N /\ n <= M => g[n] = h[n]}
<1>1. ASSUME NEW n \in Nat, \A m \in Nat : m < n => m \in T
      PROVE  n \in T
  <2>1. SUFFICES ASSUME n <= N, n <= M PROVE g[n] = h[n]
    OBVIOUS
  <2>2. n \in 0 .. N /\ n \in 0 .. M
    BY <2>1
  <2>3. CASE n = 0
    BY <2>2, <2>3 DEF Halving
  <2>4. CASE n # 0
    <3>1. n \div 2 \in Nat /\ n \div 2 < n /\ n \div 2 <= N /\ n \div 2 <= M
      BY <2>1, <2>4
    <3>2. g[n \div 2] = h[n \div 2]
      BY <1>1, <3>1
    <3> QED
      BY <2>2, <2>4, <3>2 DEF Halving
  <2> QED
    BY <2>3, <2>4
<1>2. Nat \subseteq T
  <2> HIDE DEF T
  <2> QED
    BY <1>1, StrongInduction
<1> QED
  BY <1>2

(* Bits is the number of binary digits: 2 ^ (Bits[n] - 1) <= n < 2 ^       *)
(* Bits[n], said by halving.                                               *)
LEMMA BitLength ==
    /\ Bits \in [Nat -> Nat] /\ Bits[0] = 0
    /\ \A n \in Nat \ {0} : Bits[n] = 1 + Bits[n \div 2]
<1> DEFINE G(N) == CHOOSE g \in [0 .. N -> Nat] : Halving(g, N)
           Solves(f) == f = [n \in Nat |-> IF n = 0 THEN 0 ELSE 1 + f[n \div 2]]
           f == [n \in Nat |-> G(n)[n]]
<1>1. \A N \in Nat : G(N) \in [0 .. N -> Nat] /\ Halving(G(N), N)
  BY HalvingExists
<1> HIDE DEF G
<1>2. \A n \in Nat : n \in 0 .. n
  OBVIOUS
<1>3. ASSUME NEW n \in Nat
      PROVE  f[n] = IF n = 0 THEN 0 ELSE 1 + f[n \div 2]
  <2>1. CASE n = 0
    BY <1>1, <1>2, <2>1 DEF Halving
  <2>2. CASE n # 0
    <3>1. n \div 2 \in Nat /\ n \div 2 <= n
      BY <2>2
    <3>2. G(n)[n] = 1 + G(n)[n \div 2]
      BY <1>1, <1>2, <2>2 DEF Halving
    <3>3. G(n)[n \div 2] = G(n \div 2)[n \div 2]
      <4>1. Halving(G(n), n) /\ Halving(G(n \div 2), n \div 2) /\ n \div 2 <= n \div 2
        BY <1>1, <3>1
      <4> QED
        BY <3>1, <4>1, HalvingAgrees
    <3> QED
      BY <2>2, <3>1, <3>2, <3>3
  <2> QED
    BY <2>1, <2>2
<1>4. \A n \in Nat : f[n] \in Nat
  BY <1>1, <1>2
<1>5. f = [n \in Nat |-> f[n]]
  OBVIOUS
<1> HIDE DEF f
<1>6. Solves(f)
  BY <1>3, <1>5
<1>7. Bits = CHOOSE g : Solves(g)
  BY DEF Bits
<1>8. Solves(Bits)
  BY <1>6, <1>7
<1>9. \A n \in Nat : Bits[n] = IF n = 0 THEN 0 ELSE 1 + Bits[n \div 2]
  BY <1>8
<1>10. Bits = [n \in Nat |-> Bits[n]]
  <2>1. DOMAIN Bits = Nat
    BY <1>8
  <2> QED
    BY <1>8
<1> HIDE DEF Solves
<1> DEFINE T == {n \in Nat : Bits[n] \in Nat}
<1>11. ASSUME NEW n \in Nat, \A m \in Nat : m < n => m \in T
       PROVE  n \in T
  <2>1. CASE n = 0
    BY <1>9, <2>1
  <2>2. CASE n # 0
    BY <1>9, <1>11, <2>2, HalfIsLess
  <2> QED
    BY <2>1, <2>2
<1>12. Nat \subseteq T
  <2> HIDE DEF T
  <2> QED
    BY <1>11, StrongInduction
<1> QED
  BY <1>9, <1>10, <1>12

(* The longer of two numbers is the larger. *)
LEMMA LongerIsLarger ==
    ASSUME NEW m \in Nat, NEW n \in Nat, m <= n
    PROVE  Bits[m] <= Bits[n]
<1> DEFINE T == {b \in Nat : \A a \in Nat : a <= b => Bits[a] <= Bits[b]}
<1>1. ASSUME NEW b \in Nat, \A c \in Nat : c < b => c \in T
      PROVE  b \in T
  <2>1. SUFFICES ASSUME NEW a \in Nat, a <= b PROVE Bits[a] <= Bits[b]
    OBVIOUS
  <2>2. Bits[a] \in Nat /\ Bits[b] \in Nat
    BY BitLength
  <2>3. CASE a = 0
    BY <2>2, <2>3, BitLength
  <2>4. CASE a # 0
    <3>1. /\ a \div 2 \in Nat /\ b \div 2 \in Nat /\ b \div 2 < b /\ a \div 2 <= b \div 2
          /\ b # 0
      BY <2>1, <2>4
    <3>2. Bits[a \div 2] <= Bits[b \div 2]
      BY <1>1, <3>1
    <3>3. Bits[a] = 1 + Bits[a \div 2] /\ Bits[b] = 1 + Bits[b \div 2]
      BY <2>4, <3>1, BitLength
    <3>4. Bits[a \div 2] \in Nat /\ Bits[b \div 2] \in Nat
      BY <3>1, BitLength
    <3> QED
      BY <3>2, <3>3, <3>4
  <2> QED
    BY <2>3, <2>4
<1>2. Nat \subseteq T
  <2> HIDE DEF T
  <2> QED
    BY <1>1, StrongInduction
<1> QED
  BY <1>2

Positive == Nat \ {0}

(* An odd step lengthens a number and halving shortens it, by a bit. *)
LEMMA StepsChangeLength ==
    ASSUME NEW system \in DOMAIN Multiplier, NEW n \in Positive
    PROVE  /\ Transition(system, n) \in Positive
           /\ Bits[n] \in Nat /\ Bits[Transition(system, n)] \in Nat
           /\ n % 2 \in {0, 1}
           /\ n % 2 = 1 => Bits[Transition(system, n)] > Bits[n]
           /\ n % 2 = 0 => Bits[Transition(system, n)] < Bits[n]
<1> DEFINE next == Transition(system, n)
<1>1. Multiplier[system] \in {3, 5}
  BY DEF Multiplier
<1>2. n \in Nat /\ n # 0 /\ n % 2 \in {0, 1}
  BY DEF Positive
<1>3. CASE n % 2 = 1
  <2>1. next \in Positive /\ 2 * n <= next
    BY <1>1, <1>2, <1>3 DEF Transition, Positive
  <2>2. 2 * n \in Nat \ {0} /\ (2 * n) \div 2 = n
    BY <1>2
  <2>3. Bits[2 * n] = 1 + Bits[n]
    BY <2>2, BitLength
  <2>4. Bits[2 * n] <= Bits[next]
    BY <2>1, <2>2, LongerIsLarger DEF Positive
  <2>5. Bits[n] \in Nat /\ Bits[next] \in Nat
    BY <1>2, <2>1, BitLength DEF Positive
  <2> QED
    BY <1>2, <1>3, <2>1, <2>3, <2>4, <2>5
<1>4. CASE n % 2 = 0
  <2>1. next = n \div 2 /\ next \in Positive
    BY <1>2, <1>4 DEF Transition, Positive
  <2>2. Bits[n] = 1 + Bits[next]
    BY <1>2, <2>1, BitLength
  <2>3. Bits[n] \in Nat /\ Bits[next] \in Nat
    BY <1>2, <2>1, BitLength DEF Positive
  <2> QED
    BY <1>2, <1>4, <2>1, <2>2, <2>3
<1> QED
  BY <1>2, <1>3, <1>4

(* f is s at 0, and each later entry one step from the one before. *)
Chain(f, s, step, N) == f[0] = s /\ \A n \in 1 .. N : f[n] = step[n][f[n - 1]]

(* Every starting value and every table of steps make a chain. *)
LEMMA ChainExists ==
    ASSUME NEW S, NEW s \in S, NEW step \in [Nat -> [S -> S]]
    PROVE  \A N \in Nat : \E f \in [0 .. N -> S] : Chain(f, s, step, N)
<1> USE DEF Chain
<1> DEFINE Good(f, N) == f \in [0 .. N -> S] /\ Chain(f, s, step, N)
           T == {N \in Nat : \E f : Good(f, N)}
<1>1. 0 \in T
  <2>1. Good([n \in 0 .. 0 |-> s], 0)
    OBVIOUS
  <2> QED
    BY <2>1
<1>2. ASSUME NEW N \in Nat, N \in T
      PROVE  N + 1 \in T
  <2>1. PICK f : Good(f, N)
    BY <1>2
  <2> DEFINE g == [n \in 0 .. N + 1 |-> IF n = N + 1 THEN step[N + 1][f[N]] ELSE f[n]]
  <2>2. f[N] \in S /\ step[N + 1][f[N]] \in S
    BY <2>1
  <2>3. \A n \in 0 .. N : n # N + 1 /\ n \in 0 .. N + 1 /\ f[n] \in S
    BY <2>1
  <2>4. g \in [0 .. N + 1 -> S]
    BY <2>2, <2>3
  <2>5. \A n \in 0 .. N : g[n] = f[n]
    BY <2>3
  <2>6. g[N + 1] = step[N + 1][f[N]]
    OBVIOUS
  <2> HIDE DEF g
  <2>7. ASSUME NEW n \in 1 .. N + 1
        PROVE  g[n] = step[n][g[n - 1]]
    <3>1. CASE n = N + 1
      <4>1. n - 1 = N /\ N \in 0 .. N
        BY <3>1
      <4> QED
        BY <2>5, <2>6, <3>1, <4>1
    <3>2. CASE n # N + 1
      <4>1. n \in 1 .. N /\ n \in 0 .. N /\ n - 1 \in 0 .. N
        BY <3>2
      <4> QED
        BY <2>1, <2>5, <4>1
    <3> QED
      BY <3>1, <3>2
  <2>8. g[0] = s
    BY <2>1, <2>5
  <2>9. Good(g, N + 1)
    BY <2>4, <2>7, <2>8
  <2> QED
    BY <2>9
<1>3. Nat \subseteq T
  <2> HIDE DEF T
  <2> QED
    BY <1>1, <1>2, Induction
<1> QED
  BY <1>3

(* They make one chain only. *)
LEMMA SameChain ==
    ASSUME NEW S, NEW s, NEW step, NEW N \in Nat, NEW M \in Nat, NEW f, NEW g,
           Chain(f, s, step, N), Chain(g, s, step, M)
    PROVE  \A n \in Nat : n <= N /\ n <= M => f[n] = g[n]
<1> DEFINE T == {n \in Nat : n <= N /\ n <= M => f[n] = g[n]}
<1>1. 0 \in T
  BY DEF Chain
<1>2. ASSUME NEW n \in Nat, n \in T
      PROVE  n + 1 \in T
  <2>1. SUFFICES ASSUME n + 1 <= N, n + 1 <= M PROVE f[n + 1] = g[n + 1]
    OBVIOUS
  <2>2. n + 1 \in 1 .. N /\ n + 1 \in 1 .. M /\ (n + 1) - 1 = n /\ n <= N /\ n <= M
    BY <2>1
  <2>3. f[n + 1] = step[n + 1][f[n]] /\ g[n + 1] = step[n + 1][g[n]]
    BY <2>2 DEF Chain
  <2> QED
    BY <1>2, <2>2, <2>3
<1>3. Nat \subseteq T
  <2> HIDE DEF T
  <2> QED
    BY <1>1, <1>2, Induction
<1> QED
  BY <1>3


-----------------------------------------------------------------------------
(* A run of a system. *)
Trail(system, n, limit, states) ==
    /\ states \in Seq(Positive) /\ Len(states) >= 1 /\ states[1] = n
    /\ \A i \in 1 .. Len(states) - 1 : states[i + 1] = Transition(system, states[i])
    /\ \A i \in 2 .. Len(states) - 1 :
          /\ states[i] # 1 /\ i - 1 < limit
          /\ \A j \in 1 .. i - 1 : states[j] # states[i]

(* The last element of a sequence, and the sequence without it. *)
LEMMA Ends ==
    ASSUME NEW S, NEW s \in Seq(S), Len(s) >= 1
    PROVE  /\ Len(s) \in Nat /\ DOMAIN s = 1 .. Len(s)
           /\ Last(s) = s[Len(s)] /\ Last(s) \in S
           /\ Len(Front(s)) = Len(s) - 1 /\ DOMAIN Front(s) = 1 .. Len(s) - 1
           /\ \A i \in 1 .. Len(s) - 1 : Front(s)[i] = s[i]
           /\ \A v : v \in ToSet(Front(s)) <=> \E i \in 1 .. Len(s) - 1 : v = s[i]
<1>1. Len(s) \in Nat /\ DOMAIN s = 1 .. Len(s) /\ \A i \in 1 .. Len(s) : s[i] \in S
  BY LenProperties, ElementOfSeq
<1>2. Last(s) = s[Len(s)] /\ Last(s) \in S
  BY <1>1 DEF Last
<1>3. Front(s) = [i \in 1 .. Len(s) - 1 |-> s[i]]
  BY <1>1 DEF Front
<1>4. Len(Front(s)) = Len(s) - 1 /\ DOMAIN Front(s) = 1 .. Len(s) - 1
  BY <1>1, <1>3
<1> QED
  BY <1>1, <1>2, <1>3, <1>4 DEF ToSet

(* A turn of the loop adds one transition to a trail, or leaves it. *)
LEMMA TurnKeepsTrail ==
    ASSUME NEW system \in DOMAIN Multiplier, NEW n \in Positive, NEW limit \in Nat,
           NEW states, Trail(system, n, limit, states)
    PROVE  /\ Trail(system, n, limit, Turned(system, states, limit))
           /\ ~ Stops(states, limit) =>
                 Len(Turned(system, states, limit)) = Len(states) + 1
           /\ Stops(states, limit) => Turned(system, states, limit) = states
<1> DEFINE m == Len(states)
           next == Transition(system, Last(states))
           more == Append(states, next)
<1>1. /\ states \in Seq(Positive) /\ m \in Nat /\ m >= 1 /\ DOMAIN states = 1 .. m
      /\ Last(states) = states[m] /\ Last(states) \in Positive
      /\ \A v : v \in ToSet(Front(states)) <=> \E i \in 1 .. m - 1 : v = states[i]
  BY Ends DEF Trail
<1>2. CASE Stops(states, limit)
  BY <1>2 DEF Turned
<1>3. CASE ~ Stops(states, limit)
  <2>1. next \in Positive
    BY <1>1, StepsChangeLength
  <2>2. /\ more \in Seq(Positive) /\ Len(more) = m + 1
        /\ \A i \in 1 .. m : more[i] = states[i]
        /\ more[m + 1] = next
    BY <1>1, <2>1, AppendProperties
  <2>3. Turned(system, states, limit) = more
    BY <1>3 DEF Turned
  <2> HIDE DEF more, next
  <2>8. m \in Nat /\ m >= 1 /\ Len(more) - 1 = m
    BY <1>1, <2>2
  <2> HIDE DEF m
  <2>4. ASSUME NEW i \in 1 .. Len(more) - 1
        PROVE  more[i + 1] = Transition(system, more[i])
    <3>1. CASE i = m
      BY <1>1, <2>2, <2>8, <3>1 DEF next
    <3>2. CASE i # m
      <4>1. i \in 1 .. m - 1 /\ i \in 1 .. m /\ i + 1 \in 1 .. m
        BY <2>8, <3>2
      <4> QED
        BY <2>2, <4>1 DEF Trail, m
    <3> QED
      BY <3>1, <3>2
  <2>5. ASSUME NEW i \in 2 .. Len(more) - 1
        PROVE  /\ more[i] # 1 /\ i - 1 < limit
               /\ \A j \in 1 .. i - 1 : more[j] # more[i]
    <3>1. i \in 1 .. m /\ \A j \in 1 .. i - 1 : j \in 1 .. m
      BY <2>8
    <3>2. CASE i = m
      <4>1. /\ ~ ReachedOne(states[m]) /\ ~ (m - 1 >= limit)
            /\ \A j \in 1 .. m - 1 : states[j] # states[m]
        BY <1>1, <1>3, <3>2 DEF Stops
      <4> QED
        BY <1>1, <2>2, <3>1, <3>2, <4>1 DEF ReachedOne
    <3>3. CASE i # m
      <4>1. i \in 2 .. m - 1
        BY <2>8, <3>3
      <4> QED
        BY <2>2, <3>1, <4>1 DEF Trail, m
    <3> QED
      BY <3>2, <3>3
  <2>6. Len(more) >= 1 /\ more[1] = n
    BY <1>1, <2>2 DEF Trail
  <2>7. Trail(system, n, limit, more)
    BY <2>2, <2>4, <2>5, <2>6 DEF Trail
  <2> QED
    BY <1>3, <2>2, <2>3, <2>7 DEF m
<1> QED
  BY <1>2, <1>3

(* After MostSteps turns the loop has stopped: the limit is never          *)
(* exceeded.                                                               *)
LEMMA RunStops ==
    ASSUME NEW system \in DOMAIN Multiplier, NEW n \in Positive, NEW limit \in Nat
    PROVE  /\ Trail(system, n, limit, Extended(system, n, limit))
           /\ Stops(Extended(system, n, limit), limit)
<1> DEFINE N == MostSteps(limit)
           S == {s \in Seq(Positive) : Trail(system, n, limit, s)}
           Solves(f) == f = [k \in 0 .. N |-> IF k = 0 THEN <<n>> ELSE Turned(system, f[k - 1], limit)]
           after == CHOOSE f : Solves(f)
           step == [k \in Nat |-> [s \in S |-> Turned(system, s, limit)]]
<1>1. N \in Nat /\ N >= 1 /\ N >= limit
  BY DEF MostSteps
<1>2. Extended(system, n, limit) = after[N]
  BY DEF Extended
<1> HIDE DEF N
<1>3. <<n>> \in S
  <2>1. <<n>> \in Seq(Positive) /\ Len(<<n>>) = 1 /\ <<n>>[1] = n
    OBVIOUS
  <2> QED
    BY <2>1 DEF Trail
<1>4. \A s \in S : Turned(system, s, limit) \in S
  <2>1. ASSUME NEW s \in S PROVE Trail(system, n, limit, Turned(system, s, limit))
    BY TurnKeepsTrail
  <2>2. \A s : Trail(system, n, limit, s) => s \in Seq(Positive)
    BY DEF Trail
  <2> QED
    BY <2>1, <2>2
<1>5. step \in [Nat -> [S -> S]]
  BY <1>4
<1>6. PICK f \in [0 .. N -> S] : Chain(f, <<n>>, step, N)
  <2> HIDE DEF S, step
  <2> QED
    BY <1>1, <1>3, <1>5, ChainExists
<1>7. \A k \in 1 .. N : k - 1 \in 0 .. N /\ k \in Nat /\ f[k - 1] \in S
  BY <1>1
<1>8. f[0] = <<n>> /\ \A k \in 1 .. N : f[k] = Turned(system, f[k - 1], limit)
  BY <1>6, <1>7 DEF Chain
<1>9. \A k \in 0 .. N : k = 0 \/ k \in 1 .. N
  BY <1>1
<1> HIDE DEF S, step
<1>10. Solves(f)
  BY <1>8, <1>9
<1>11. Solves(after)
  BY <1>10
<1> HIDE DEF after
<1>12. after[0] = <<n>> /\ \A k \in 1 .. N : after[k] = Turned(system, after[k - 1], limit)
  <2>1. 0 \in 0 .. N /\ \A k \in 1 .. N : k \in 0 .. N /\ k # 0
    BY <1>1
  <2> QED
    BY <1>11, <2>1
<1> HIDE DEF Solves
<1> DEFINE Good(k) == /\ after[k] \in S
                      /\ Stops(after[k], limit) \/ Len(after[k]) = k + 1
           T == {k \in Nat : k <= N => Good(k)}
<1>13. 0 \in T
  BY <1>3, <1>12
<1>14. ASSUME NEW k \in Nat, k \in T
       PROVE  k + 1 \in T
  <2>1. SUFFICES ASSUME k + 1 <= N PROVE Good(k + 1)
    OBVIOUS
  <2>2. k <= N /\ k + 1 \in 1 .. N /\ (k + 1) - 1 = k
    BY <1>1, <2>1
  <2>3. Good(k) /\ after[k + 1] = Turned(system, after[k], limit)
    BY <1>12, <1>14, <2>2
  <2>4. Trail(system, n, limit, after[k])
    BY <2>3 DEF S
  <2>5. /\ after[k + 1] \in S
        /\ ~ Stops(after[k], limit) => Len(after[k + 1]) = Len(after[k]) + 1
        /\ Stops(after[k], limit) => after[k + 1] = after[k]
    BY <1>4, <2>3, <2>4, TurnKeepsTrail
  <2> QED
    BY <2>3, <2>5
<1>15. Nat \subseteq T
  <2> HIDE DEF T
  <2> QED
    BY <1>13, <1>14, Induction
<1>16. Good(N)
  <2> HIDE DEF Good
  <2> QED
    BY <1>1, <1>15
<1>17. Trail(system, n, limit, after[N])
  BY <1>16 DEF S
<1>18. Len(after[N]) = N + 1 => Stops(after[N], limit)
  BY <1>1 DEF Stops
<1> QED
  BY <1>2, <1>16, <1>17, <1>18

(* What a finished run looks like. *)
Complete(system, n, limit, states) ==
    /\ Trail(system, n, limit, states)
    /\ Len(states) >= 2
    /\ \/ states[Len(states)] = 1
       \/ \E j \in 1 .. Len(states) - 1 : states[j] = states[Len(states)]
       \/ Len(states) - 1 >= limit

(* What RunSystem returns is a complete trail with the status of its end. *)
LEMMA RunCompletes ==
    ASSUME NEW system \in DOMAIN Multiplier, NEW n \in Positive, NEW limit \in Nat
    PROVE  LET run == RunSystem(system, n, limit)
               m == Len(run.states)
           IN /\ Complete(system, n, limit, run.states)
              /\ run.iterations = m - 1
              /\ \/ run.status = "Converged" /\ run.states[m] = 1
                 \/ /\ run.status = "CycleDetected" /\ run.states[m] # 1
                    /\ \E j \in 1 .. m - 1 : run.states[j] = run.states[m]
                 \/ /\ run.status = "IterationLimitReached" /\ run.states[m] # 1
                    /\ \A j \in 1 .. m - 1 : run.states[j] # run.states[m]
                    /\ m - 1 = MostSteps(limit)
<1> DEFINE s == Extended(system, n, limit)
           m == Len(s)
<1>1. Trail(system, n, limit, s) /\ Stops(s, limit)
  BY RunStops
<1>2. RunSystem(system, n, limit) = [status |-> StatusOf(s), states |-> s, iterations |-> m - 1]
  BY DEF RunSystem
<1> HIDE DEF s
<1>3. /\ m \in Nat /\ m >= 1 /\ Last(s) = s[m]
      /\ \A v : v \in ToSet(Front(s)) <=> \E i \in 1 .. m - 1 : v = s[i]
  BY <1>1, Ends DEF Trail
<1>4. Complete(system, n, limit, s)
  BY <1>1, <1>3 DEF Complete, Stops, ReachedOne
<1>5. \/ StatusOf(s) = "Converged" /\ s[m] = 1
      \/ /\ StatusOf(s) = "CycleDetected" /\ s[m] # 1
         /\ \E j \in 1 .. m - 1 : s[j] = s[m]
      \/ /\ StatusOf(s) = "IterationLimitReached" /\ s[m] # 1
         /\ \A j \in 1 .. m - 1 : s[j] # s[m]
  BY <1>3 DEF StatusOf, ReachedOne
<1>6. ASSUME s[m] # 1, \A j \in 1 .. m - 1 : s[j] # s[m]
      PROVE  m - 1 = MostSteps(limit)
  <2>1. m - 1 >= limit /\ m - 1 >= 1
    BY <1>3, <1>4, <1>6 DEF Complete
  <2>2. ASSUME m - 1 >= 2 PROVE (m - 1) - 1 < limit
    <3>1. m - 1 \in 2 .. m - 1
      BY <1>3, <2>2
    <3> QED
      BY <1>1, <3>1 DEF Trail
  <2>6. m \in Nat
    BY <1>3
  <2>3. m - 1 = 1 \/ m - 1 >= 2
    <3> HIDE DEF m
    <3> QED
      BY <2>1, <2>6
  <2>4. m - 1 >= limit /\ (m - 1 = 1 \/ (m - 1) - 1 < limit)
    BY <2>1, <2>2, <2>3
  <2> HIDE DEF m
  <2>5. limit \in Nat /\ m \in Nat /\ m - 1 >= 1
    BY <1>3, <2>1
  <2> QED
    BY <2>4, <2>5 DEF MostSteps
<1> QED
  BY <1>2, <1>4, <1>5, <1>6

(* A run is over when its last state is 1 or one it has been in. *)
Over(states) ==
    \/ states[Len(states)] = 1
    \/ \E j \in 1 .. Len(states) - 1 : states[j] = states[Len(states)]

(* Trails of one state agree as far as both go, *)
LEMMA SamePath ==
    ASSUME NEW system, NEW n, NEW k, NEW l, NEW s, NEW t,
           Trail(system, n, k, s), Trail(system, n, l, t)
    PROVE  \A i \in Nat : i >= 1 /\ i <= Len(s) /\ i <= Len(t) => s[i] = t[i]
<1> DEFINE T == {i \in Nat : i >= 1 /\ i <= Len(s) /\ i <= Len(t) => s[i] = t[i]}
<1>1. Len(s) \in Nat /\ Len(t) \in Nat
  BY LenProperties DEF Trail
<1>2. 0 \in T
  OBVIOUS
<1>3. ASSUME NEW i \in Nat, i \in T
      PROVE  i + 1 \in T
  <2>1. SUFFICES ASSUME i + 1 <= Len(s), i + 1 <= Len(t) PROVE s[i + 1] = t[i + 1]
    OBVIOUS
  <2>2. CASE i = 0
    BY <2>2 DEF Trail
  <2>3. CASE i # 0
    <3>1. i \in 1 .. Len(s) - 1 /\ i \in 1 .. Len(t) - 1 /\ s[i] = t[i]
      BY <1>1, <1>3, <2>1, <2>3
    <3> QED
      BY <3>1 DEF Trail
  <2> QED
    BY <2>2, <2>3
<1>4. Nat \subseteq T
  <2> HIDE DEF T
  <2> QED
    BY <1>2, <1>3, Induction
<1> QED
  BY <1>4

(* and neither goes on after the other is over. *)
LEMMA NoLonger ==
    ASSUME NEW system, NEW n, NEW k, NEW l, NEW s, NEW t,
           Trail(system, n, k, s), Trail(system, n, l, t), Len(s) >= 2, Over(s)
    PROVE  Len(t) <= Len(s)
<1> DEFINE m == Len(s)
<1>1. m \in Nat /\ Len(t) \in Nat
  BY LenProperties DEF Trail
<1>2. SUFFICES ASSUME m < Len(t) PROVE FALSE
  <2> HIDE DEF m
  <2> QED
    BY <1>1 DEF m
<1>3. m \in 2 .. Len(t) - 1
  BY <1>1, <1>2
<1>4. t[m] # 1 /\ \A j \in 1 .. m - 1 : t[j] # t[m]
  BY <1>3 DEF Trail
<1>5. \A j \in 1 .. m : s[j] = t[j]
  <2>1. \A j \in 1 .. m : j \in Nat /\ j >= 1 /\ j <= Len(s) /\ j <= Len(t)
    BY <1>1, <1>2
  <2> QED
    BY <2>1, SamePath
<1>6. m \in 1 .. m /\ \A j \in 1 .. m - 1 : j \in 1 .. m
  BY <1>1
<1> QED
  BY <1>4, <1>5, <1>6 DEF Over

(* Two runs from one state that are both over are the same run. *)
LEMMA SameRun ==
    ASSUME NEW system, NEW n, NEW k, NEW l, NEW s, NEW t,
           Trail(system, n, k, s), Trail(system, n, l, t), Len(s) >= 2, Len(t) >= 2,
           Over(s), Over(t)
    PROVE  s = t
<1>1. Len(s) \in Nat /\ Len(t) \in Nat /\ s \in Seq(Positive) /\ t \in Seq(Positive)
  BY LenProperties DEF Trail
<1>2. Len(s) <= Len(t) /\ Len(t) <= Len(s)
  BY NoLonger
<1>3. Len(s) = Len(t)
  BY <1>1, <1>2
<1>4. \A i \in 1 .. Len(s) : s[i] = t[i]
  <2>1. \A i \in 1 .. Len(s) : i \in Nat /\ i >= 1 /\ i <= Len(s) /\ i <= Len(t)
    BY <1>1, <1>3
  <2> QED
    BY <2>1, SamePath
<1> QED
  BY <1>1, <1>3, <1>4, SeqEqual

(* The expected dataset rows that are over are the runs of their states. *)
LEMMA KnownTrails ==
    ASSUME NEW c \in CollatzDataset \cup FiveNPlusOneDataset
    PROVE  /\ Trail(c.system, c.n, 1000, c.states)
           /\ Len(c.states) >= 2 /\ Over(c.states)
           /\ c.status = IF c.states[Len(c.states)] = 1 THEN "Converged" ELSE "CycleDetected"
<1> USE DEF Trail, Over, Transition, Multiplier, Positive
<1>1. CASE c = Case("collatz", 1, "Converged", <<1, 4, 2, 1>>)
  BY <1>1 DEF Case
<1>2. CASE c = Case("collatz", 2, "Converged", <<2, 1>>)
  BY <1>2 DEF Case
<1>3. CASE c = Case("collatz", 3, "Converged", <<3, 10, 5, 16, 8, 4, 2, 1>>)
  BY <1>3 DEF Case
<1>4. CASE c = Case("collatz", 6, "Converged", <<6, 3, 10, 5, 16, 8, 4, 2, 1>>)
  BY <1>4 DEF Case
<1>5. CASE c = Case("collatz", 7, "Converged", <<7, 22, 11, 34, 17, 52, 26, 13, 40, 20, 10, 5, 16, 8, 4, 2, 1>>)
  BY <1>5 DEF Case
<1>6. CASE c = Case("five", 1, "Converged", <<1, 6, 3, 16, 8, 4, 2, 1>>)
  BY <1>6 DEF Case
<1>7. CASE c = Case("five", 3, "Converged", <<3, 16, 8, 4, 2, 1>>)
  BY <1>7 DEF Case
<1>8. CASE c = Case("five", 13, "CycleDetected", <<13, 66, 33, 166, 83, 416, 208, 104, 52, 26, 13>>)
  BY <1>8 DEF Case
<1> QED
  BY <1>1, <1>2, <1>3, <1>4, <1>5, <1>6, <1>7, <1>8 DEF CollatzDataset, FiveNPlusOneDataset

(* A sequence of positive numbers, as a run makes it. *)
LEMMA TrailIndices ==
    ASSUME NEW system \in DOMAIN Multiplier, NEW n, NEW limit, NEW states,
           Trail(system, n, limit, states)
    PROVE  /\ Len(states) \in Nat /\ Len(states) >= 1 /\ DOMAIN states = 1 .. Len(states)
           /\ \A i \in 1 .. Len(states) : states[i] \in Positive
           /\ \A i \in 1 .. Len(states) - 1 :
                 /\ i \in 1 .. Len(states) /\ i + 1 \in 1 .. Len(states)
                 /\ states[i + 1] = Transition(system, states[i])
           /\ Parity(states) = [i \in 1 .. Len(states) - 1 |-> states[i] % 2]
           /\ DOMAIN Parity(states) = 1 .. Len(states) - 1
           /\ Len(Parity(states)) = Len(states) - 1
           /\ BitLengths(states) = [i \in 1 .. Len(states) |-> Bits[states[i]]]
           /\ Len(BitLengths(states)) = Len(states)
<1>1. Len(states) \in Nat /\ Len(states) >= 1 /\ DOMAIN states = 1 .. Len(states)
  BY LenProperties DEF Trail
<1>2. \A i \in 1 .. Len(states) : states[i] \in Positive
  BY ElementOfSeq DEF Trail
<1>3. \A i \in 1 .. Len(states) - 1 :
         /\ i \in 1 .. Len(states) /\ i + 1 \in 1 .. Len(states)
         /\ states[i + 1] = Transition(system, states[i])
  BY <1>1 DEF Trail
<1> DEFINE m == Len(states)
<1>4. Parity(states) = [i \in 1 .. m - 1 |-> states[i] % 2] /\ DOMAIN Parity(states) = 1 .. m - 1
  BY DEF Parity
<1>5. BitLengths(states) = [i \in 1 .. m |-> Bits[states[i]]]
  BY <1>1 DEF BitLengths
<1>6. m \in Nat /\ m - 1 \in Nat
  BY <1>1
<1> HIDE DEF m
<1>7. Len(Parity(states)) = m - 1 /\ Len(BitLengths(states)) = m
  BY <1>4, <1>5, <1>6
<1> QED
  BY <1>1, <1>2, <1>3, <1>4, <1>5, <1>7 DEF m

(* Every odd step is an increase, every other one a decrease. *)
LEMMA StepsCounted ==
    ASSUME NEW system \in DOMAIN Multiplier, NEW n, NEW limit, NEW states,
           Trail(system, n, limit, states)
    PROVE  LET odd == CountOf(Parity(states), 1)
           IN /\ odd \in Nat /\ odd <= Len(states) - 1
              /\ TransitionStatistics(BitLengths(states)) =
                   [increases |-> odd, decreases |-> Len(states) - 1 - odd, same |-> 0]
<1> DEFINE m == Len(states)
           lengths == BitLengths(states)
           steps == 1 .. m - 1
           up == {i \in steps : lengths[i + 1] > lengths[i]}
           down == {i \in steps : lengths[i + 1] < lengths[i]}
           level == {i \in steps : lengths[i + 1] = lengths[i]}
<1>1. /\ m \in Nat /\ m >= 1
      /\ \A i \in steps :
            /\ i \in 1 .. m /\ i + 1 \in 1 .. m
            /\ states[i + 1] = Transition(system, states[i]) /\ states[i] \in Positive
      /\ Parity(states) = [i \in steps |-> states[i] % 2]
      /\ lengths = [i \in 1 .. m |-> Bits[states[i]]] /\ Len(lengths) = m
  BY TrailIndices
<1>2. \A i \in steps : lengths[i] = Bits[states[i]] /\ lengths[i + 1] = Bits[states[i + 1]]
  BY <1>1
<1>3. \A i \in steps :
         /\ lengths[i] \in Nat /\ lengths[i + 1] \in Nat
         /\ states[i] % 2 \in {0, 1}
         /\ states[i] % 2 = 1 => lengths[i + 1] > lengths[i]
         /\ states[i] % 2 = 0 => lengths[i + 1] < lengths[i]
  BY <1>1, <1>2, StepsChangeLength
<1>4. TransitionStatistics(lengths) =
        [increases |-> Cardinality(up), decreases |-> Cardinality(down), same |-> Cardinality(level)]
  BY <1>1 DEF TransitionStatistics
<1> HIDE DEF lengths
<1>5. {i \in DOMAIN Parity(states) : Parity(states)[i] = 1} = up
  <2>1. \A i \in steps : lengths[i + 1] > lengths[i] <=> states[i] % 2 = 1
    BY <1>3
  <2> QED
    BY <1>1, <2>1
<1>6. ASSUME NEW i \in steps
      PROVE  /\ lengths[i + 1] < lengths[i] <=> ~ (lengths[i + 1] > lengths[i])
             /\ ~ (lengths[i + 1] = lengths[i])
  <2>1. lengths[i] \in Nat /\ lengths[i + 1] \in Nat
    BY <1>3
  <2>2. lengths[i + 1] > lengths[i] \/ lengths[i + 1] < lengths[i]
    BY <1>3
  <2> QED
    BY <2>1, <2>2
<1>7. down = steps \ up /\ level = {}
  BY <1>6
<1>8. IsFiniteSet(steps) /\ Cardinality(steps) = m - 1
  BY <1>1, FS_Interval
<1>9. up \subseteq steps
  OBVIOUS
<1> HIDE DEF up, down, level
<1>10. IsFiniteSet(up) /\ Cardinality(up) <= m - 1 /\ Cardinality(up) \in Nat
  BY <1>8, <1>9, FS_Subset, FS_CardinalityType
<1>11. Cardinality(down) = m - 1 - Cardinality(up)
  <2>1. Cardinality(steps \ up) = Cardinality(steps) - Cardinality(steps \cap up)
    BY <1>8, FS_Difference
  <2>2. steps \cap up = up
    BY <1>9
  <2> QED
    BY <1>7, <1>8, <2>1, <2>2
<1>12. Cardinality(level) = 0
  BY <1>7, FS_EmptySet
<1> QED
  BY <1>4, <1>5, <1>10, <1>11, <1>12 DEF CountOf, lengths

(* The peak is the first of the largest. *)
LEMMA PeakIsFirst ==
    ASSUME NEW states \in Seq(Nat), Len(states) >= 1
    PROVE  LET peak == PeakIndex(states) + 1
           IN /\ PeakIndex(states) \in Nat /\ peak \in 1 .. Len(states)
              /\ \A i \in 1 .. Len(states) :
                    /\ states[i] <= states[peak]
                    /\ states[i] = states[peak] => peak <= i
<1> DEFINE N == Len(states)
           Higher(i, peak) == IF states[i] > states[peak] THEN i ELSE peak
           Solves(f) == f = [i \in 0 .. N |-> IF i = 0 THEN 1 ELSE Higher(i, f[i - 1])]
           after == CHOOSE f : Solves(f)
           step == [k \in Nat |-> [p \in Nat |-> IF k \in 1 .. N THEN Higher(k, p) ELSE p]]
<1>1. N \in Nat /\ N >= 1 /\ \A i \in 1 .. N : states[i] \in Nat
  BY LenProperties, ElementOfSeq
<1>2. PeakIndex(states) = after[N] - 1
  BY DEF PeakIndex
<1> HIDE DEF N
<1>3. step \in [Nat -> [Nat -> Nat]]
  BY <1>1
<1>4. PICK f \in [0 .. N -> Nat] : Chain(f, 1, step, N)
  <2> HIDE DEF step
  <2> QED
    BY <1>1, <1>3, ChainExists
<1>5. f[0] = 1 /\ \A k \in 1 .. N : f[k] = Higher(k, f[k - 1])
  <2>1. \A k \in 1 .. N : k - 1 \in 0 .. N /\ k \in Nat /\ f[k - 1] \in Nat
    BY <1>1
  <2> QED
    BY <1>4, <2>1 DEF Chain
<1>6. \A k \in 0 .. N : k = 0 \/ k \in 1 .. N
  BY <1>1
<1>7. Solves(f)
  BY <1>5, <1>6
<1>8. Solves(after)
  <2> HIDE DEF Solves
  <2> QED
    BY <1>7
<1>9. after[0] = 1 /\ \A k \in 1 .. N : after[k] = Higher(k, after[k - 1])
  <2>1. 0 \in 0 .. N /\ \A k \in 1 .. N : k \in 0 .. N /\ k # 0
    BY <1>1
  <2> HIDE DEF after
  <2> QED
    BY <1>8, <2>1
<1> HIDE DEF after, Solves
<1> DEFINE Good(k) == /\ after[k] \in 1 .. N /\ after[k] <= k + 1
                      /\ \A i \in 1 .. N : i <= k =>
                            /\ states[i] <= states[after[k]]
                            /\ states[i] = states[after[k]] => after[k] <= i
           T == {k \in Nat : k <= N => Good(k)}
<1>10. 0 \in T
  BY <1>1, <1>9
<1>11. ASSUME NEW k \in Nat, k \in T
       PROVE  k + 1 \in T
  <2>1. SUFFICES ASSUME k + 1 <= N PROVE Good(k + 1)
    OBVIOUS
  <2>2. k <= N /\ k + 1 \in 1 .. N /\ (k + 1) - 1 = k
    BY <1>1, <2>1
  <2>3. Good(k) /\ after[k + 1] = Higher(k + 1, after[k])
    BY <1>9, <1>11, <2>2
  <2>4. \A i \in 1 .. N : i <= k + 1 => i <= k \/ i = k + 1
    OBVIOUS
  <2>5. CASE states[k + 1] > states[after[k]]
    <3>1. after[k + 1] = k + 1
      BY <2>3, <2>5
    <3>2. ASSUME NEW i \in 1 .. N, i <= k
          PROVE  states[i] < states[k + 1]
      <4>1. states[i] <= states[after[k]] /\ states[i] \in Nat /\ states[k + 1] \in Nat
            /\ states[after[k]] \in Nat
        BY <1>1, <2>2, <2>3, <3>2
      <4> QED
        BY <2>5, <4>1
    <3> QED
      BY <1>1, <2>2, <2>4, <3>1, <3>2, SMTT(30)
  <2>6. CASE ~ (states[k + 1] > states[after[k]])
    <3>1. after[k + 1] = after[k]
      BY <2>3, <2>6
    <3>2. states[k + 1] <= states[after[k]] /\ (states[k + 1] = states[after[k]] => after[k] <= k + 1)
      <4>1. after[k] <= k + 1
        BY <2>3
      <4> QED
        BY <1>1, <2>2, <2>3, <2>6, <4>1, SMTT(30)
    <3> QED
      BY <2>3, <2>4, <3>1, <3>2
  <2> QED
    BY <2>5, <2>6
<1>12. Nat \subseteq T
  <2> HIDE DEF T
  <2> QED
    BY <1>10, <1>11, Induction
<1>13. Good(N)
  BY <1>1, <1>12
<1> QED
  BY <1>1, <1>2, <1>13 DEF N

(* The first state below the start, if there is one. *)
LEMMA StopsBelow ==
    ASSUME NEW states \in Seq(Nat), Len(states) >= 1
    PROVE  LET time == StoppingTime(states)
           IN \/ /\ time = NA
                 /\ \A i \in 2 .. Len(states) : states[i] >= states[1]
              \/ /\ time \in 1 .. Len(states) - 1
                 /\ states[time + 1] < states[1]
                 /\ \A i \in 1 .. time : states[i] >= states[1]
<1> DEFINE N == Len(states)
           below == {i \in 2 .. N : states[i] < states[1]}
<1>1. N \in Nat /\ N >= 1 /\ \A i \in 1 .. N : states[i] \in Nat
  BY LenProperties, ElementOfSeq
<1>2. StoppingTime(states) = IF below = {} THEN NA ELSE Min(below) - 1
  BY DEF StoppingTime
<1> HIDE DEF N
<1>3. 1 \in 1 .. N /\ \A i \in 2 .. N : i \in 1 .. N
  BY <1>1
<1>4. CASE below = {}
  <2>1. \A i \in 2 .. N : states[i] >= states[1]
    BY <1>1, <1>3, <1>4
  <2> QED
    BY <1>2, <1>4, <2>1 DEF N
<1>5. CASE below # {}
  <2>1. below \in SUBSET Nat
    BY <1>1
  <2>2. Min(below) \in below /\ \A k \in below : Min(below) <= k
    <3> HIDE DEF below
    <3> QED
      BY <1>5, <2>1, Least
  <2> DEFINE first == Min(below)
  <2>3. first \in 2 .. N /\ states[first] < states[1] /\ \A k \in below : first <= k
    BY <2>2
  <2> HIDE DEF first
  <2>4. ASSUME NEW i \in 1 .. first - 1
        PROVE  states[i] >= states[1]
    <3>1. CASE i = 1
      BY <1>1, <1>3, <3>1
    <3>2. CASE i # 1
      <4>1. i \in 2 .. N /\ ~ (first <= i)
        BY <1>1, <2>3, <3>2
      <4>2. i \notin below
        BY <2>3, <4>1
      <4> QED
        BY <1>1, <1>3, <4>1, <4>2
    <3> QED
      BY <3>1, <3>2
  <2>5. StoppingTime(states) = first - 1
    BY <1>2, <1>5 DEF first
  <2>6. first - 1 \in 1 .. N - 1 /\ (first - 1) + 1 = first
    BY <1>1, <2>3
  <2> QED
    BY <2>3, <2>4, <2>5, <2>6 DEF N
<1> QED
  BY <1>4, <1>5

-----------------------------------------------------------------------------
(* A constant table is a sequence. *)
LEMMA Repeated ==
    ASSUME NEW S, NEW v \in S, NEW n \in Nat
    PROVE  LET s == [i \in 1 .. n |-> v]
           IN s \in Seq(S) /\ Len(s) = n /\ \A i \in 1 .. n : s[i] = v
  OBVIOUS

(* So is a table of values. *)
LEMMA Tabled ==
    ASSUME NEW S, NEW n \in Nat, NEW f \in [1 .. n -> S]
    PROVE  f \in Seq(S) /\ Len(f) = n
  OBVIOUS

(* Appending to the second of two parts appends to the whole. *)
LEMMA AppendInside ==
    ASSUME NEW S, NEW u \in Seq(S), NEW v \in Seq(S), NEW x \in S
    PROVE  u \o Append(v, x) = Append(u \o v, x)
<1> DEFINE a == u \o Append(v, x)
           b == Append(u \o v, x)
           N == Len(u)
           M == Len(v)
<1>1. N \in Nat /\ M \in Nat
  BY LenProperties
<1>2. /\ Append(v, x) \in Seq(S) /\ Len(Append(v, x)) = M + 1
      /\ \A i \in 1 .. M : Append(v, x)[i] = v[i]
      /\ Append(v, x)[M + 1] = x
  BY AppendProperties
<1>3. /\ u \o v \in Seq(S) /\ Len(u \o v) = N + M
      /\ \A i \in 1 .. N + M : (u \o v)[i] = IF i <= N THEN u[i] ELSE v[i - N]
  BY ConcatProperties
<1>4. /\ a \in Seq(S) /\ Len(a) = N + (M + 1)
      /\ \A i \in 1 .. N + (M + 1) : a[i] = IF i <= N THEN u[i] ELSE Append(v, x)[i - N]
  BY <1>2, ConcatProperties
<1>5. /\ b \in Seq(S) /\ Len(b) = (N + M) + 1
      /\ \A i \in 1 .. N + M : b[i] = (u \o v)[i]
      /\ b[(N + M) + 1] = x
  BY <1>3, AppendProperties
<1> HIDE DEF a, b, N, M
<1>6. ASSUME NEW i \in 1 .. Len(a)
      PROVE  a[i] = b[i]
  <2>1. CASE i = N + M + 1
    <3>1. i \in 1 .. N + (M + 1) /\ ~ (i <= N) /\ i - N = M + 1
      BY <1>1, <2>1
    <3> QED
      BY <1>2, <1>4, <1>5, <2>1, <3>1
  <2>2. CASE i # N + M + 1
    <3>1. /\ i \in 1 .. N + (M + 1) /\ i \in 1 .. N + M
          /\ ~ (i <= N) => i - N \in 1 .. M
      BY <1>1, <1>4, <2>2
    <3> QED
      BY <1>2, <1>3, <1>4, <1>5, <3>1
  <2> QED
    BY <2>1, <2>2
<1>7. Len(a) = Len(b)
  BY <1>1, <1>4, <1>5
<1>8. a = b
  BY <1>4, <1>5, <1>6, <1>7, SeqEqual
<1> QED
  BY <1>8 DEF a, b

(* The runs of a parity sequence. *)
Bit == {0, 1}

Written(f, lengths, first) ==
    /\ f[0] = <<>>
    /\ \A k \in 1 .. Len(lengths) :
          f[k] = f[k - 1] \o [i \in 1 .. lengths[k] |-> (first + k - 1) % 2]

(* Unrolled starts from nothing and adds one block for each length, *)
LEMMA UnrolledIs ==
    ASSUME NEW lengths \in Seq(Nat), NEW first \in Nat
    PROVE  \E f \in [0 .. Len(lengths) -> Seq(Bit)] :
              Written(f, lengths, first) /\ Unrolled(lengths, first) = f[Len(lengths)]
<1> DEFINE N == Len(lengths)
           S == Seq(Bit)
           Solves(f) == f = [k \in 0 .. N |-> IF k = 0 THEN <<>>
                               ELSE f[k - 1] \o [i \in 1 .. lengths[k] |-> (first + k - 1) % 2]]
           bits == CHOOSE f : Solves(f)
           step == [k \in Nat |-> [s \in S |-> IF k \in 1 .. N
                       THEN s \o [i \in 1 .. lengths[k] |-> (first + k - 1) % 2] ELSE s]]
<1>1. N \in Nat /\ \A k \in 1 .. N : lengths[k] \in Nat
  BY LenProperties, ElementOfSeq
<1>2. Unrolled(lengths, first) = bits[N]
  BY DEF Unrolled
<1> HIDE DEF N
<1>3. ASSUME NEW k \in 1 .. N, NEW s \in S
      PROVE  s \o [i \in 1 .. lengths[k] |-> (first + k - 1) % 2] \in S
  <2>1. lengths[k] \in Nat /\ (first + k - 1) % 2 \in Bit
    BY <1>1 DEF Bit
  <2>2. [i \in 1 .. lengths[k] |-> (first + k - 1) % 2] \in Seq(Bit)
    BY <2>1, Repeated
  <2> QED
    BY <2>2, ConcatProperties
<1>4. step \in [Nat -> [S -> S]]
  BY <1>3
<1>5. PICK f \in [0 .. N -> S] : Chain(f, <<>>, step, N)
  <2>1. <<>> \in S
    OBVIOUS
  <2> HIDE DEF step, S
  <2> QED
    BY <1>1, <1>4, <2>1, ChainExists
<1>6. f[0] = <<>> /\ \A k \in 1 .. N :
         f[k] = f[k - 1] \o [i \in 1 .. lengths[k] |-> (first + k - 1) % 2]
  <2>1. \A k \in 1 .. N : k - 1 \in 0 .. N /\ k \in Nat /\ f[k - 1] \in S
    BY <1>1
  <2> QED
    BY <1>5, <2>1 DEF Chain
<1>7. \A k \in 0 .. N : k = 0 \/ k \in 1 .. N
  BY <1>1
<1>8. Solves(f)
  BY <1>6, <1>7
<1>9. Solves(bits)
  <2> HIDE DEF Solves
  <2> QED
    BY <1>8
<1> HIDE DEF bits
<1>10. bits[0] = <<>> /\ \A k \in 1 .. N :
          bits[k] = bits[k - 1] \o [i \in 1 .. lengths[k] |-> (first + k - 1) % 2]
  <2>1. 0 \in 0 .. N /\ \A k \in 1 .. N : k \in 0 .. N /\ k # 0
    BY <1>1
  <2> QED
    BY <1>9, <2>1
<1> DEFINE T == {k \in Nat : k <= N => bits[k] \in S}
<1>11. 0 \in T
  <2>1. <<>> \in S
    OBVIOUS
  <2> HIDE DEF S
  <2> QED
    BY <1>10, <2>1
<1>12. ASSUME NEW k \in Nat, k \in T
       PROVE  k + 1 \in T
  <2>1. SUFFICES ASSUME k + 1 <= N PROVE bits[k + 1] \in S
    OBVIOUS
  <2>2. k <= N /\ k + 1 \in 1 .. N /\ (k + 1) - 1 = k
    BY <1>1, <2>1
  <2>3. bits[k] \in S
    BY <1>12, <2>2
  <2> HIDE DEF S
  <2>4. bits[k + 1] = bits[(k + 1) - 1] \o [i \in 1 .. lengths[k + 1] |-> (first + (k + 1) - 1) % 2]
    BY <1>10, <2>2
  <2>5. bits[k] \o [i \in 1 .. lengths[k + 1] |-> (first + (k + 1) - 1) % 2] \in S
    BY <1>3, <2>2, <2>3
  <2> QED
    BY <2>2, <2>4, <2>5
<1>13. Nat \subseteq T
  <2> HIDE DEF T
  <2> QED
    BY <1>11, <1>12, Induction
<1>14. \A k \in 0 .. N : bits[k] \in S
  BY <1>1, <1>13
<1>15. bits = [k \in 0 .. N |-> bits[k]]
  BY <1>9
<1>16. bits \in [0 .. N -> S]
  <2> HIDE DEF S
  <2> QED
    BY <1>14, <1>15
<1> QED
  BY <1>2, <1>10, <1>16 DEF Written, N

(* so that one length more is one block more at the end. *)
LEMMA UnrolledGrows ==
    ASSUME NEW first \in Nat
    PROVE  /\ Unrolled(<<>>, first) = <<>>
           /\ \A lengths \in Seq(Nat) : Unrolled(lengths, first) \in Seq(Bit)
           /\ \A lengths \in Seq(Nat), x \in Nat :
                 Unrolled(Append(lengths, x), first) =
                    Unrolled(lengths, first) \o [i \in 1 .. x |-> (first + Len(lengths)) % 2]
<1>1. Unrolled(<<>>, first) = <<>>
  <2>1. <<>> \in Seq(Nat) /\ Len(<<>>) = 0
    OBVIOUS
  <2>2. PICK f : Written(f, <<>>, first) /\ Unrolled(<<>>, first) = f[Len(<<>>)]
    BY <2>1, UnrolledIs
  <2> QED
    BY <2>1, <2>2 DEF Written
<1>2. ASSUME NEW lengths \in Seq(Nat)
      PROVE  Unrolled(lengths, first) \in Seq(Bit)
  <2>1. PICK f \in [0 .. Len(lengths) -> Seq(Bit)] : Unrolled(lengths, first) = f[Len(lengths)]
    BY UnrolledIs
  <2>2. Len(lengths) \in 0 .. Len(lengths)
    BY LenProperties
  <2> QED
    BY <2>1, <2>2
<1>3. ASSUME NEW lengths \in Seq(Nat), NEW x \in Nat
      PROVE  Unrolled(Append(lengths, x), first) =
                Unrolled(lengths, first) \o [i \in 1 .. x |-> (first + Len(lengths)) % 2]
  <2> DEFINE N == Len(lengths)
             more == Append(lengths, x)
  <2>1. /\ N \in Nat /\ more \in Seq(Nat) /\ Len(more) = N + 1 /\ more[N + 1] = x
        /\ \A i \in 1 .. N : more[i] = lengths[i]
    BY LenProperties, AppendProperties
  <2>2. PICK f : Written(f, lengths, first) /\ Unrolled(lengths, first) = f[N]
    BY UnrolledIs
  <2>3. PICK g : Written(g, more, first) /\ Unrolled(more, first) = g[Len(more)]
    BY <2>1, UnrolledIs
  <2> HIDE DEF more
  <2> DEFINE T == {k \in Nat : k <= N => f[k] = g[k]}
  <2>4. 0 \in T
    BY <2>2, <2>3 DEF Written
  <2>5. ASSUME NEW k \in Nat, k \in T
        PROVE  k + 1 \in T
    <3>1. SUFFICES ASSUME k + 1 <= N PROVE f[k + 1] = g[k + 1]
      OBVIOUS
    <3> HIDE DEF N
    <3>2. k <= N /\ k + 1 \in 1 .. N /\ k + 1 \in 1 .. N + 1 /\ (k + 1) - 1 = k
      BY <2>1, <3>1
    <3>3. f[k + 1] = f[(k + 1) - 1] \o [i \in 1 .. lengths[k + 1] |-> (first + (k + 1) - 1) % 2]
      BY <2>2, <3>2 DEF Written, N
    <3>4. g[k + 1] = g[(k + 1) - 1] \o [i \in 1 .. more[k + 1] |-> (first + (k + 1) - 1) % 2]
      BY <2>1, <2>3, <3>2 DEF Written
    <3>5. more[k + 1] = lengths[k + 1] /\ f[k] = g[k]
      BY <2>1, <2>5, <3>2
    <3> QED
      BY <3>2, <3>3, <3>4, <3>5
  <2>6. Nat \subseteq T
    <3> HIDE DEF T
    <3> QED
      BY <2>4, <2>5, Induction
  <2> HIDE DEF N
  <2>7. f[N] = g[N]
    BY <2>1, <2>6
  <2>8. g[N + 1] = g[(N + 1) - 1] \o [i \in 1 .. more[N + 1] |-> (first + (N + 1) - 1) % 2]
    <3>1. N + 1 \in 1 .. Len(more)
      BY <2>1
    <3> QED
      BY <2>3, <3>1 DEF Written
  <2>9. (N + 1) - 1 = N /\ first + (N + 1) - 1 = first + N
    BY <2>1
  <2> QED
    BY <2>1, <2>2, <2>3, <2>7, <2>8, <2>9 DEF N, more
<1> QED
  BY <1>1, <1>2, <1>3

(* One more bit: unrolling what Longer makes of the lengths adds it. *)
LEMMA LongerByABit ==
    ASSUME NEW parity \in Seq(Bit), NEW lengths \in Seq(Nat), NEW k \in 1 .. Len(parity),
           NEW first \in Nat, first % 2 = parity[1],
           k = 1 => lengths = <<>>,
           k > 1 => Len(lengths) >= 1 /\ (first + Len(lengths) - 1) % 2 = parity[k - 1]
    PROVE  LET more == Longer(lengths, parity, k)
           IN /\ more \in Seq(Nat) /\ Len(more) >= 1
              /\ (first + Len(more) - 1) % 2 = parity[k]
              /\ Unrolled(more, first) = Append(Unrolled(lengths, first), parity[k])
<1> DEFINE more == Longer(lengths, parity, k)
           L == Len(lengths)
<1>1. L \in Nat /\ Unrolled(lengths, first) \in Seq(Bit)
  BY LenProperties, UnrolledGrows
<1>2. parity[k] \in Bit /\ (k > 1 => parity[k - 1] \in Bit)
  <2>1. k > 1 => k - 1 \in 1 .. Len(parity)
    BY LenProperties
  <2> QED
    BY <2>1, ElementOfSeq
<1>3. CASE k > 1 /\ parity[k] = parity[k - 1]
  <2> DEFINE rest == Front(lengths)
             last == lengths[L]
             bit == [i \in 1 .. last |-> (first + (L - 1)) % 2]
             bits == [i \in 1 .. last + 1 |-> (first + (L - 1)) % 2]
  <2>1. L >= 1 /\ (first + L - 1) % 2 = parity[k]
    BY <1>3
  <2>2. more = [lengths EXCEPT ![L] = last + 1]
    BY <1>3 DEF Longer
  <2>3. rest = [i \in 1 .. L - 1 |-> lengths[i]]
    BY DEF Front
  <2>4. last \in Nat /\ \A i \in 1 .. L : lengths[i] \in Nat
    BY <1>1, <2>1, ElementOfSeq, SMTT(30)
  <2>5. rest \in Seq(Nat)
    <3>1. L - 1 \in Nat /\ \A i \in 1 .. L - 1 : i \in 1 .. L
      BY <1>1, <2>1
    <3> QED
      BY <2>3, <2>4, <3>1, IsASeq
  <2>6. Len(rest) = L - 1
    <3>1. L - 1 \in Nat
      BY <1>1, <2>1
    <3> QED
      BY <2>3, <3>1
  <2> HIDE DEF rest, last
  <2>7. /\ Append(rest, last) \in Seq(Nat) /\ Len(Append(rest, last)) = L
        /\ Append(rest, last + 1) \in Seq(Nat) /\ Len(Append(rest, last + 1)) = L
    BY <1>1, <2>1, <2>4, <2>5, <2>6, AppendProperties
  <2>8. \A i \in 1 .. L : i = L \/ i \in 1 .. L - 1
    BY <1>1
  <2>16. /\ \A i \in 1 .. L - 1 : Append(rest, last)[i] = rest[i] /\ Append(rest, last + 1)[i] = rest[i]
         /\ Append(rest, last)[L] = last /\ Append(rest, last + 1)[L] = last + 1
    <3>1. last + 1 \in Nat /\ (L - 1) + 1 = L
      BY <1>1, <2>4
    <3> QED
      BY <2>4, <2>5, <2>6, <3>1, AppendProperties, SMTT(30)
  <2>9. lengths = Append(rest, last)
    <3>1. ASSUME NEW i \in 1 .. L PROVE lengths[i] = Append(rest, last)[i]
      BY <2>3, <2>8, <2>16 DEF last
    <3> QED
      BY <2>7, <3>1, SeqEqual
  <2>10. more = Append(rest, last + 1)
    <3>1. L \in 1 .. Len(lengths) /\ last + 1 \in Nat
      BY <1>1, <2>1, <2>4
    <3>2. more \in Seq(Nat) /\ Len(more) = L /\ \A i \in 1 .. L :
             more[i] = IF i = L THEN last + 1 ELSE lengths[i]
      BY <2>2, <3>1, ExceptSeq
    <3> HIDE DEF more
    <3>3. ASSUME NEW i \in 1 .. L PROVE more[i] = Append(rest, last + 1)[i]
      <4>1. CASE i = L
        BY <2>16, <3>2, <4>1
      <4>2. CASE i # L
        <5>1. i \in 1 .. L - 1
          BY <2>8, <4>2
        <5> QED
          BY <2>3, <2>16, <3>2, <4>2, <5>1
      <4> QED
        BY <4>1, <4>2
    <3> QED
      BY <2>7, <3>2, <3>3, SeqEqual
  <2>11. /\ Unrolled(lengths, first) = Unrolled(rest, first) \o bit
         /\ Unrolled(more, first) = Unrolled(rest, first) \o bits
         /\ Unrolled(rest, first) \in Seq(Bit)
    <3> HIDE DEF more
    <3>1. last + 1 \in Nat
      BY <2>4
    <3>2. /\ Unrolled(rest, first) \in Seq(Bit)
          /\ \A x \in Nat : Unrolled(Append(rest, x), first) =
                Unrolled(rest, first) \o [i \in 1 .. x |-> (first + Len(rest)) % 2]
      BY <2>5, UnrolledGrows
    <3>3. \A x \in Nat : Unrolled(Append(rest, x), first) =
                Unrolled(rest, first) \o [i \in 1 .. x |-> (first + (L - 1)) % 2]
      BY <2>6, <3>2
    <3>4. Unrolled(Append(rest, last), first) = Unrolled(rest, first) \o bit
      BY <2>4, <3>3
    <3>5. Unrolled(Append(rest, last + 1), first) = Unrolled(rest, first) \o bits
      BY <3>1, <3>3
    <3> QED
      BY <2>9, <2>10, <3>2, <3>4, <3>5
  <2>12. (first + (L - 1)) % 2 = parity[k]
    BY <1>1, <2>1
  <2>13. bit \in Seq(Bit) /\ bits \in Seq(Bit) /\ Len(bit) = last /\ bits = Append(bit, parity[k])
    <3>1. bit \in Seq(Bit) /\ bits \in Seq(Bit) /\ Len(bit) = last /\ Len(bits) = last + 1
      BY <1>2, <2>4, <2>12, IsASeq
    <3>2. \A i \in 1 .. last + 1 : bits[i] = parity[k] /\ Append(bit, parity[k])[i] = parity[k]
      <4>1. \A i \in 1 .. last : bit[i] = parity[k]
        BY <2>12
      <4>2. \A i \in 1 .. last + 1 : bits[i] = parity[k]
        BY <2>12
      <4>3. \A i \in 1 .. last + 1 : i = last + 1 \/ i \in 1 .. last
        BY <2>4
      <4> HIDE DEF bit, bits
      <4> QED
        BY <1>2, <2>4, <3>1, <4>1, <4>2, <4>3, AppendProperties
    <3> HIDE DEF bit, bits
    <3>3. Append(bit, parity[k]) \in Seq(Bit) /\ Len(Append(bit, parity[k])) = last + 1
      BY <1>2, <3>1, AppendProperties
    <3> QED
      BY <3>1, <3>2, <3>3, SeqEqual
  <2> HIDE DEF bit, bits
  <2>14. Unrolled(more, first) = Append(Unrolled(lengths, first), parity[k])
    <3> DEFINE u == Unrolled(rest, first)
    <3> HIDE DEF u
    <3>1. u \in Seq(Bit) /\ bit \in Seq(Bit) /\ parity[k] \in Bit
      BY <1>2, <2>11, <2>13 DEF u
    <3>2. u \o Append(bit, parity[k]) = Append(u \o bit, parity[k])
      BY <3>1, AppendInside, SMTT(30)
    <3> QED
      BY <2>11, <2>13, <3>2 DEF u
  <2>15. more \in Seq(Nat) /\ Len(more) = L
    BY <2>7, <2>10
  <2> HIDE DEF more
  <2> QED
    BY <2>1, <2>14, <2>15 DEF more
<1>4. CASE ~ (k > 1 /\ parity[k] = parity[k - 1])
  <2>1. more = Append(lengths, 1)
    BY <1>4 DEF Longer
  <2>2. more \in Seq(Nat) /\ Len(more) = L + 1
    BY <1>1, <2>1, AppendProperties
  <2>3. (first + L) % 2 = parity[k]
    <3>1. CASE k = 1
      BY <3>1
    <3>2. CASE k > 1
      <4>1. parity[k] # parity[k - 1] /\ (first + L - 1) % 2 = parity[k - 1]
        BY <1>4, <3>2
      <4> DEFINE x == first + L
                 q == parity[k - 1]
                 r == parity[k]
      <4>2. x \in Nat /\ x >= 1 /\ q \in {0, 1} /\ r \in {0, 1} /\ r # q /\ (x - 1) % 2 = q
        BY <1>1, <1>2, <3>2, <4>1 DEF Bit
      <4> HIDE DEF x, q, r
      <4>3. x % 2 = r
        BY <4>2
      <4> QED
        BY <4>3 DEF x, r
    <3> QED
      BY <3>1, <3>2, LenProperties
  <2>4. [i \in 1 .. 1 |-> (first + L) % 2] = <<parity[k]>>
    BY <2>3
  <2>5. Unrolled(more, first) = Unrolled(lengths, first) \o <<parity[k]>>
    <3>1. Unrolled(Append(lengths, 1), first) =
             Unrolled(lengths, first) \o [i \in 1 .. 1 |-> (first + L) % 2]
      BY UnrolledGrows
    <3> QED
      BY <2>1, <2>4, <3>1
  <2>6. Unrolled(lengths, first) \o <<parity[k]>> = Append(Unrolled(lengths, first), parity[k])
    BY <1>1, <1>2, AppendIsConcat
  <2>7. first + Len(more) - 1 = first + L
    BY <1>1, <2>2
  <2> HIDE DEF more
  <2> QED
    BY <1>1, <2>2, <2>3, <2>5, <2>6, <2>7 DEF more
<1> QED
  BY <1>3, <1>4

(* Longer keeps a sequence of positive lengths. *)
LEMMA LongerIsSeq ==
    ASSUME NEW parity, NEW k, NEW lengths \in Seq(Nat)
    PROVE  Longer(lengths, parity, k) \in Seq(Nat)
<1> DEFINE L == Len(lengths)
           last == lengths[L] + 1
           f == [i \in 1 .. L |-> IF i = L THEN last ELSE lengths[i]]
<1>1. L \in Nat /\ DOMAIN lengths = 1 .. L /\ \A i \in 1 .. L : lengths[i] \in Nat
  BY LenProperties, ElementOfSeq
<1>2. [lengths EXCEPT ![L] = last] = f
  BY <1>1
<1>3. \A i \in 1 .. L : i = L => last \in Nat
  BY <1>1
<1>4. f \in Seq(Nat)
  <2>1. f \in [1 .. L -> Nat]
    <3> HIDE DEF last
    <3> QED
      BY <1>1, <1>3
  <2> HIDE DEF f
  <2> QED
    BY <1>1, <2>1, Tabled
<1>5. Append(lengths, 1) \in Seq(Nat)
  BY AppendProperties
<1> HIDE DEF f
<1> QED
  BY <1>2, <1>4, <1>5 DEF Longer

(* Unrolled again, the runs of a parity sequence are the sequence. *)
LEMMA RunsUnroll ==
    ASSUME NEW parity \in Seq(Bit), Len(parity) >= 1, NEW first \in Nat, first % 2 = parity[1]
    PROVE  /\ RunLengths(parity) \in Seq(Nat)
           /\ Unrolled(RunLengths(parity), first) = parity
<1> DEFINE N == Len(parity)
           S == Seq(Nat)
           Solves(f) == f = [i \in 0 .. N |-> IF i = 0 THEN <<>> ELSE Longer(f[i - 1], parity, i)]
           after == CHOOSE f : Solves(f)
           step == [k \in Nat |-> [s \in S |-> Longer(s, parity, k)]]
<1>1. N \in Nat /\ N >= 1 /\ \A i \in 1 .. N : parity[i] \in Bit
  BY LenProperties, ElementOfSeq
<1>2. RunLengths(parity) = after[N]
  BY DEF RunLengths
<1> HIDE DEF N
<1>3. step \in [Nat -> [S -> S]]
  BY LongerIsSeq
<1>4. PICK f \in [0 .. N -> S] : Chain(f, <<>>, step, N)
  <2>1. <<>> \in S
    OBVIOUS
  <2> HIDE DEF step, S
  <2> QED
    BY <1>1, <1>3, <2>1, ChainExists
<1>5. f[0] = <<>> /\ \A k \in 1 .. N : f[k] = Longer(f[k - 1], parity, k)
  <2>1. \A k \in 1 .. N : k - 1 \in 0 .. N /\ k \in Nat /\ f[k - 1] \in S
    BY <1>1
  <2> QED
    BY <1>4, <2>1 DEF Chain
<1>6. \A k \in 0 .. N : k = 0 \/ k \in 1 .. N
  BY <1>1
<1>7. Solves(f)
  BY <1>5, <1>6
<1>8. Solves(after)
  <2> HIDE DEF Solves
  <2> QED
    BY <1>7
<1> HIDE DEF after
<1>9. after[0] = <<>> /\ \A k \in 1 .. N : after[k] = Longer(after[k - 1], parity, k)
  <2>1. 0 \in 0 .. N /\ \A k \in 1 .. N : k \in 0 .. N /\ k # 0
    BY <1>1
  <2> QED
    BY <1>8, <2>1
<1> HIDE DEF Solves
<1> DEFINE Good(k) == /\ after[k] \in S
                      /\ k = 0 => after[k] = <<>>
                      /\ k > 0 => /\ Len(after[k]) >= 1
                                  /\ (first + Len(after[k]) - 1) % 2 = parity[k]
                      /\ Len(Unrolled(after[k], first)) = k
                      /\ \A i \in 1 .. k : Unrolled(after[k], first)[i] = parity[i]
           T == {k \in Nat : k <= N => Good(k)}
<1>10. 0 \in T
  <2>1. <<>> \in S /\ Len(<<>>) = 0 /\ Unrolled(<<>>, first) = <<>>
    BY UnrolledGrows
  <2>2. after[0] \in S /\ after[0] = <<>> /\ Len(Unrolled(after[0], first)) = 0
    BY <1>9, <2>1
  <2>3. \A i \in 1 .. 0 : Unrolled(after[0], first)[i] = parity[i]
    <3>1. \A i \in 1 .. 0 : FALSE
      OBVIOUS
    <3> QED
      BY <3>1
  <2>4. Good(0)
    BY <2>2, <2>3
  <2> QED
    BY <2>4
<1>11. ASSUME NEW k \in Nat, k \in T
       PROVE  k + 1 \in T
  <2> HIDE DEF Good
  <2>1. SUFFICES ASSUME k + 1 <= N PROVE Good(k + 1)
    OBVIOUS
  <2> USE DEF Good
  <2>2. k <= N /\ k + 1 \in 1 .. N /\ (k + 1) - 1 = k
    BY <1>1, <2>1
  <2>3. Good(k) /\ after[k + 1] = Longer(after[k], parity, k + 1)
    BY <1>9, <1>11, <2>2
  <2>4. k + 1 \in 1 .. Len(parity)
    BY <2>2 DEF N
  <2> DEFINE more == Longer(after[k], parity, k + 1)
             u == Unrolled(after[k], first)
             w == Unrolled(more, first)
  <2>5. /\ more \in S /\ Len(more) >= 1
        /\ (first + Len(more) - 1) % 2 = parity[k + 1]
        /\ w = Append(u, parity[k + 1])
    <3>1. /\ after[k] \in Seq(Nat)
          /\ k + 1 = 1 => after[k] = <<>>
          /\ k + 1 > 1 => /\ Len(after[k]) >= 1
                          /\ (first + Len(after[k]) - 1) % 2 = parity[(k + 1) - 1]
      <4>1. after[k] \in Seq(Nat)
        BY <2>3
      <4>2. k + 1 = 1 => k = 0
        OBVIOUS
      <4>3. k + 1 > 1 => k > 0
        OBVIOUS
      <4>4. k = 0 => after[k] = <<>>
        BY <2>3
      <4>5. k > 0 => Len(after[k]) >= 1 /\ (first + Len(after[k]) - 1) % 2 = parity[k]
        BY <2>3
      <4> HIDE DEF Good
      <4> QED
        BY <2>2, <4>1, <4>2, <4>3, <4>4, <4>5
    <3> QED
      BY <2>4, <3>1, LongerByABit
  <2>6. u \in Seq(Bit) /\ Len(u) = k /\ \A i \in 1 .. k : u[i] = parity[i]
    BY <2>3, UnrolledGrows
  <2> HIDE DEF u, w, more
  <2>7. Len(w) = k + 1 /\ w[k + 1] = parity[k + 1] /\ \A i \in 1 .. k : w[i] = u[i]
    <3>1. parity[k + 1] \in Bit
      BY <1>1, <2>2
    <3>2. /\ Len(Append(u, parity[k + 1])) = Len(u) + 1
          /\ Append(u, parity[k + 1])[Len(u) + 1] = parity[k + 1]
          /\ \A i \in 1 .. Len(u) : Append(u, parity[k + 1])[i] = u[i]
      BY <2>6, <3>1, AppendProperties
    <3> QED
      BY <2>5, <2>6, <3>2
  <2>8. \A i \in 1 .. k + 1 : i = k + 1 \/ i \in 1 .. k
    OBVIOUS
  <2>9. \A i \in 1 .. k + 1 : w[i] = parity[i]
    BY <2>6, <2>7, <2>8
  <2>10. after[k + 1] = more /\ k + 1 # 0
    BY <2>3 DEF more
  <2> QED
    BY <2>5, <2>7, <2>9, <2>10 DEF w
<1>12. Nat \subseteq T
  <2> HIDE DEF T
  <2> QED
    BY <1>10, <1>11, Induction
<1>13. Good(N)
  <2> HIDE DEF Good
  <2> QED
    BY <1>1, <1>12
<1>14. Unrolled(after[N], first) \in Seq(Bit)
  BY <1>13, UnrolledGrows
<1>15. Unrolled(after[N], first) = parity
  <2> DEFINE u == Unrolled(after[N], first)
  <2>1. u \in Seq(Bit) /\ Len(u) = Len(parity) /\ \A i \in 1 .. Len(u) : u[i] = parity[i]
    BY <1>13, <1>14 DEF N
  <2> HIDE DEF u
  <2>2. u = parity
    BY <2>1, SeqEqual
  <2> QED
    BY <2>2 DEF u
<1> QED
  BY <1>2, <1>13, <1>15

-----------------------------------------------------------------------------
(* The means of the ratios. *)
LEMMA Quotient ==
    ASSUME NEW a \in Nat, NEW b \in Positive
    PROVE  a \div b \in Nat /\ (a \div b) * b <= a /\ a < (a \div b) * b + b
  BY DEF Positive

(* Rounded down, larger shares are not smaller. *)
LEMMA Divided ==
    ASSUME NEW b \in Positive, NEW c \in Nat
    PROVE  (c * b) \div b = c
<1> DEFINE q == (c * b) \div b
<1>1. c * b \in Nat /\ b \in Nat /\ b >= 1
  BY DEF Positive
<1>2. q \in Nat /\ q * b <= c * b /\ c * b < q * b + b
  BY <1>1, Quotient
<1> HIDE DEF q
<1>3. ~ (q < c)
  <2>1. SUFFICES ASSUME q < c PROVE FALSE
    OBVIOUS
  <2>2. (q + 1) * b <= c * b
    BY <1>1, <1>2, <2>1
  <2> QED
    BY <1>1, <1>2, <2>2
<1>4. ~ (c < q)
  <2>1. SUFFICES ASSUME c < q PROVE FALSE
    OBVIOUS
  <2>2. (c + 1) * b <= q * b
    BY <1>1, <1>2, <2>1
  <2> QED
    BY <1>1, <1>2, <2>2
<1>5. q = c
  BY <1>2, <1>3, <1>4
<1> QED
  BY <1>5 DEF q

(* Every decline is to a half, exactly. *)
LEMMA HalfIsHalf ==
    ASSUME NEW n \in Positive, n % 2 = 0
    PROVE  RatioOrNull(n \div 2, n) = 500
<1> DEFINE k == n \div 2
<1>1. k \in Positive /\ n = 2 * k /\ n # 0
  BY DEF Positive
<1>2. k * Scale = 500 * n
  BY <1>1 DEF Scale, Positive
<1>3. (500 * n) \div n = 500
  BY Divided
<1> HIDE DEF k
<1>4. RatioOrNull(k, n) = 500
  BY <1>1, <1>2, <1>3 DEF RatioOrNull
<1> QED
  BY <1>4 DEF k

(* The mean ratio of a parity is a number or missing; that of the          *)
(* declines is a half.                                                     *)
LEMMA Means ==
    ASSUME NEW system \in DOMAIN Multiplier, NEW n, NEW limit, NEW states,
           Trail(system, n, limit, states), NEW bit
    PROVE  LET mean == MeanRatio(states, Parity(states), bit)
           IN /\ mean \in Nat \cup {NA}
              /\ bit = 0 => mean \in {NA, 500}
<1> DEFINE parity == Parity(states)
           N == Len(parity)
           steps == {i \in DOMAIN parity : parity[i] = bit /\ states[i] # 0}
           Ratio(i) == RatioOrNull(states[i + 1], states[i])
           Solves(f) == f = [i \in 0 .. N |-> IF i = 0 THEN 0
                               ELSE IF i \in steps THEN f[i - 1] + Ratio(i) ELSE f[i - 1]]
           total == CHOOSE f : Solves(f)
           step == [k \in Nat |-> [s \in Nat |-> IF k \in steps THEN s + Ratio(k) ELSE s]]
<1>1. /\ N \in Nat /\ N = Len(states) - 1
      /\ parity = [i \in 1 .. N |-> states[i] % 2] /\ DOMAIN parity = 1 .. N
      /\ \A i \in 1 .. N : /\ states[i] \in Positive /\ states[i + 1] \in Positive
                           /\ states[i + 1] = Transition(system, states[i])
  BY TrailIndices
<1>2. MeanRatio(states, parity, bit) = IF steps = {} THEN NA ELSE total[N] \div Cardinality(steps)
  BY DEF MeanRatio
<1>3. steps \in SUBSET (1 .. N)
  BY <1>1
<1>4. \A i \in steps : Ratio(i) \in Nat /\ (bit = 0 => Ratio(i) = 500)
  <2>1. SUFFICES ASSUME NEW i \in steps PROVE Ratio(i) \in Nat /\ (bit = 0 => Ratio(i) = 500)
    OBVIOUS
  <2>2. /\ states[i] \in Positive /\ states[i + 1] \in Positive /\ states[i] % 2 = bit
        /\ states[i + 1] = Transition(system, states[i])
    BY <1>1
  <2>3. Ratio(i) \in Nat
    <3>1. states[i + 1] * Scale \in Nat /\ states[i] # 0
      BY <2>2 DEF Scale, Positive
    <3> QED
      BY <2>2, <3>1, Quotient DEF RatioOrNull
  <2>4. bit = 0 => states[i + 1] = states[i] \div 2
    BY <2>2 DEF Transition
  <2> QED
    BY <2>2, <2>3, <2>4, HalfIsHalf
<1> HIDE DEF parity, N, steps, Ratio
<1>19. N \in Nat /\ \A i \in steps : i \in Nat /\ i >= 1 /\ i <= N
  <2>1. N \in Nat
    BY <1>1
  <2> QED
    BY <1>3, <2>1
<1>5. step \in [Nat -> [Nat -> Nat]]
  BY <1>4
<1>6. PICK f \in [0 .. N -> Nat] : Chain(f, 0, step, N)
  <2> HIDE DEF step
  <2> QED
    BY <1>19, <1>5, ChainExists
<1>7. f[0] = 0 /\ \A k \in 1 .. N : f[k] = IF k \in steps THEN f[k - 1] + Ratio(k) ELSE f[k - 1]
  <2>1. \A k \in 1 .. N : k - 1 \in 0 .. N /\ k \in Nat /\ f[k - 1] \in Nat
    BY <1>19
  <2> QED
    BY <1>6, <2>1 DEF Chain
<1>8. \A k \in 0 .. N : k = 0 \/ k \in 1 .. N
  BY <1>1
<1>9. Solves(f)
  BY <1>7, <1>8
<1>10. Solves(total)
  <2> HIDE DEF Solves
  <2> QED
    BY <1>9
<1> HIDE DEF total
<1>11. /\ total[0] = 0
       /\ \A k \in 1 .. N : total[k] = IF k \in steps THEN total[k - 1] + Ratio(k) ELSE total[k - 1]
  <2>1. 0 \in 0 .. N /\ \A k \in 1 .. N : k \in 0 .. N /\ k # 0
    BY <1>1
  <2> QED
    BY <1>10, <2>1
<1> HIDE DEF Solves
<1> DEFINE Upto(k) == {i \in steps : i <= k}
           Good(k) == /\ total[k] \in Nat
                      /\ IsFiniteSet(Upto(k)) /\ Cardinality(Upto(k)) \in Nat
                      /\ bit = 0 => total[k] = 500 * Cardinality(Upto(k))
           T == {k \in Nat : k <= N => Good(k)}
<1>12. 0 \in T
  <2>1. Upto(0) = {}
    BY <1>19
  <2> HIDE DEF Upto
  <2>2. IsFiniteSet(Upto(0)) /\ Cardinality(Upto(0)) = 0
    BY <2>1, FS_EmptySet
  <2>3. Good(0)
    BY <1>11, <2>2
  <2> HIDE DEF Good
  <2> QED
    BY <2>3
<1>13. ASSUME NEW k \in Nat, k \in T
       PROVE  k + 1 \in T
  <2>1. SUFFICES ASSUME k + 1 <= N PROVE Good(k + 1)
    OBVIOUS
  <2>2. k <= N /\ k + 1 \in 1 .. N /\ (k + 1) - 1 = k
    BY <1>1, <2>1
  <2>3. Good(k)
    BY <1>13, <2>2
  <2>4. total[k + 1] = IF k + 1 \in steps THEN total[k] + Ratio(k + 1) ELSE total[k]
    BY <1>11, <2>2
  <2>5. CASE k + 1 \in steps
    <3>1. Upto(k + 1) = Upto(k) \cup {k + 1} /\ k + 1 \notin Upto(k)
      BY <1>19, <2>5
    <3> HIDE DEF Upto
    <3>2. IsFiniteSet(Upto(k + 1)) /\ Cardinality(Upto(k + 1)) = Cardinality(Upto(k)) + 1
      BY <2>3, <3>1, FS_AddElement
    <3>3. Ratio(k + 1) \in Nat /\ (bit = 0 => Ratio(k + 1) = 500)
      BY <1>4, <2>5
    <3> QED
      BY <2>3, <2>4, <2>5, <3>2, <3>3, SMTT(30)
  <2>6. CASE k + 1 \notin steps
    <3>1. Upto(k + 1) = Upto(k)
      BY <1>19, <2>6
    <3> HIDE DEF Upto
    <3> QED
      BY <2>3, <2>4, <2>6, <3>1
  <2> QED
    BY <2>5, <2>6
<1>14. Nat \subseteq T
  <2> HIDE DEF T
  <2> QED
    BY <1>12, <1>13, Induction
<1>15. Good(N)
  <2> HIDE DEF Good
  <2> QED
    BY <1>1, <1>14
<1>16. Upto(N) = steps
  BY <1>19
<1> HIDE DEF Upto
<1>17. CASE steps = {}
  BY <1>2, <1>17 DEF parity
<1>18. CASE steps # {}
  <2> DEFINE c == Cardinality(steps)
  <2>1. c \in Nat /\ c # 0 /\ total[N] \in Nat /\ (bit = 0 => total[N] = 500 * c)
    BY <1>15, <1>16, <1>18, FS_EmptySet
  <2>2. MeanRatio(states, parity, bit) = total[N] \div c
    BY <1>2, <1>18
  <2> HIDE DEF c
  <2>3. c \in Positive
    BY <2>1 DEF Positive
  <2>4. total[N] \div c \in Nat /\ (500 * c) \div c = 500
    BY <2>1, <2>3, Quotient, Divided
  <2> QED
    BY <2>1, <2>2, <2>4 DEF parity
<1> QED
  BY <1>17, <1>18

(* The parity sequence of a trail is one bit for each of its steps. *)
LEMMA ParityOfTrail ==
    ASSUME NEW system \in DOMAIN Multiplier, NEW n, NEW limit, NEW states,
           Trail(system, n, limit, states), Len(states) >= 2
    PROVE  /\ Parity(states) \in Seq(Bit) /\ Len(Parity(states)) >= 1
           /\ states[1] % 2 \in Nat /\ (states[1] % 2) % 2 = Parity(states)[1]
<1> DEFINE parity == Parity(states)
           N == Len(states)
<1>1. /\ N \in Nat /\ N >= 2 /\ \A i \in 1 .. N : states[i] \in Positive
      /\ parity = [i \in 1 .. N - 1 |-> states[i] % 2]
  BY TrailIndices
<1> HIDE DEF N
<1>2. \A i \in 1 .. N - 1 : states[i] % 2 \in Bit
  <2>1. \A i \in 1 .. N - 1 : states[i] \in Nat
    BY <1>1 DEF Positive
  <2> QED
    BY <2>1 DEF Bit
<1>3. N - 1 \in Nat /\ N - 1 >= 1 /\ 1 \in 1 .. N - 1
  BY <1>1
<1>4. parity \in [1 .. N - 1 -> Bit] /\ parity[1] = states[1] % 2
  BY <1>1, <1>2, <1>3
<1> HIDE DEF parity
<1>5. parity \in Seq(Bit) /\ Len(parity) = N - 1
  BY <1>3, <1>4, Tabled
<1>6. states[1] % 2 \in Nat /\ (states[1] % 2) % 2 = parity[1]
  <2>1. states[1] % 2 \in {0, 1}
    BY <1>2, <1>3 DEF Bit
  <2> QED
    BY <1>4, <2>1
<1> QED
  BY <1>3, <1>5, <1>6 DEF parity

(* All that MetricsHang asks of a trail and its metrics. *)
LEMMA MetricsDoHang ==
    ASSUME NEW system \in DOMAIN Multiplier, NEW n, NEW limit, NEW states,
           Trail(system, n, limit, states), Len(states) >= 2
    PROVE  MetricsHang(states, Metrics(states))
<1> DEFINE m == Metrics(states)
           parity == Parity(states)
           N == Len(states)
<1>1. /\ N \in Nat /\ N >= 2 /\ DOMAIN states = 1 .. N /\ states \in Seq(Nat)
      /\ \A i \in 1 .. N : states[i] \in Positive
      /\ parity = [i \in 1 .. N - 1 |-> states[i] % 2] /\ Len(parity) = N - 1
  <2>1. states \in Seq(Nat)
    <3>1. states \in Seq(Positive) /\ Positive \subseteq Nat
      BY DEF Trail, Positive
    <3> QED
      BY <3>1, SeqMonotonic
  <2> QED
    BY <2>1, TrailIndices
<1> HIDE DEF N
<1>2. m.binary_transition_statistics =
         [increases |-> m.odd_count, decreases |-> m.even_count, same |-> 0]
  <2>1. /\ m.binary_transition_statistics = TransitionStatistics(BitLengths(states))
        /\ m.odd_count = CountOf(Parity(states), 1)
        /\ m.even_count = Len(states) - 1 - CountOf(Parity(states), 1)
    BY DEF Metrics
  <2> HIDE DEF m
  <2> QED
    BY <2>1, StepsCounted
<1>3. Unrolled(m.run_length_statistics, states[1] % 2) = m.parity_sequence
  <2>1. m.run_length_statistics = RunLengths(parity) /\ m.parity_sequence = parity
    BY DEF Metrics
  <2> HIDE DEF m
  <2> QED
    BY <2>1, ParityOfTrail, RunsUnroll
<1>4. \A i \in DOMAIN states :
         /\ states[i] <= m.peak_value
         /\ states[i] = m.peak_value => m.peak_index <= i - 1
  <2>1. m.peak_value = states[PeakIndex(states) + 1] /\ m.peak_index = PeakIndex(states)
    BY DEF Metrics
  <2> HIDE DEF m
  <2>2. /\ PeakIndex(states) \in Nat
        /\ \A i \in 1 .. Len(states) :
              /\ states[i] <= states[PeakIndex(states) + 1]
              /\ states[i] = states[PeakIndex(states) + 1] => PeakIndex(states) + 1 <= i
    BY <1>1, PeakIsFirst, SMTT(30) DEF N
  <2>3. ASSUME NEW i \in DOMAIN states
        PROVE  /\ states[i] <= m.peak_value
               /\ states[i] = m.peak_value => m.peak_index <= i - 1
    <3>1. i \in 1 .. Len(states) /\ i \in Int
      BY <1>1 DEF N
    <3> QED
      BY <2>1, <2>2, <3>1
  <2> QED
    BY <2>3
<1>5. /\ m.stopping_time # NA =>
            /\ states[m.stopping_time + 1] < states[1]
            /\ \A i \in 1 .. m.stopping_time : states[i] >= states[1]
      /\ ReachedOne(Last(states)) /\ states[1] > 1 => m.stopping_time \in 1 .. m.total_stopping_time
  <2>1. m.stopping_time = StoppingTime(states) /\ m.total_stopping_time = TotalStoppingTime(states)
    BY DEF Metrics
  <2> HIDE DEF m
  <2> DEFINE time == StoppingTime(states)
  <2>2. \/ time = NA /\ \A i \in 2 .. N : states[i] >= states[1]
        \/ /\ time \in 1 .. N - 1 /\ states[time + 1] < states[1]
           /\ \A i \in 1 .. time : states[i] >= states[1]
    <3>1. Len(states) >= 1
      BY <1>1 DEF N
    <3> HIDE DEF time
    <3>2. LET t == StoppingTime(states)
          IN \/ t = NA /\ \A i \in 2 .. Len(states) : states[i] >= states[1]
             \/ /\ t \in 1 .. Len(states) - 1 /\ states[t + 1] < states[1]
                /\ \A i \in 1 .. t : states[i] >= states[1]
      BY <1>1, <3>1, StopsBelow
    <3> QED
      BY <3>2 DEF N, time
  <2> HIDE DEF time
  <2>3. Last(states) = states[N]
    BY DEF Last, N
  <2>4. N \in 2 .. N /\ 1 \in 1 .. N /\ N \in 1 .. N
    BY <1>1
  <2>5. ASSUME ReachedOne(Last(states)), states[1] > 1
        PROVE  time \in 1 .. TotalStoppingTime(states)
    <3>1. states[N] = 1 /\ TotalStoppingTime(states) = N - 1
      BY <2>3, <2>5 DEF ReachedOne, TotalStoppingTime, N
    <3>2. ~ (states[N] >= states[1])
      BY <1>1, <2>4, <2>5, <3>1 DEF Positive
    <3> QED
      BY <2>2, <2>4, <3>1, <3>2
  <2>6. NA \notin 1 .. N - 1
    BY DEF NA
  <2> QED
    BY <2>1, <2>2, <2>5 DEF time
<1>6. m.average_decline \in {NA, Scale \div 2}
  <2>1. m.average_decline = MeanRatio(states, Parity(states), 0)
    BY DEF Metrics
  <2> HIDE DEF m
  <2>2. Scale \div 2 = 500
    BY DEF Scale
  <2> QED
    BY <2>1, <2>2, Means
<1> HIDE DEF m
<1>7. MetricsHang(states, m)
  BY <1>2, <1>3, <1>4, <1>5, <1>6 DEF MetricsHang
<1> QED
  BY <1>7 DEF m

(* A run of the registered systems hangs together. *)
LEMMA RunHangs ==
    ASSUME NEW system \in DOMAIN Multiplier, NEW n \in Starts, NEW limit \in Limits
    PROVE  LET run == RunSystem(system, n, limit)
               cycle == Last(run.states) \in ToSet(Front(run.states))
           IN /\ MetricsHang(run.states, Metrics(run.states))
              /\ IsInjective(Front(run.states))
              /\ run.status = "CycleDetected" => cycle /\ Last(run.states) # 1
              /\ run.status = "IterationLimitReached" =>
                    ~cycle /\ run.iterations = MostSteps(limit)
              /\ \A c \in Known(system) :
                    c.n = run.states[1] /\ run.status # "IterationLimitReached" =>
                        c.status = run.status /\ c.states = run.states
<1> DEFINE run == RunSystem(system, n, limit)
           s == run.states
           m == Len(s)
<1>1. n \in Positive /\ limit \in Nat
  BY RunAssumption DEF Positive
<1>2. /\ Complete(system, n, limit, s)
      /\ run.iterations = m - 1
      /\ \/ run.status = "Converged" /\ s[m] = 1
         \/ /\ run.status = "CycleDetected" /\ s[m] # 1
            /\ \E j \in 1 .. m - 1 : s[j] = s[m]
         \/ /\ run.status = "IterationLimitReached" /\ s[m] # 1
            /\ \A j \in 1 .. m - 1 : s[j] # s[m]
            /\ m - 1 = MostSteps(limit)
  BY <1>1, RunCompletes
<1> HIDE DEF run
<1>4. Trail(system, n, limit, s) /\ Len(s) >= 2
  BY <1>2 DEF Complete
<1>5. /\ m \in Nat /\ m >= 1 /\ Last(s) = s[m] /\ DOMAIN Front(s) = 1 .. m - 1
      /\ \A i \in 1 .. m - 1 : Front(s)[i] = s[i]
      /\ \A v : v \in ToSet(Front(s)) <=> \E i \in 1 .. m - 1 : v = s[i]
  BY <1>4, Ends DEF Trail
<1>6. MetricsHang(s, Metrics(s))
  BY <1>4, MetricsDoHang
<1>7. IsInjective(Front(s))
  <2>1. ASSUME NEW a \in 1 .. m - 1, NEW b \in 1 .. m - 1, a < b
        PROVE  s[a] # s[b]
    <3>1. b \in 2 .. Len(s) - 1 /\ a \in 1 .. b - 1
      BY <1>5, <2>1
    <3> QED
      BY <1>4, <3>1 DEF Trail
  <2>2. ASSUME NEW a \in 1 .. m - 1, NEW b \in 1 .. m - 1, Front(s)[a] = Front(s)[b]
        PROVE  a = b
    <3>1. s[a] = s[b]
      BY <1>5, <2>2
    <3>2. ~ (a < b) /\ ~ (b < a)
      BY <2>1, <3>1
    <3> QED
      BY <1>5, <3>2
  <2> QED
    BY <1>5, <2>2 DEF IsInjective
<1>8. ASSUME NEW c \in Known(system), c.n = s[1], run.status # "IterationLimitReached"
      PROVE  c.status = run.status /\ c.states = s
  <2>1. c \in CollatzDataset \cup FiveNPlusOneDataset /\ c.system = system
    BY DEF Known
  <2>2. /\ Trail(c.system, c.n, 1000, c.states)
        /\ Len(c.states) >= 2 /\ Over(c.states)
        /\ c.status = IF c.states[Len(c.states)] = 1 THEN "Converged" ELSE "CycleDetected"
    BY <2>1, KnownTrails
  <2>3. Over(s)
    BY <1>2, <1>8 DEF Over
  <2>4. c.n = n
    BY <1>4, <1>8 DEF Trail
  <2>5. c.states = s
    BY <1>4, <2>1, <2>2, <2>3, <2>4, SameRun
  <2> QED
    BY <1>2, <1>8, <2>2, <2>5
<1>9. run.status = "CycleDetected" => Last(s) \in ToSet(Front(s)) /\ Last(s) # 1
  BY <1>2, <1>5
<1>10. run.status = "IterationLimitReached" =>
          ~ (Last(s) \in ToSet(Front(s))) /\ run.iterations = MostSteps(limit)
  BY <1>2, <1>5
<1> QED
  BY <1>6, <1>7, <1>8, <1>9, <1>10 DEF run

(* Runner::run and the metrics, whatever the initial state and the limit: a *)
(* run ends as its status says, within the limit; its parity sequence,     *)
(* run lengths, bit lengths, ratios and peak agree with its states and with*)
(* each other; and the rows of the dataset are runs.                       *)
THEOREM RunsHang == RunsSpec => []RunsHangTogether
<1>1. RunsInit => RunsHangTogether
  BY DEF RunsInit, RunsHangTogether, None
<1>2. ASSUME RunsHangTogether, [RunsNext]_call
      PROVE  RunsHangTogether'
  <2>1. CASE RunsNext
    <3>1. PICK system \in DOMAIN Multiplier, n \in Starts, limit \in Limits :
             call' = [op |-> "run", system |-> system, limit |-> limit,
                      out |-> RunSystem(system, n, limit)]
      BY <2>1 DEF RunsNext, Runs
    <3>2. /\ call'.op = "run" /\ call'.system = system /\ call'.limit = limit
          /\ call'.out = RunSystem(system, n, limit)
      BY <3>1
    <3> QED
      BY <3>2, RunHangs DEF RunsHangTogether
  <2>2. CASE UNCHANGED call
    BY <1>2, <2>2 DEF RunsHangTogether
  <2> QED
    BY <1>2, <2>1, <2>2
<1> QED
  BY <1>1, <1>2, PTL DEF RunsSpec

-----------------------------------------------------------------------------
(* The streams of datasets: ranges in order, primes, powers and the states *)
(* of the generator.                                                       *)

(* A finite set of numbers is bounded. *)
LEMMA FiniteIsBounded ==
    \A n \in Nat : \A S \in SUBSET Nat :
        IsFiniteSet(S) /\ Cardinality(S) = n => \E bound \in Nat : \A y \in S : y <= bound
<1> DEFINE Bounded(S) == \E bound \in Nat : \A y \in S : y <= bound
           T == {n \in Nat : \A S \in SUBSET Nat :
                                IsFiniteSet(S) /\ Cardinality(S) = n => Bounded(S)}
<1>1. 0 \in T
  <2>1. \A S : IsFiniteSet(S) /\ Cardinality(S) = 0 => S = {}
    BY FS_EmptySet
  <2> QED
    BY <2>1
<1>2. ASSUME NEW n \in Nat, n \in T
      PROVE  n + 1 \in T
  <2>1. SUFFICES ASSUME NEW S \in SUBSET Nat, IsFiniteSet(S), Cardinality(S) = n + 1
                 PROVE  Bounded(S)
    OBVIOUS
  <2>2. S # {}
    BY <2>1, FS_EmptySet
  <2>3. PICK x \in S : TRUE
    BY <2>2
  <2>4. S \ {x} \in SUBSET Nat /\ IsFiniteSet(S \ {x}) /\ Cardinality(S \ {x}) = n
    BY <2>1, FS_RemoveElement
  <2>5. PICK b \in Nat : \A y \in S \ {x} : y <= b
    BY <1>2, <2>4
  <2>6. b + x \in Nat /\ \A y \in S : y <= b + x
    BY <2>5
  <2> QED
    BY <2>6
<1>3. Nat \subseteq T
  <2> HIDE DEF T
  <2> QED
    BY <1>1, <1>2, Induction
<1> QED
  BY <1>3

(* The members of S below x. *)
Below(S, x) == {y \in S : y < x}

(* Every finite set of numbers has a member with k - 1 members below it,   *)
(* for every k that counts it.                                             *)
LEMMA RanksTaken ==
    \A n \in Nat : \A S \in SUBSET Nat :
        IsFiniteSet(S) /\ Cardinality(S) = n =>
            \A k \in 1 .. n : \E x \in S : Cardinality(Below(S, x)) = k - 1
<1> DEFINE Ranked(S, n) == \A k \in 1 .. n : \E x \in S : Cardinality(Below(S, x)) = k - 1
           T == {n \in Nat : \A S \in SUBSET Nat :
                                IsFiniteSet(S) /\ Cardinality(S) = n => Ranked(S, n)}
<1>1. 0 \in T
  OBVIOUS
<1>2. ASSUME NEW n \in Nat, n \in T
      PROVE  n + 1 \in T
  <2>1. SUFFICES ASSUME NEW S \in SUBSET Nat, IsFiniteSet(S), Cardinality(S) = n + 1
                 PROVE  Ranked(S, n + 1)
    OBVIOUS
  <2>2. PICK top \in S : \A y \in S : y <= top
    <3>1. S # {}
      BY <2>1, FS_EmptySet
    <3>2. PICK bound \in Nat : \A y \in S : y <= bound
      BY <2>1, FiniteIsBounded
    <3> QED
      BY <3>1, <3>2, Greatest
  <2> DEFINE R == S \ {top}
  <2>3. R \in SUBSET Nat /\ IsFiniteSet(R) /\ Cardinality(R) = n
    BY <2>1, FS_RemoveElement
  <2>10. \A y \in S : y < top <=> y # top
    <3>1. S \subseteq Nat
      OBVIOUS
    <3> QED
      BY <2>2, <3>1
  <2>4. Below(S, top) = R
    BY <2>10 DEF Below
  <2>5. \A x \in R : Below(S, x) = Below(R, x)
    BY <2>2 DEF Below
  <2> HIDE DEF R
  <2>6. Ranked(R, n)
    BY <1>2, <2>3
  <2>7. R \subseteq S
    BY DEF R
  <2> TAKE k \in 1 .. n + 1
  <2>8. CASE k = n + 1
    BY <2>2, <2>3, <2>4, <2>8
  <2>9. CASE k # n + 1
    <3>1. k \in 1 .. n
      BY <2>9
    <3>2. PICK x \in R : Cardinality(Below(R, x)) = k - 1
      BY <2>6, <3>1
    <3> QED
      BY <2>5, <2>7, <3>2
  <2> QED
    BY <2>8, <2>9
<1>3. Nat \subseteq T
  <2> HIDE DEF T
  <2> QED
    BY <1>1, <1>2, Induction
<1> QED
  BY <1>3

(* Ascending lists the members of a finite set, each of them once. *)
LEMMA AscendingLists ==
    ASSUME NEW S \in SUBSET Nat, IsFiniteSet(S)
    PROVE  /\ Cardinality(S) \in Nat
           /\ Ascending(S) \in [1 .. Cardinality(S) -> S]
           /\ ToSet(Ascending(S)) = S
<1> DEFINE n == Cardinality(S)
           Rank(x) == Cardinality(Below(S, x))
           s == Ascending(S)
<1>1. n \in Nat
  BY FS_CardinalityType
<1>2. s = [k \in 1 .. n |-> CHOOSE x \in S : Rank(x) = k - 1]
  BY DEF Ascending, Below
<1>3. \A k \in 1 .. n : \E x \in S : Rank(x) = k - 1
  BY <1>1, RanksTaken
<1>4. ASSUME NEW x \in S
      PROVE  Rank(x) \in Nat /\ Rank(x) < n
  <2>1. Below(S, x) \subseteq S \ {x}
    BY DEF Below
  <2>2. IsFiniteSet(S \ {x}) /\ Cardinality(S \ {x}) = n - 1
    BY FS_RemoveElement
  <2>3. IsFiniteSet(Below(S, x)) /\ Cardinality(Below(S, x)) <= n - 1
    BY <2>1, <2>2, FS_Subset
  <2> QED
    BY <1>1, <2>3, FS_CardinalityType
<1>5. ASSUME NEW x \in S, NEW y \in S, y < x
      PROVE  Rank(y) < Rank(x)
  <2>5. x \in Nat /\ y \in Nat /\ \A z \in S : z \in Nat
    OBVIOUS
  <2>6. \A z \in S : z < y => z < x /\ z # y
    BY <1>5, <2>5
  <2>1. Below(S, y) \subseteq Below(S, x) \ {y} /\ y \in Below(S, x)
    BY <1>5, <2>6 DEF Below
  <2>2. IsFiniteSet(Below(S, x))
    BY FS_Subset DEF Below
  <2>3. IsFiniteSet(Below(S, x) \ {y}) /\ Cardinality(Below(S, x) \ {y}) = Rank(x) - 1
    BY <2>1, <2>2, FS_RemoveElement
  <2>4. Rank(y) <= Rank(x) - 1
    BY <2>1, <2>3, FS_Subset
  <2> QED
    BY <1>4, <2>4
<1> HIDE DEF Rank, n, s
<1>6. \A k \in 1 .. n : s[k] \in S /\ Rank(s[k]) = k - 1
  BY <1>2, <1>3
<1>7. \A x, y \in S : Rank(x) = Rank(y) => x = y
  <2> SUFFICES ASSUME NEW x \in S, NEW y \in S, Rank(x) = Rank(y) PROVE x = y
    OBVIOUS
  <2>1. ~ (x < y) /\ ~ (y < x)
    BY <1>4, <1>5
  <2> QED
    BY <2>1
<1>8. s \in [1 .. n -> S]
  BY <1>2, <1>6
<1>9. ASSUME NEW x \in S
      PROVE  \E k \in 1 .. n : s[k] = x
  <2>1. Rank(x) + 1 \in 1 .. n /\ (Rank(x) + 1) - 1 = Rank(x)
    BY <1>1, <1>4
  <2> QED
    BY <1>6, <1>7, <2>1
<1>10. ToSet(s) = S
  BY <1>8, <1>9 DEF ToSet
<1> QED
  BY <1>1, <1>8, <1>10 DEF n, s

(* Two of a power is the next one: the subsets of a set with one more      *)
(* member are those without it and those with it.                          *)
LEMMA PowersDouble ==
    ASSUME NEW n \in Nat
    PROVE  2^n \in Positive /\ 2^(n + 1) = 2 * 2^n
<1> DEFINE S == 1 .. n
           A == SUBSET S
           B == {x \cup {n + 1} : x \in A}
           f == [x \in A |-> x \cup {n + 1}]
<1>1. IsFiniteSet(S) /\ Cardinality(S) = n
  BY FS_Interval
<1>2. IsFiniteSet(A) /\ Cardinality(A) = 2^n
  BY <1>1, FS_SUBSET
<1>3. IsFiniteSet(1 .. n + 1) /\ Cardinality(1 .. n + 1) = n + 1
  BY FS_Interval
<1>4. IsFiniteSet(SUBSET (1 .. n + 1)) /\ Cardinality(SUBSET (1 .. n + 1)) = 2^(n + 1)
  BY <1>3, FS_SUBSET
<1>5. n + 1 \notin S /\ 1 .. n + 1 = S \cup {n + 1}
  OBVIOUS
<1> HIDE DEF S
<1>6. SUBSET (S \cup {n + 1}) = A \cup B
  <2>1. ASSUME NEW x \in SUBSET (S \cup {n + 1}) PROVE x \in A \cup B
    <3>1. CASE n + 1 \in x
      <4>1. x \ {n + 1} \in A /\ x = (x \ {n + 1}) \cup {n + 1}
        BY <3>1
      <4> QED
        BY <4>1
    <3>2. CASE n + 1 \notin x
      BY <3>2
    <3> QED
      BY <3>1, <3>2
  <2>2. A \cup B \subseteq SUBSET (S \cup {n + 1})
    OBVIOUS
  <2> QED
    BY <2>1, <2>2
<1>7. A \cap B = {}
  BY <1>5
<1>8. f \in Surjection(A, B)
  BY DEF Surjection
<1>9. f \in Injection(A, B)
  <2>1. ASSUME NEW x \in A, NEW y \in A, f[x] = f[y] PROVE x = y
    <3>1. x \cup {n + 1} = y \cup {n + 1}
      BY <2>1
    <3>2. n + 1 \notin x /\ n + 1 \notin y
      BY <1>5
    <3> QED
      BY <3>1, <3>2
  <2>2. IsInjective(f)
    BY <1>8, <2>1 DEF IsInjective, Surjection
  <2> QED
    BY <1>8, <2>2 DEF Injection, Surjection
<1> HIDE DEF f
<1>10. IsFiniteSet(B) /\ Cardinality(B) = 2^n
  <2> HIDE DEF A, B
  <2> QED
    BY <1>2, <1>8, <1>9, FS_Surjection
<1>11. Cardinality(A \cup B) = 2^n + 2^n
  <2>1. Cardinality(A \cap B) = 0
    BY <1>7, FS_EmptySet
  <2>2. Cardinality(A) \in Nat
    BY <1>2, FS_CardinalityType
  <2> HIDE DEF A, B
  <2> QED
    BY <1>2, <1>10, <2>1, <2>2, FS_Union
<1>12. 2^n \in Nat /\ 2^n # 0
  <2>1. A # {}
    OBVIOUS
  <2> QED
    BY <1>2, <2>1, FS_CardinalityType, FS_EmptySet
<1> HIDE DEF A, B
<1>13. 2^(n + 1) = 2^n + 2^n
  BY <1>4, <1>5, <1>6, <1>11
<1> QED
  BY <1>12, <1>13 DEF Positive

-----------------------------------------------------------------------------
(* The primes. *)
Prime(n) == n >= 2 /\ \A d \in 2 .. n - 1 : n % d # 0

(* A divisor of n is a factor of it. *)
LEMMA Divisors ==
    ASSUME NEW n \in Nat, NEW d \in Positive
    PROVE  n % d = 0 <=> \E k \in Nat : n = k * d
<1>1. d \in Nat /\ d > 0
  BY DEF Positive
<1>2. ASSUME NEW k \in Nat, n = k * d
      PROVE  n % d = 0
  BY <1>1, <1>2
<1>3. ASSUME n % d = 0
      PROVE  \E k \in Nat : n = k * d
  BY <1>1, <1>3
<1> QED
  BY <1>2, <1>3

(* Larger factors make larger products. *)
LEMMA Products ==
    ASSUME NEW a \in Nat, NEW b \in Nat, NEW c \in Nat, a <= b
    PROVE  a * c \in Nat /\ b * c \in Nat /\ a * c <= b * c
  OBVIOUS

(* Odd divisors up to the root are enough to try. *)
LEMMA TrialDivision ==
    ASSUME NEW n \in Nat
    PROVE  IsPrime(n) <=> Prime(n)
<1>1. ASSUME Prime(n)
      PROVE  IsPrime(n)
  <2>1. CASE n = 2
    BY <2>1 DEF IsPrime
  <2>2. CASE n # 2
    <3>1. n > 2 /\ 2 \in 2 .. n - 1
      BY <1>1, <2>2 DEF Prime
    <3>2. n % 2 = 1
      <4>1. n % 2 # 0
        BY <1>1, <3>1 DEF Prime
      <4> QED
        BY <4>1
    <3>3. ASSUME NEW d \in 3 .. n, d * d <= n
          PROVE  n % d # 0
      <4>1. 3 * d <= d * d
        BY Products
      <4>2. d \in 2 .. n - 1
        BY <3>3, <4>1
      <4> QED
        BY <1>1, <4>2 DEF Prime
    <3> QED
      BY <3>1, <3>2, <3>3 DEF IsPrime
  <2> QED
    BY <2>1, <2>2
<1>2. ASSUME IsPrime(n), ~ Prime(n)
      PROVE  FALSE
  <2> DEFINE D == {e \in 2 .. n - 1 : n % e = 0}
  <2>1. n >= 2
    BY <1>2 DEF IsPrime
  <2>2. D # {} /\ D \subseteq Nat
    <3>1. PICK e \in 2 .. n - 1 : ~ (n % e # 0)
      BY <1>2, <2>1 DEF Prime
    <3>2. e \in D
      BY <3>1
    <3> QED
      BY <3>2
  <2>3. Min(D) \in D /\ \A e \in D : Min(D) <= e
    <3> HIDE DEF D
    <3> QED
      BY <2>2, Least
  <2>4. PICK d \in 2 .. n - 1 : n % d = 0 /\ \A e \in D : d <= e
    BY <2>3
  <2>5. n > 2 /\ n % 2 = 1 /\ \A e \in 3 .. n : e % 2 = 1 /\ e * e <= n => n % e # 0
    <3>1. n > 2
      BY <2>4
    <3> QED
      BY <1>2, <3>1 DEF IsPrime
  <2>6. PICK k \in Nat : n = k * d
    BY <2>4, Divisors DEF Positive
  <2>7. k # 0 /\ k # 1
    BY <2>4, <2>6
  <2>8. 2 * k <= d * k
    BY <2>4, Products
  <2>9. k \in 2 .. n - 1 /\ d * k = n
    BY <2>1, <2>6, <2>7, <2>8
  <2>10. n % k = 0
    BY <2>9, Divisors DEF Positive
  <2>11. d <= k
    BY <2>4, <2>9, <2>10
  <2>12. d * d <= n
    BY <2>6, <2>11, Products
  <2>13. d % 2 = 1
    <3>1. ASSUME d % 2 # 1 PROVE FALSE
      <4>1. d % 2 = 0
        BY <3>1
      <4>2. PICK j \in Nat : d = 2 * j
        <5>1. d = 2 * (d \div 2) /\ d \div 2 \in Nat
          BY <4>1
        <5> QED
          BY <5>1
      <4>3. k * j \in Nat /\ n = (k * j) * 2
        BY <2>6, <4>2
      <4> HIDE DEF D
      <4>4. n % 2 = 0
        BY <4>3
      <4> QED
        BY <2>5, <4>4
    <3> QED
      BY <3>1
  <2> HIDE DEF D
  <2>14. d \in 3 .. n
    BY <2>4, <2>13
  <2> QED
    BY <2>4, <2>5, <2>12, <2>13, <2>14
<1> QED
  BY <1>1, <1>2

(* What divides a divisor divides. *)
LEMMA DividesThrough ==
    ASSUME NEW n \in Nat, NEW p \in Positive, NEW d \in Positive, n % p = 0, p % d = 0
    PROVE  n % d = 0
<1>1. PICK k \in Nat : n = k * p
  BY Divisors
<1>2. PICK j \in Nat : p = j * d
  BY Divisors DEF Positive
<1>3. k * j \in Nat /\ n = (k * j) * d
  BY <1>1, <1>2 DEF Positive
<1> QED
  BY <1>3, Divisors

(* Every number from 2 has a prime divisor, its least one. *)
LEMMA PrimeDivisor ==
    ASSUME NEW n \in Nat, n >= 2
    PROVE  \E p \in 2 .. n : Prime(p) /\ n % p = 0
<1> DEFINE D == {e \in 2 .. n : n % e = 0}
<1>1. n \in D
  <2>1. n = 1 * n
    OBVIOUS
  <2>2. n % n = 0
    BY <2>1, Divisors DEF Positive
  <2> QED
    BY <2>2
<1>2. D # {} /\ D \subseteq Nat
  BY <1>1
<1>3. Min(D) \in D /\ \A e \in D : Min(D) <= e
  <2> HIDE DEF D
  <2> QED
    BY <1>2, Least
<1>4. PICK p \in 2 .. n : n % p = 0 /\ \A e \in D : p <= e
  BY <1>3
<1>5. ASSUME NEW d \in 2 .. p - 1 PROVE p % d # 0
  <2>1. SUFFICES ASSUME p % d = 0 PROVE FALSE
    OBVIOUS
  <2>2. n % d = 0
    <3>1. p \in Positive /\ d \in Positive /\ n % p = 0
      BY <1>4 DEF Positive
    <3> QED
      BY <2>1, <3>1, DividesThrough
  <2>3. d \in D
    BY <2>2
  <2> HIDE DEF D
  <2> QED
    BY <1>4, <2>3
<1>6. p >= 2
  OBVIOUS
<1>7. Prime(p)
  BY <1>5, <1>6 DEF Prime
<1> HIDE DEF D
<1> QED
  BY <1>4, <1>7

(* Some number is a multiple of every number up to n, *)
LEMMA CommonMultiple ==
    \A n \in Nat : \E m \in Positive : \A d \in 1 .. n : m % d = 0
<1> DEFINE T == {n \in Nat : \E m \in Positive : \A d \in 1 .. n : m % d = 0}
<1>1. 0 \in T
  <2>1. 1 \in Positive /\ \A d \in 1 .. 0 : 1 % d = 0
    BY DEF Positive
  <2> QED
    BY <2>1
<1>2. ASSUME NEW n \in Nat, n \in T
      PROVE  n + 1 \in T
  <2>1. PICK m \in Positive : \A d \in 1 .. n : m % d = 0
    BY <1>2
  <2>2. m * (n + 1) \in Nat /\ m * (n + 1) # 0
    BY DEF Positive
  <2>3. ASSUME NEW d \in 1 .. n + 1 PROVE (m * (n + 1)) % d = 0
    <3>1. CASE d = n + 1
      BY <2>2, <3>1, Divisors DEF Positive
    <3>2. CASE d # n + 1
      <4>1. m % d = 0
        BY <2>1, <3>2
      <4>2. (m * (n + 1)) % m = 0
        <5>1. m * (n + 1) = (n + 1) * m
          BY DEF Positive
        <5> QED
          BY <2>2, <5>1, Divisors
      <4>3. d \in Positive
        BY DEF Positive
      <4> QED
        BY <2>2, <4>1, <4>2, <4>3, DividesThrough
    <3> QED
      BY <3>1, <3>2
  <2>4. m * (n + 1) \in Positive
    BY <2>2 DEF Positive
  <2> QED
    BY <2>3, <2>4
<1>3. Nat \subseteq T
  <2> HIDE DEF T
  <2> QED
    BY <1>1, <1>2, Induction
<1> QED
  BY <1>3

(* so there is always another prime: none of those up to n divides the     *)
(* number after it.                                                        *)
LEMMA PrimesBeyond ==
    ASSUME NEW n \in Nat
    PROVE  \E p \in Nat : p > n /\ Prime(p)
<1>1. PICK m \in Positive : \A d \in 1 .. n : m % d = 0
  BY CommonMultiple
<1>2. m + 1 \in Nat /\ m + 1 >= 2 /\ m \in Nat
  BY DEF Positive
<1>3. PICK p \in 2 .. m + 1 : Prime(p) /\ (m + 1) % p = 0
  BY <1>2, PrimeDivisor
<1>4. p > n
  <2>1. SUFFICES ASSUME p <= n PROVE FALSE
    BY <1>3
  <2>2. m % p = 0
    BY <1>1, <2>1
  <2>3. PICK a \in Nat : m = a * p
    BY <1>2, <2>2, Divisors DEF Positive
  <2>4. PICK b \in Nat : m + 1 = b * p
    <3>1. m + 1 \in Nat /\ p \in Positive /\ (m + 1) % p = 0
      BY <1>2, <1>3 DEF Positive
    <3> QED
      BY <3>1, Divisors
  <2>5. CASE b <= a
    <3>1. b * p <= a * p
      BY <2>5, Products
    <3> QED
      BY <1>2, <2>3, <2>4, <3>1
  <2>6. CASE a + 1 <= b
    <3>1. (a + 1) * p <= b * p /\ (a + 1) * p = a * p + p
      BY <2>6, Products
    <3> QED
      BY <1>2, <2>3, <2>4, <3>1
  <2> QED
    BY <2>5, <2>6
<1> QED
  BY <1>3, <1>4

(* NextPrime is the least prime above a number, though it is found by      *)
(* counting up.                                                            *)
LEMMA NextPrimeIsNext ==
    ASSUME NEW c \in Nat
    PROVE  /\ NextPrime[c] \in Nat /\ NextPrime[c] > c /\ Prime(NextPrime[c])
           /\ \A q \in Nat : q > c /\ Prime(q) => NextPrime[c] <= q
<1> DEFINE Above(n) == {p \in Nat : p > n /\ Prime(p)}
           G(n) == Min(Above(n))
           Solves(f) == f = [candidate \in Nat |-> IF IsPrime(candidate + 1) THEN candidate + 1
                                                   ELSE f[candidate + 1]]
           g == [n \in Nat |-> G(n)]
<1>1. ASSUME NEW n \in Nat
      PROVE  G(n) \in Nat /\ G(n) > n /\ Prime(G(n)) /\ \A q \in Above(n) : G(n) <= q
  <2>1. Above(n) # {} /\ Above(n) \subseteq Nat
    BY PrimesBeyond
  <2>2. G(n) \in Above(n) /\ \A q \in Above(n) : G(n) <= q
    <3> HIDE DEF Above
    <3> QED
      BY <2>1, Least
  <2> QED
    BY <2>2
<1>2. ASSUME NEW n \in Nat
      PROVE  G(n) = IF IsPrime(n + 1) THEN n + 1 ELSE G(n + 1)
  <2>1. n + 1 \in Nat /\ (IsPrime(n + 1) <=> Prime(n + 1))
    BY TrialDivision
  <2>2. CASE Prime(n + 1)
    <3>1. n + 1 \in Above(n)
      BY <2>1, <2>2
    <3> HIDE DEF Above, G
    <3>2. G(n) = n + 1
      BY <1>1, <2>1, <3>1
    <3> QED
      BY <2>1, <2>2, <3>2
  <2>3. CASE ~ Prime(n + 1)
    <3>1. \A p \in Nat : p > n /\ Prime(p) <=> p > n + 1 /\ Prime(p)
      <4>1. \A p \in Nat : p > n <=> p > n + 1 \/ p = n + 1
        OBVIOUS
      <4> QED
        BY <2>3, <4>1
    <3>2. Above(n) = Above(n + 1)
      BY <3>1
    <3> HIDE DEF Above
    <3> QED
      BY <2>1, <2>3, <3>2
  <2> QED
    BY <2>2, <2>3
<1> HIDE DEF G
<1>3. \A n \in Nat : n + 1 \in Nat /\ g[n] = G(n)
  OBVIOUS
<1>4. g = [candidate \in Nat |-> IF IsPrime(candidate + 1) THEN candidate + 1 ELSE g[candidate + 1]]
  <2>1. \A n \in Nat : G(n) = IF IsPrime(n + 1) THEN n + 1 ELSE g[n + 1]
    BY <1>2, <1>3
  <2> QED
    BY <2>1
<1> HIDE DEF g
<1>5. NextPrime = CHOOSE f : Solves(f)
  BY DEF NextPrime
<1>6. Solves(NextPrime)
  BY <1>4, <1>5
<1>7. \A n \in Nat : NextPrime[n] = IF IsPrime(n + 1) THEN n + 1 ELSE NextPrime[n + 1]
  BY <1>6
<1> DEFINE T == {m \in Nat : \A n \in Nat : G(n) = n + 1 + m => NextPrime[n] = G(n)}
<1>8. 0 \in T
  <2>1. SUFFICES ASSUME NEW n \in Nat, G(n) = n + 1 PROVE NextPrime[n] = G(n)
    OBVIOUS
  <2>2. IsPrime(n + 1)
    BY <1>1, <2>1, TrialDivision
  <2> QED
    BY <1>7, <2>1, <2>2
<1>9. ASSUME NEW m \in Nat, m \in T
      PROVE  m + 1 \in T
  <2>1. SUFFICES ASSUME NEW n \in Nat, G(n) = n + 1 + (m + 1) PROVE NextPrime[n] = G(n)
    OBVIOUS
  <2>2. ~ IsPrime(n + 1)
    BY <1>2, <2>1
  <2>3. G(n) = G(n + 1) /\ NextPrime[n] = NextPrime[n + 1]
    BY <1>2, <1>7, <2>2
  <2>4. n + 1 \in Nat /\ G(n + 1) = (n + 1) + 1 + m
    BY <2>1, <2>3
  <2>5. NextPrime[n + 1] = G(n + 1)
    BY <1>9, <2>4
  <2> QED
    BY <2>3, <2>5
<1>10. Nat \subseteq T
  <2> HIDE DEF T
  <2> QED
    BY <1>8, <1>9, Induction
<1>11. NextPrime[c] = G(c)
  <2>1. G(c) \in Nat /\ G(c) > c
    BY <1>1
  <2>2. G(c) - (c + 1) \in Nat /\ G(c) = c + 1 + (G(c) - (c + 1))
    BY <2>1
  <2>3. G(c) - (c + 1) \in T
    BY <1>10, <2>2
  <2> QED
    BY <2>2, <2>3
<1> QED
  BY <1>1, <1>11

(* An iterator goes on from its last item. *)
Iterates(xs, step, first, count) ==
    \A k \in 1 .. count : xs[k] = step[IF k = 1 THEN first ELSE xs[k - 1]]

LEMMA IterationExists ==
    ASSUME NEW S, NEW first \in S, NEW step \in [S -> S], NEW count \in Nat
    PROVE  \E xs \in [1 .. count -> S] : Iterates(xs, step, first, count)
<1> DEFINE steps == [n \in Nat |-> step]
<1>1. steps \in [Nat -> [S -> S]]
  OBVIOUS
<1>2. PICK f \in [0 .. count -> S] : Chain(f, first, steps, count)
  <2> HIDE DEF steps
  <2> QED
    BY <1>1, ChainExists
<1> DEFINE xs == [k \in 1 .. count |-> f[k]]
<1>3. \A k \in 1 .. count : k \in 0 .. count /\ k \in Nat /\ steps[k] = step /\ xs[k] = f[k]
  OBVIOUS
<1>4. xs \in [1 .. count -> S]
  OBVIOUS
<1>5. ASSUME NEW k \in 1 .. count
      PROVE  xs[k] = step[IF k = 1 THEN first ELSE xs[k - 1]]
  <2>1. f[k] = step[f[k - 1]]
    BY <1>2, <1>3 DEF Chain
  <2>2. CASE k = 1
    BY <1>2, <1>3, <2>1, <2>2 DEF Chain
  <2>3. CASE k # 1
    <3>1. k - 1 \in 1 .. count
      BY <2>3
    <3> HIDE DEF xs, steps
    <3> QED
      BY <1>3, <2>1, <2>3, <3>1
  <2> QED
    BY <2>2, <2>3
<1> HIDE DEF xs
<1> QED
  BY <1>4, <1>5 DEF Iterates

(* The first primes, in order and without a gap. *)
FirstPrimes(xs, count) ==
    /\ xs \in [1 .. count -> Positive]
    /\ \A k \in 1 .. count : Prime(xs[k])
    /\ \A k \in 1 .. count : \A q \in Nat :
          Prime(q) /\ q <= xs[k] => \E i \in 1 .. k : xs[i] = q

LEMMA PrimesInOrder ==
    ASSUME NEW count \in Nat
    PROVE  FirstPrimes(Iterated(LAMBDA p : NextPrime[p], 1, count), count)
<1> DEFINE Solves(xs) == xs = [k \in 1 .. count |-> NextPrime[IF k = 1 THEN 1 ELSE xs[k - 1]]]
           s == CHOOSE xs : Solves(xs)
           step == [p \in Nat |-> NextPrime[p]]
<1>1. Iterated(LAMBDA p : NextPrime[p], 1, count) = s
  BY DEF Iterated
<1>2. step \in [Nat -> Nat]
  BY NextPrimeIsNext
<1>3. PICK xs \in [1 .. count -> Nat] : Iterates(xs, step, 1, count)
  <2> HIDE DEF step
  <2> QED
    BY <1>2, IterationExists
<1>4. \A k \in 1 .. count : (IF k = 1 THEN 1 ELSE xs[k - 1]) \in Nat
  OBVIOUS
<1>5. \A k \in 1 .. count : xs[k] = NextPrime[IF k = 1 THEN 1 ELSE xs[k - 1]]
  BY <1>3, <1>4 DEF Iterates
<1>6. Solves(xs)
  BY <1>5
<1>7. Solves(s)
  BY <1>6
<1> HIDE DEF s
<1>8. DOMAIN s = 1 .. count /\ \A k \in 1 .. count : s[k] = NextPrime[IF k = 1 THEN 1 ELSE s[k - 1]]
  BY <1>7
<1> HIDE DEF Solves
<1> DEFINE Good(k) == /\ s[k] \in Positive /\ Prime(s[k])
                      /\ \A q \in Nat : Prime(q) /\ q <= s[k] => \E i \in 1 .. k : s[i] = q
           T == {k \in Nat : k \in 1 .. count => Good(k)}
<1>9. 0 \in T
  OBVIOUS
<1>10. ASSUME NEW k \in Nat, k \in T
       PROVE  k + 1 \in T
  <2>1. SUFFICES ASSUME k + 1 \in 1 .. count PROVE Good(k + 1)
    OBVIOUS
  <2> DEFINE before == IF k + 1 = 1 THEN 1 ELSE s[k]
             now == s[k + 1]
  <2>2. now = NextPrime[before]
    <3>1. (k + 1) - 1 = k
      OBVIOUS
    <3> QED
      BY <1>8, <2>1, <3>1
  <2>3. k # 0 => Good(k)
    <3>1. k # 0 => k \in 1 .. count
      BY <2>1
    <3> QED
      BY <1>10, <3>1
  <2>4. before \in Nat
    BY <2>3 DEF Positive
  <2>5. /\ now \in Nat /\ now > before /\ Prime(now)
        /\ \A q \in Nat : q > before /\ Prime(q) => now <= q
    BY <2>2, <2>4, NextPrimeIsNext
  <2> HIDE DEF now
  <2>6. ASSUME NEW q \in Nat, Prime(q), q <= now
        PROVE  \E i \in 1 .. k + 1 : s[i] = q
    <3>1. CASE q > before
      <4>1. q = now
        BY <2>4, <2>5, <2>6, <3>1
      <4> QED
        BY <4>1 DEF now
    <3>2. CASE q <= before
      <4>1. k # 0
        BY <2>6, <3>2 DEF Prime
      <4>2. \E i \in 1 .. k : s[i] = q
        BY <2>3, <2>6, <3>2, <4>1
      <4> QED
        BY <4>2
    <3> QED
      BY <2>4, <3>1, <3>2
  <2>7. now \in Positive
    BY <2>4, <2>5 DEF Positive
  <2> QED
    BY <2>5, <2>6, <2>7 DEF now
<1>11. Nat \subseteq T
  <2> HIDE DEF T
  <2> QED
    BY <1>9, <1>10, Induction
<1>12. \A k \in 1 .. count : Good(k)
  BY <1>11
<1>13. s = [k \in 1 .. count |-> s[k]]
  BY <1>7 DEF Solves
<1>14. s \in [1 .. count -> Positive]
  BY <1>12, <1>13
<1> QED
  BY <1>1, <1>12, <1>14 DEF FirstPrimes

(* A number is one of the first primes when none below divides it. *)
LEMMA PrimesSieve ==
    ASSUME NEW count \in Nat, NEW xs, FirstPrimes(xs, count), NEW m \in Nat, m <= count, m >= 1,
           NEW n \in 2 .. xs[m]
    PROVE  (\E i \in 1 .. m : xs[i] = n) <=>
               \A i \in 1 .. m : xs[i] < n => n % xs[i] # 0
<1>1. \A i \in 1 .. m : xs[i] \in Nat /\ xs[i] >= 2 /\ Prime(xs[i])
  BY DEF FirstPrimes, Prime, Positive
<1>2. \A q \in Nat : Prime(q) /\ q <= xs[m] => \E i \in 1 .. m : xs[i] = q
  BY DEF FirstPrimes
<1>3. xs[m] \in Nat /\ n \in Nat /\ n >= 2 /\ n <= xs[m]
  BY <1>1
<1>4. ASSUME NEW j \in 1 .. m, xs[j] = n, NEW i \in 1 .. m, xs[i] < n
      PROVE  n % xs[i] # 0
  <2>1. xs[i] \in 2 .. n - 1
    BY <1>1, <1>3, <1>4
  <2> QED
    BY <1>1, <1>4, <2>1 DEF Prime
<1>5. ASSUME \A i \in 1 .. m : xs[i] < n => n % xs[i] # 0
      PROVE  \E i \in 1 .. m : xs[i] = n
  <2>1. PICK p \in 2 .. n : Prime(p) /\ n % p = 0
    BY <1>3, PrimeDivisor
  <2>2. p \in Nat /\ p <= xs[m]
    BY <1>3
  <2>3. PICK i \in 1 .. m : xs[i] = p
    BY <1>2, <2>1, <2>2
  <2>4. p = n
    BY <1>3, <1>5, <2>1, <2>3
  <2> QED
    BY <2>3, <2>4
<1> QED
  BY <1>4, <1>5

-----------------------------------------------------------------------------
(* The generator of random states. *)
Bit1(x, i) == IF i \in x THEN 2^i ELSE 0

(* f sums up the bits of x one after the other. *)
SumsUp(f, x, w) ==
    f \in [0 .. w -> Nat] /\ f[0] = 0 /\ \A i \in 1 .. w : f[i] = f[i - 1] + Bit1(x, i - 1)

LEMMA BitsAreNumbers ==
    ASSUME NEW x, NEW i \in Nat
    PROVE  Bit1(x, i) \in Nat
<1>1. 2^i \in Nat
  BY PowersDouble DEF Positive
<1> QED
  BY <1>1 DEF Bit1

LEMMA SumsExist ==
    ASSUME NEW x, NEW w \in Nat
    PROVE  \E f : SumsUp(f, x, w)
<1> DEFINE step == [n \in Nat |-> [v \in Nat |-> IF n = 0 THEN v ELSE v + Bit1(x, n - 1)]]
<1>1. \A n \in Nat, v \in Nat : (IF n = 0 THEN v ELSE v + Bit1(x, n - 1)) \in Nat
  BY BitsAreNumbers
<1>2. step \in [Nat -> [Nat -> Nat]]
  BY <1>1
<1>3. PICK f \in [0 .. w -> Nat] : Chain(f, 0, step, w)
  <2> HIDE DEF step
  <2> QED
    BY <1>2, ChainExists
<1>4. ASSUME NEW i \in 1 .. w
      PROVE  f[i] = f[i - 1] + Bit1(x, i - 1)
  <2>1. i \in Nat /\ i # 0 /\ i - 1 \in 0 .. w /\ f[i - 1] \in Nat
    OBVIOUS
  <2>2. f[i] = step[i][f[i - 1]]
    BY <1>3 DEF Chain
  <2> QED
    BY <2>1, <2>2
<1> HIDE DEF step
<1> QED
  BY <1>3, <1>4 DEF SumsUp, Chain

(* The value of a word is the sum of its bits. *)
LEMMA ValueSums ==
    ASSUME NEW w \in Nat, NEW x \in Word(w)
    PROVE  \E f : SumsUp(f, x, w) /\ Value(x) = f[w]
<1> DEFINE top == IF x = {} THEN 0 ELSE Max(x) + 1
           Solves(g) == g = [i \in 0 .. top |->
                                IF i = 0 THEN 0
                                ELSE g[i - 1] + (IF i - 1 \in x THEN 2^(i - 1) ELSE 0)]
           below == CHOOSE g : Solves(g)
<1>1. Value(x) = below[top]
  BY DEF Value
<1>2. x \in SUBSET Nat /\ \A i \in x : i < w /\ i <= w
  BY DEF Word, Positions
<1>3. top \in 0 .. w /\ \A i \in x : i < top
  <2>1. CASE x = {}
    BY <2>1
  <2>2. CASE x # {}
    <3>1. Max(x) \in x /\ \A i \in x : i <= Max(x)
      BY <1>2, <2>2, Greatest
    <3>2. Max(x) \in Nat /\ Max(x) < w /\ \A i \in x : i \in Nat
      BY <1>2, <3>1
    <3> QED
      BY <2>2, <3>1, <3>2
  <2> QED
    BY <2>1, <2>2
<1> HIDE DEF top
<1>4. PICK f : SumsUp(f, x, w)
  BY SumsExist
<1> DEFINE g == [i \in 0 .. top |-> f[i]]
<1>5. \A i \in 0 .. top : i \in 0 .. w /\ g[i] = f[i] /\ (i # 0 => i \in 1 .. w /\ i - 1 \in 0 .. top)
  BY <1>3
<1>6. ASSUME NEW i \in 0 .. top
      PROVE  g[i] = IF i = 0 THEN 0 ELSE g[i - 1] + (IF i - 1 \in x THEN 2^(i - 1) ELSE 0)
  <2> HIDE DEF g
  <2> QED
    BY <1>4, <1>5 DEF SumsUp, Bit1
<1>7. g = [i \in 0 .. top |-> g[i]]
  OBVIOUS
<1> HIDE DEF g
<1>8. Solves(g)
  BY <1>6, <1>7
<1>9. Solves(below)
  BY <1>8
<1> HIDE DEF below
<1>10. \A i \in 0 .. top : below[i] = IF i = 0 THEN 0 ELSE below[i - 1] + Bit1(x, i - 1)
  BY <1>9 DEF Bit1
<1> HIDE DEF Solves
<1> DEFINE T == {i \in Nat : i <= top => below[i] = f[i]}
           U == {i \in Nat : top + i <= w => f[top + i] = f[top]}
<1>11. Nat \subseteq T
  <2>1. 0 \in T
    BY <1>3, <1>4, <1>10 DEF SumsUp
  <2>2. ASSUME NEW i \in Nat, i \in T
        PROVE  i + 1 \in T
    <3>1. SUFFICES ASSUME i + 1 <= top PROVE below[i + 1] = f[i + 1]
      OBVIOUS
    <3>2. i + 1 \in 0 .. top /\ i + 1 # 0 /\ (i + 1) - 1 = i /\ i + 1 \in 1 .. w /\ i <= top
      BY <1>3, <3>1
    <3>3. below[i + 1] = below[i] + Bit1(x, i) /\ f[i + 1] = f[i] + Bit1(x, i)
      BY <1>4, <1>10, <3>2 DEF SumsUp
    <3> QED
      BY <2>2, <3>2, <3>3
  <2> HIDE DEF T
  <2> QED
    BY <2>1, <2>2, Induction
<1>12. Nat \subseteq U
  <2>1. 0 \in U
    BY <1>3
  <2>2. ASSUME NEW i \in Nat, i \in U
        PROVE  i + 1 \in U
    <3>1. SUFFICES ASSUME top + (i + 1) <= w PROVE f[top + (i + 1)] = f[top]
      OBVIOUS
    <3> DEFINE j == top + i
    <3>2. j \in Nat /\ j + 1 = top + (i + 1) /\ j + 1 \in 1 .. w /\ (j + 1) - 1 = j
          /\ j \in 0 .. w /\ top + i <= w /\ ~ (j < top)
      BY <1>3, <3>1
    <3>3. f[j] = f[top]
      BY <2>2, <3>2
    <3>4. j \notin x
      BY <1>3, <3>2
    <3> HIDE DEF j
    <3>5. f[j + 1] = f[j] + 0 /\ f[j] \in Nat
      BY <1>4, <3>2, <3>4 DEF SumsUp, Bit1
    <3> QED
      BY <3>2, <3>3, <3>5
  <2> HIDE DEF U
  <2> QED
    BY <2>1, <2>2, Induction
<1>13. below[top] = f[top] /\ f[w] = f[top]
  <2>1. top \in Nat /\ top \in T
    BY <1>3, <1>11
  <2>2. w - top \in Nat /\ top + (w - top) = w /\ w - top \in U
    BY <1>3, <1>12
  <2>3. below[top] = f[top]
    BY <2>1
  <2>4. f[w] = f[top]
    BY <2>2
  <2> QED
    BY <2>3, <2>4
<1> QED
  BY <1>1, <1>4, <1>13

(* The first i bits make less than 2^i, *)
LEMMA SumsBounded ==
    ASSUME NEW w \in Nat, NEW x, NEW f, SumsUp(f, x, w)
    PROVE  \A i \in 0 .. w : f[i] \in Nat /\ f[i] < 2^i
<1> DEFINE T == {i \in Nat : i <= w => f[i] \in Nat /\ f[i] < 2^i}
<1>1. 0 \in T
  <2>1. 2^0 \in Nat /\ 2^0 # 0
    BY PowersDouble DEF Positive
  <2> QED
    BY <2>1 DEF SumsUp
<1>2. ASSUME NEW i \in Nat, i \in T
      PROVE  i + 1 \in T
  <2>1. SUFFICES ASSUME i + 1 <= w PROVE f[i + 1] \in Nat /\ f[i + 1] < 2^(i + 1)
    OBVIOUS
  <2>2. i + 1 \in 1 .. w /\ (i + 1) - 1 = i /\ i <= w
    BY <2>1
  <2>3. f[i + 1] = f[i] + Bit1(x, i)
    BY <2>2 DEF SumsUp
  <2>4. 2^i \in Nat /\ 2^(i + 1) = 2 * 2^i
    BY PowersDouble DEF Positive
  <2>5. Bit1(x, i) \in Nat /\ Bit1(x, i) <= 2^i
    BY <2>4 DEF Bit1
  <2>6. f[i] \in Nat /\ f[i] < 2^i
    BY <1>2, <2>2
  <2> QED
    BY <2>3, <2>4, <2>5, <2>6
<1>3. Nat \subseteq T
  <2> HIDE DEF T
  <2> QED
    BY <1>1, <1>2, Induction
<1> QED
  BY <1>3

(* so different bits make different sums. *)
LEMMA SumsTellBits ==
    ASSUME NEW w \in Nat, NEW x, NEW y, NEW f, NEW g, SumsUp(f, x, w), SumsUp(g, y, w), f[w] = g[w]
    PROVE  \A j \in 0 .. w - 1 : j \in x <=> j \in y
<1> DEFINE T == {i \in Nat : i <= w /\ f[i] = g[i] => \A j \in 0 .. i - 1 : j \in x <=> j \in y}
<1>1. 0 \in T
  OBVIOUS
<1>2. ASSUME NEW i \in Nat, i \in T
      PROVE  i + 1 \in T
  <2>1. SUFFICES ASSUME i + 1 <= w, f[i + 1] = g[i + 1],
                        NEW j \in 0 .. i
                 PROVE  j \in x <=> j \in y
    BY DEF T
  <2>2. i + 1 \in 1 .. w /\ (i + 1) - 1 = i /\ i <= w /\ i \in 0 .. w
    BY <2>1
  <2>3. f[i + 1] = f[i] + Bit1(x, i) /\ g[i + 1] = g[i] + Bit1(y, i)
    BY <2>2 DEF SumsUp
  <2>4. f[i] \in Nat /\ f[i] < 2^i /\ g[i] \in Nat /\ g[i] < 2^i /\ 2^i \in Nat
    BY <2>2, SumsBounded, PowersDouble DEF Positive
  <2> DEFINE P == 2^i
             a == Bit1(x, i)
             b == Bit1(y, i)
  <2>8. (i \in x /\ a = P) \/ (i \notin x /\ a = 0)
    BY DEF Bit1
  <2>9. (i \in y /\ b = P) \/ (i \notin y /\ b = 0)
    BY DEF Bit1
  <2>10. f[i] + a = g[i] + b /\ f[i] < P /\ g[i] < P /\ P \in Nat
    BY <2>1, <2>3, <2>4
  <2>5. (i \in x <=> i \in y) /\ f[i] = g[i]
    <3> HIDE DEF a, b, P
    <3> QED
      BY <2>4, <2>8, <2>9, <2>10
  <2>6. CASE j = i
    BY <2>5, <2>6
  <2>7. CASE j # i
    <3>1. j \in 0 .. i - 1
      BY <2>7
    <3> QED
      BY <1>2, <2>2, <2>5, <3>1
  <2> QED
    BY <2>6, <2>7
<1>3. Nat \subseteq T
  <2> HIDE DEF T
  <2> QED
    BY <1>1, <1>2, Induction
<1> QED
  BY <1>3

(* A word is told by its value, which its width bounds. *)
LEMMA WordsHaveValues ==
    ASSUME NEW w \in Nat
    PROVE  /\ \A x \in Word(w) : Value(x) \in Nat /\ Value(x) < 2^w
           /\ \A x \in Word(w), y \in Word(w) : Value(x) = Value(y) => x = y
           /\ \A x \in Word(w) : x # {} => Value(x) # 0
<1>1. ASSUME NEW x \in Word(w)
      PROVE  Value(x) \in Nat /\ Value(x) < 2^w
  <2>1. PICK f : SumsUp(f, x, w) /\ Value(x) = f[w]
    BY ValueSums
  <2> QED
    BY <2>1, SumsBounded
<1>2. ASSUME NEW x \in Word(w), NEW y \in Word(w), Value(x) = Value(y)
      PROVE  x = y
  <2>1. PICK f : SumsUp(f, x, w) /\ Value(x) = f[w]
    BY ValueSums
  <2>2. PICK g : SumsUp(g, y, w) /\ Value(y) = g[w]
    BY ValueSums
  <2>3. \A j \in 0 .. w - 1 : j \in x <=> j \in y
    BY <1>2, <2>1, <2>2, SumsTellBits
  <2> QED
    BY <2>3 DEF Word, Positions
<1>3. Value({}) = 0
  <2>1. {} \in Word(0)
    BY DEF Word
  <2>2. PICK f : SumsUp(f, {}, 0) /\ Value({}) = f[0]
    BY <2>1, ValueSums
  <2> QED
    BY <2>2 DEF SumsUp
<1>4. {} \in Word(w)
  BY DEF Word
<1> QED
  BY <1>1, <1>2, <1>3, <1>4

(* A number of the generator's state is a word, and no bit is lost: only   *)
(* zero is the empty one.                                                  *)
LEMMA StatesOfNumbers ==
    ASSUME NEW n \in 0 .. 2^StateWidth - 1
    PROVE  StateOf(n) \in Word(StateWidth) /\ (n # 0 => StateOf(n) # {})
<1> DEFINE L == {i \in Positions(StateWidth) : 2^i <= n}
<1>1. StateWidth \in Nat /\ StateWidth >= 1
  BY SpecAssumption
<1>2. StateOf(n) \in Word(StateWidth)
  BY DEF StateOf, Word
<1>3. ASSUME n # 0 PROVE StateOf(n) # {}
  <2>1. n \in Nat /\ n >= 1 /\ n < 2^StateWidth
    BY <1>1, <1>3, PowersDouble DEF Positive
  <2>2. 2^0 = 1
    OBVIOUS
  <2>3. 0 \in L
    BY <1>1, <2>1, <2>2 DEF Positions
  <2>13. \A i \in Positions(StateWidth) : i \in Nat /\ i <= StateWidth
    BY <1>1 DEF Positions
  <2>4. L \in SUBSET Nat /\ L # {} /\ \A i \in L : i <= StateWidth
    BY <2>3, <2>13
  <2>5. Max(L) \in L /\ \A i \in L : i <= Max(L)
    <3> HIDE DEF L
    <3> QED
      BY <1>1, <2>4, Greatest
  <2>6. PICK g \in Positions(StateWidth) : 2^g <= n /\ \A i \in L : i <= g
    BY <2>5
  <2>7. g \in Nat /\ g < StateWidth
    BY <1>1, <2>6 DEF Positions
  <2> DEFINE P == 2^g
  <2>8. P \in Nat /\ P >= 1 /\ 2^(g + 1) = 2 * P
    BY <2>7, PowersDouble DEF Positive
  <2>9. n < 2^(g + 1)
    <3>1. CASE g + 1 = StateWidth
      BY <2>1, <3>1
    <3>2. CASE g + 1 # StateWidth
      <4>1. g + 1 \in Positions(StateWidth)
        BY <1>1, <2>7, <3>2 DEF Positions
      <4>2. g + 1 \notin L
        BY <2>6, <2>7
      <4>3. ~ (2^(g + 1) <= n)
        BY <4>1, <4>2
      <4> QED
        BY <2>1, <2>8, <4>3
    <3> QED
      BY <3>1, <3>2
  <2>10. P <= n /\ n < 2 * P
    BY <2>6, <2>8, <2>9
  <2> HIDE DEF P, L
  <2>11. n \div P = 1
    BY <2>1, <2>8, <2>10
  <2>12. (n \div P) % 2 = 1
    BY <2>11
  <2> QED
    BY <2>6, <2>12 DEF StateOf, P
<1> QED
  BY <1>2, <1>3

Nonzero == Word(StateWidth) \ {{}}

(* A shift against itself leaves a word some bit: to the left its lowest, *)
LEMMA ShiftedLeft ==
    ASSUME NEW x \in Nonzero, NEW k \in Nat \ {0}
    PROVE  Xor(x, Shl(x, k, StateWidth)) \in Nonzero
<1>1. StateWidth \in Nat /\ x \in SUBSET Positions(StateWidth) /\ x # {} /\ x \in SUBSET Nat
  BY SpecAssumption DEF Nonzero, Word, Positions
<1>2. Min(x) \in x /\ \A i \in x : Min(x) <= i
  BY <1>1, Least
<1>3. PICK m \in x : \A i \in x : m <= i
  BY <1>2
<1>4. m \in Nat /\ \A i \in x : i \in Nat /\ i + k # m
  BY <1>1, <1>3
<1>5. m \notin Shl(x, k, StateWidth)
  BY <1>4 DEF Shl
<1>6. Shl(x, k, StateWidth) \subseteq Positions(StateWidth)
  BY DEF Shl
<1> QED
  BY <1>1, <1>5, <1>6 DEF Xor, Nonzero, Word

(* to the right its highest. *)
LEMMA ShiftedRight ==
    ASSUME NEW x \in Nonzero, NEW k \in Nat \ {0}
    PROVE  Xor(x, Shr(x, k)) \in Nonzero
<1>1. /\ StateWidth \in Nat /\ x \in SUBSET Positions(StateWidth) /\ x # {} /\ x \in SUBSET Nat
      /\ \A i \in x : i < StateWidth /\ i <= StateWidth
  BY SpecAssumption DEF Nonzero, Word, Positions
<1>2. Max(x) \in x /\ \A i \in x : i <= Max(x)
  BY <1>1, Greatest
<1>3. PICK m \in x : \A i \in x : i <= m
  BY <1>2
<1>4. m \in Nat /\ \A i \in x : i \in Nat /\ i - k # m
  BY <1>1, <1>3
<1>5. m \notin Shr(x, k)
  BY <1>4 DEF Shr
<1>6. Shr(x, k) \subseteq Positions(StateWidth)
  BY <1>1 DEF Shr, Positions
<1> QED
  BY <1>1, <1>5, <1>6 DEF Xor, Nonzero, Word

LEMMA StatesStayNonzero ==
    ASSUME NEW x \in Nonzero
    PROVE  Xorshift(x) \in Nonzero
<1> DEFINE a == Xor(x, Shl(x, Shifts[1], StateWidth))
           b == Xor(a, Shr(a, Shifts[2]))
<1>1. \A i \in 1 .. 3 : Shifts[i] \in Nat \ {0}
  BY SpecAssumption
<1>2. a \in Nonzero
  BY <1>1, ShiftedLeft
<1> HIDE DEF a
<1>3. b \in Nonzero
  BY <1>1, <1>2, ShiftedRight
<1> HIDE DEF b
<1>4. Xor(b, Shl(b, Shifts[3], StateWidth)) \in Nonzero
  BY <1>1, <1>3, ShiftedLeft
<1> QED
  BY <1>4 DEF Xorshift, a, b

(* The states that follow one are its successors in turn. *)
LEMMA StatesFollow ==
    ASSUME NEW first \in Nonzero, NEW count \in Nat
    PROVE  LET xs == Iterated(Xorshift, first, count)
           IN /\ xs \in [1 .. count -> Nonzero]
              /\ \A k \in 1 .. count : xs[k] = Xorshift(IF k = 1 THEN first ELSE xs[k - 1])
<1> DEFINE Solves(xs) == xs = [k \in 1 .. count |-> Xorshift(IF k = 1 THEN first ELSE xs[k - 1])]
           s == CHOOSE xs : Solves(xs)
           step == [x \in Nonzero |-> Xorshift(x)]
<1>1. Iterated(Xorshift, first, count) = s
  BY DEF Iterated
<1>2. step \in [Nonzero -> Nonzero]
  BY StatesStayNonzero
<1>3. PICK xs \in [1 .. count -> Nonzero] : Iterates(xs, step, first, count)
  <2> HIDE DEF step
  <2> QED
    BY <1>2, IterationExists
<1>4. \A k \in 1 .. count : (IF k = 1 THEN first ELSE xs[k - 1]) \in Nonzero
  OBVIOUS
<1>5. \A k \in 1 .. count : xs[k] = Xorshift(IF k = 1 THEN first ELSE xs[k - 1])
  BY <1>3, <1>4 DEF Iterates
<1>6. Solves(xs)
  BY <1>5
<1>7. Solves(s)
  BY <1>6
<1> HIDE DEF s
<1>8. /\ DOMAIN s = 1 .. count
      /\ \A k \in 1 .. count : s[k] = Xorshift(IF k = 1 THEN first ELSE s[k - 1])
      /\ s = [k \in 1 .. count |-> s[k]]
  BY <1>7
<1> HIDE DEF Solves
<1> DEFINE T == {k \in Nat : k \in 1 .. count => s[k] \in Nonzero}
<1>9. 0 \in T
  OBVIOUS
<1>10. ASSUME NEW k \in Nat, k \in T
       PROVE  k + 1 \in T
  <2>1. SUFFICES ASSUME k + 1 \in 1 .. count PROVE s[k + 1] \in Nonzero
    OBVIOUS
  <2> DEFINE before == IF k + 1 = 1 THEN first ELSE s[k]
  <2>2. s[k + 1] = Xorshift(before)
    <3>1. (k + 1) - 1 = k
      OBVIOUS
    <3> QED
      BY <1>8, <2>1, <3>1
  <2>3. before \in Nonzero
    <3>1. k # 0 => k \in 1 .. count
      BY <2>1
    <3> QED
      BY <1>10, <3>1
  <2> HIDE DEF before
  <2> QED
    BY <2>2, <2>3, StatesStayNonzero
<1>11. Nat \subseteq T
  <2> HIDE DEF T
  <2> QED
    BY <1>9, <1>10, Induction
<1>12. \A k \in 1 .. count : s[k] \in Nonzero
  BY <1>11
<1>13. s \in [1 .. count -> Nonzero]
  BY <1>8, <1>12
<1> QED
  BY <1>1, <1>8, <1>13

(* No state comes twice within a dataset. *)
LEMMA StatesDiffer ==
    ASSUME NEW first \in Nonzero, NEW count \in Nat,
           NEW j \in 1 .. count, NEW k \in 1 .. count, j < k, k <= MaxItems
    PROVE  Iterated(Xorshift, first, count)[j] # Iterated(Xorshift, first, count)[k]
<1> DEFINE xs == Iterated(Xorshift, first, count)
           ys == Iterated(Xorshift, xs[j], k - j)
<1>1. /\ xs \in [1 .. count -> Nonzero]
      /\ \A i \in 1 .. count : xs[i] = Xorshift(IF i = 1 THEN first ELSE xs[i - 1])
  BY StatesFollow
<1> HIDE DEF xs
<1>2. xs[j] \in Nonzero /\ k - j \in Nat /\ MaxItems \in Nat /\ k - j \in 1 .. MaxItems
  BY <1>1, SpecAssumption
<1>3. \A i \in 1 .. k - j : ys[i] = Xorshift(IF i = 1 THEN xs[j] ELSE ys[i - 1])
  BY <1>2, StatesFollow
<1>4. ys[k - j] # xs[j]
  BY <1>2, PeriodAssumption DEF Nonzero
<1> HIDE DEF ys
<1> DEFINE T == {i \in Nat : i \in 1 .. k - j => ys[i] = xs[j + i]}
<1>5. 0 \in T
  OBVIOUS
<1>6. ASSUME NEW i \in Nat, i \in T
      PROVE  i + 1 \in T
  <2>1. SUFFICES ASSUME i + 1 \in 1 .. k - j PROVE ys[i + 1] = xs[j + (i + 1)]
    OBVIOUS
  <2>2. j + (i + 1) \in 1 .. count /\ j + (i + 1) # 1 /\ (j + (i + 1)) - 1 = j + i /\ (i + 1) - 1 = i
    BY <2>1
  <2>3. xs[j + (i + 1)] = Xorshift(xs[j + i])
    BY <1>1, <2>2
  <2>4. CASE i = 0
    <3>1. ys[i + 1] = Xorshift(xs[j]) /\ j + i = j
      BY <1>3, <2>1, <2>4
    <3> QED
      BY <2>3, <3>1
  <2>5. CASE i # 0
    <3>1. i \in 1 .. k - j /\ i + 1 # 1
      BY <2>1, <2>5
    <3>2. ys[i + 1] = Xorshift(ys[i]) /\ ys[i] = xs[j + i]
      BY <1>3, <1>6, <2>1, <2>2, <3>1
    <3> QED
      BY <2>3, <3>2
  <2> QED
    BY <2>4, <2>5
<1>7. Nat \subseteq T
  <2> HIDE DEF T
  <2> QED
    BY <1>5, <1>6, Induction
<1>8. ys[k - j] = xs[k]
  <2>1. k - j \in 1 .. k - j /\ j + (k - j) = k
    BY <1>2
  <2> QED
    BY <1>2, <1>7, <2>1
<1> QED
  BY <1>4, <1>8 DEF xs

-----------------------------------------------------------------------------
(* The items of each type. *)
LEMMA AtLeast ==
    ASSUME NEW n \in Nat
    PROVE  AtLeastOne(n) \in Positive /\ n <= AtLeastOne(n) /\ (n >= 1 => AtLeastOne(n) = n)
<1>1. {n, 1} \in SUBSET Nat /\ {n, 1} # {} /\ \A k \in {n, 1} : k <= n + 1
  OBVIOUS
<1>2. Max({n, 1}) \in {n, 1} /\ \A k \in {n, 1} : k <= Max({n, 1})
  BY <1>1, Greatest
<1> DEFINE m == Max({n, 1})
<1>3. (m = n \/ m = 1) /\ n <= m /\ 1 <= m
  BY <1>2
<1>4. AtLeastOne(n) = m
  BY DEF AtLeastOne
<1> HIDE DEF m
<1> QED
  BY <1>3, <1>4 DEF Positive

(* The specification's numbers between its ends that have a property. *)
InRange(spec) == AtLeastOne(spec.start) .. spec.end
Evens(spec) == {n \in InRange(spec) : n % 2 = 0}
Odds(spec) == {n \in InRange(spec) : n % 2 # 0}

LEMMA RangeStates ==
    ASSUME NEW S, NEW a \in Positive, NEW b \in Nat, S \subseteq a .. b
    PROVE  Ascending(S) \in Seq(Positive) /\ ToSet(Ascending(S)) = S
<1>1. IsFiniteSet(a .. b) /\ a .. b \subseteq Positive /\ a .. b \subseteq Nat
  BY FS_Interval DEF Positive
<1>2. IsFiniteSet(S) /\ S \in SUBSET Nat /\ S \subseteq Positive
  BY <1>1, FS_Subset
<1>3. /\ Cardinality(S) \in Nat /\ Ascending(S) \in [1 .. Cardinality(S) -> S]
      /\ ToSet(Ascending(S)) = S
  BY <1>2, AscendingLists
<1>4. Ascending(S) \in [1 .. Cardinality(S) -> Positive]
  BY <1>2, <1>3
<1> QED
  BY <1>3, <1>4

(* A range, its even and its odd numbers. *)
LEMMA RangesSplit ==
    ASSUME NEW spec \in Described, spec.type \in {"range", "even", "odd"}
    PROVE  /\ States(spec) \in Seq(Positive)
           /\ spec.type = "range" => ToSet(States(spec)) = Halves(spec)
<1> DEFINE of == [range |-> InRange(spec), even |-> Evens(spec), odd |-> Odds(spec)]
<1>1. spec \in [type : {"range", "even", "odd"}, start : Nat, end : Nat]
  BY DEF Described
<1>2. AtLeastOne(spec.start) \in Positive /\ spec.end \in Nat
  BY <1>1, AtLeast
<1>3. /\ Ascending(InRange(spec)) \in Seq(Positive) /\ ToSet(Ascending(InRange(spec))) = InRange(spec)
      /\ Ascending(Evens(spec)) \in Seq(Positive) /\ ToSet(Ascending(Evens(spec))) = Evens(spec)
      /\ Ascending(Odds(spec)) \in Seq(Positive) /\ ToSet(Ascending(Odds(spec))) = Odds(spec)
  BY <1>2, RangeStates DEF InRange, Evens, Odds
<1>4. /\ spec.type = "range" => States(spec) = Ascending(InRange(spec))
      /\ spec.type = "even" => States(spec) = Ascending(Evens(spec))
      /\ spec.type = "odd" => States(spec) = Ascending(Odds(spec))
  BY DEF States, InRange, Evens, Odds
<1>5. ASSUME spec.type = "range"
      PROVE  ToSet(States(spec)) = Halves(spec)
  <2> DEFINE e == [spec EXCEPT !.type = "even"]
             o == [spec EXCEPT !.type = "odd"]
  <2>1. /\ e.type = "even" /\ e.start = spec.start /\ e.end = spec.end
        /\ o.type = "odd" /\ o.start = spec.start /\ o.end = spec.end
    BY <1>1
  <2>2. Halves(spec) = ToSet(States(e)) \cup ToSet(States(o))
    BY DEF Halves
  <2> HIDE DEF e, o
  <2>3. States(e) = Ascending(Evens(spec)) /\ States(o) = Ascending(Odds(spec))
    BY <2>1 DEF States, InRange, Evens, Odds
  <2>4. InRange(spec) = Evens(spec) \cup Odds(spec)
    BY DEF Evens, Odds
  <2> QED
    BY <1>3, <1>4, <1>5, <2>2, <2>3, <2>4
<1> QED
  BY <1>1, <1>3, <1>4, <1>5

LEMMA PowerStates ==
    ASSUME NEW spec \in Described, spec.type = "powers-of-two"
    PROVE  /\ spec.count \in Nat /\ States(spec) \in Seq(Positive) /\ Len(States(spec)) = spec.count
           /\ \A k \in 1 .. spec.count : k > 1 => States(spec)[k] = 2 * States(spec)[k - 1]
<1>1. spec.count \in Nat
  BY DEF Described
<1> DEFINE n == spec.count
           s == [k \in 1 .. n |-> 2^(k - 1)]
<1>2. States(spec) = s
  BY DEF States
<1>3. \A k \in 1 .. n : k - 1 \in Nat /\ 2^(k - 1) \in Positive
  BY <1>1, PowersDouble
<1>4. s \in [1 .. n -> Positive]
  BY <1>3
<1>5. s \in Seq(Positive) /\ Len(s) = n
  <2> HIDE DEF s, n
  <2>1. n \in Nat
    BY <1>1 DEF n
  <2> QED
    BY <1>4, <2>1
<1>6. ASSUME NEW k \in 1 .. n, k > 1
      PROVE  s[k] = 2 * s[k - 1]
  <2>1. k - 1 \in 1 .. n /\ (k - 1) - 1 \in Nat /\ ((k - 1) - 1) + 1 = k - 1
    BY <1>1, <1>6
  <2>2. 2^(k - 1) = 2 * 2^((k - 1) - 1)
    <3> DEFINE j == (k - 1) - 1
    <3>1. j \in Nat /\ k - 1 = j + 1
      BY <2>1
    <3> HIDE DEF j
    <3>2. 2^(j + 1) = 2 * 2^j
      BY <3>1, PowersDouble
    <3> QED
      BY <3>1, <3>2 DEF j
  <2> QED
    BY <2>1, <2>2
<1> HIDE DEF s
<1> QED
  BY <1>1, <1>2, <1>5, <1>6

LEMMA PrimeStates ==
    ASSUME NEW spec \in Described, spec.type = "primes"
    PROVE  /\ spec.count \in Nat /\ States(spec) \in Seq(Positive) /\ Len(States(spec)) = spec.count
           /\ FirstPrimes(States(spec), spec.count)
<1>1. spec.count \in Nat
  BY DEF Described
<1>2. States(spec) = Iterated(LAMBDA p : NextPrime[p], 1, spec.count)
  BY DEF States
<1>3. FirstPrimes(States(spec), spec.count)
  BY <1>1, <1>2, PrimesInOrder
<1>4. States(spec) \in [1 .. spec.count -> Positive]
  BY <1>3 DEF FirstPrimes
<1> QED
  BY <1>1, <1>3, <1>4

(* Remainders tell numbers from 1 to the divisor apart. *)
LEMMA RemaindersDiffer ==
    ASSUME NEW m \in Positive, NEW u \in 1 .. m, NEW v \in 1 .. m, u % m = v % m
    PROVE  u = v
<1>1. m \in Nat /\ m >= 1 /\ u \in Nat /\ v \in Nat
  BY DEF Positive
<1>2. ASSUME NEW x \in 1 .. m
      PROVE  x % m = IF x = m THEN 0 ELSE x
  <2>1. CASE x = m
    <3>1. m = 1 * m
      BY <1>1
    <3>2. m % m = 0
      BY <1>1, <3>1, Divisors
    <3> QED
      BY <2>1, <3>2
  <2>2. CASE x # m
    <3>1. x \in Nat /\ x < m
      BY <1>1, <2>2
    <3> QED
      BY <1>1, <2>2, <3>1
  <2> QED
    BY <2>1, <2>2
<1>3. u % m = (IF u = m THEN 0 ELSE u) /\ v % m = (IF v = m THEN 0 ELSE v)
  BY <1>2
<1> QED
  BY <1>1, <1>3

LEMMA RandomStates ==
    ASSUME NEW spec \in Described, spec.type = "random"
    PROVE  /\ spec.count \in Nat /\ States(spec) \in Seq(Positive) /\ Len(States(spec)) = spec.count
           /\ \A k \in 1 .. spec.count : States(spec)[k] <= AtLeastOne(spec.max)
           /\ spec.max >= 2^StateWidth - 1 =>
                 \A j, k \in 1 .. spec.count :
                     j < k /\ k <= MaxItems => States(spec)[j] # States(spec)[k]
<1> DEFINE n == spec.count
           m == AtLeastOne(spec.max)
           first == Seeded(spec.seed)
           xs == Iterated(Xorshift, first, n)
           s == [k \in DOMAIN xs |-> (Value(xs[k]) % m) + 1]
<1>1. n \in Nat /\ spec.max \in Nat /\ spec.seed \in 0 .. 2^StateWidth - 1
  BY DEF Described
<1>2. m \in Positive /\ spec.max <= m
  BY <1>1, AtLeast
<1>3. States(spec) = s
  BY DEF States
<1>4. first \in Nonzero
  <2> DEFINE seed == IF spec.seed = 0 THEN Golden ELSE spec.seed
  <2>1. seed \in 0 .. 2^StateWidth - 1 /\ seed # 0
    <3>1. Golden \in 1 .. 2^StateWidth - 1 /\ 2^StateWidth \in Nat
      BY SpecAssumption, PowersDouble DEF Positive
    <3> QED
      BY <1>1, <3>1
  <2>2. first = StateOf(seed)
    BY DEF Seeded
  <2> HIDE DEF seed
  <2> QED
    BY <2>1, <2>2, StatesOfNumbers DEF Nonzero
<1> HIDE DEF m, first
<1>5. xs \in [1 .. n -> Nonzero]
  BY <1>1, <1>4, StatesFollow
<1>6. \A j, k \in 1 .. n : j < k /\ k <= MaxItems => xs[j] # xs[k]
  BY <1>1, <1>4, StatesDiffer
<1> HIDE DEF xs
<1>7. StateWidth \in Nat /\ 2^StateWidth \in Nat
  BY SpecAssumption, PowersDouble DEF Positive
<1>8. ASSUME NEW k \in 1 .. n
      PROVE  Value(xs[k]) \in 1 .. 2^StateWidth - 1
  <2>1. xs[k] \in Word(StateWidth) /\ xs[k] # {}
    BY <1>5 DEF Nonzero
  <2>2. Value(xs[k]) \in Nat /\ Value(xs[k]) < 2^StateWidth /\ Value(xs[k]) # 0
    BY <1>7, <2>1, WordsHaveValues
  <2> QED
    BY <1>7, <2>2
<1>9. \A v \in Nat : v % m \in Nat /\ v % m < m
  BY <1>2 DEF Positive
<1>10. ASSUME NEW k \in 1 .. n
       PROVE  s[k] = (Value(xs[k]) % m) + 1 /\ s[k] \in Positive /\ s[k] <= m
  <2>1. Value(xs[k]) \in Nat /\ s[k] = (Value(xs[k]) % m) + 1
    BY <1>5, <1>8
  <2> DEFINE r == Value(xs[k]) % m
  <2>2. r \in Nat /\ r < m /\ m \in Nat
    BY <1>2, <1>9, <2>1 DEF Positive
  <2>3. s[k] = r + 1
    BY <2>1
  <2> HIDE DEF r, s
  <2> QED
    BY <2>1, <2>2, <2>3 DEF Positive, r
<1>11. s \in [1 .. n -> Positive]
  BY <1>5, <1>10
<1>12. s \in Seq(Positive) /\ Len(s) = n
  BY <1>1, <1>11
<1> HIDE DEF s
<1>13. ASSUME spec.max >= 2^StateWidth - 1, NEW j \in 1 .. n, NEW k \in 1 .. n, j < k, k <= MaxItems
       PROVE  s[j] # s[k]
  <2> DEFINE u == Value(xs[j])
             v == Value(xs[k])
  <2>1. u # v
    <3>1. xs[j] # xs[k] /\ xs[j] \in Word(StateWidth) /\ xs[k] \in Word(StateWidth)
      BY <1>5, <1>6, <1>13 DEF Nonzero
    <3> QED
      BY <1>7, <3>1, WordsHaveValues
  <2>2. u \in 1 .. m /\ v \in 1 .. m
    <3>1. u \in 1 .. 2^StateWidth - 1 /\ v \in 1 .. 2^StateWidth - 1
      BY <1>8
    <3>2. 2^StateWidth - 1 <= m /\ m \in Nat
      BY <1>1, <1>2, <1>7, <1>13 DEF Positive
    <3> HIDE DEF u, v
    <3> QED
      BY <1>7, <3>1, <3>2
  <2>3. s[j] = (u % m) + 1 /\ s[k] = (v % m) + 1
    BY <1>10
  <2> HIDE DEF u, v
  <2>4. u % m # v % m /\ u % m \in Nat /\ v % m \in Nat
    BY <1>2, <1>9, <2>1, <2>2, RemaindersDiffer
  <2> QED
    BY <2>3, <2>4
<1> QED
  BY <1>1, <1>3, <1>10, <1>12, <1>13 DEF m

(* The first items of a stream, as many as the limit allows. *)
LEMMA FirstItems ==
    ASSUME NEW spec, States(spec) \in Seq(Positive)
    PROVE  LET s == States(spec)
               m == Min({Len(s), MaxItems})
           IN /\ m \in Nat /\ m <= Len(s) /\ m <= MaxItems
              /\ Items(spec) \in Seq(Positive) /\ Len(Items(spec)) = m
              /\ \A i \in 1 .. m : Items(spec)[i] = s[i]
<1> DEFINE s == States(spec)
           n == Len(s)
           m == Min({n, MaxItems})
<1>1. n \in Nat /\ MaxItems \in Nat /\ \A i \in 1 .. n : s[i] \in Positive
  BY SpecAssumption
<1>2. Items(spec) = SubSeq(s, 1, m)
  BY DEF Items
<1> HIDE DEF s
<1>3. m \in {n, MaxItems} /\ \A k \in {n, MaxItems} : m <= k
  <2>1. {n, MaxItems} \in SUBSET Nat /\ {n, MaxItems} # {}
    BY <1>1
  <2> HIDE DEF n
  <2> QED
    BY <2>1, Least
<1> HIDE DEF m
<1>4. m \in Nat /\ m <= n /\ m <= MaxItems
  BY <1>1, <1>3
<1> DEFINE q == SubSeq(s, 1, m)
<1>5. \A i \in 1 .. m : s[i] \in Positive
  BY <1>1, <1>4
<1>6. /\ q \in Seq(Positive) /\ Len(q) = IF 1 <= m THEN m - 1 + 1 ELSE 0
      /\ \A i \in 1 .. m - 1 + 1 : q[i] = s[1 + i - 1]
  BY <1>4, <1>5, SubSeqProperties
<1> HIDE DEF q
<1>7. Len(q) = m /\ \A i \in 1 .. m : q[i] = s[i]
  <2>1. \A i \in 1 .. m : i \in 1 .. m - 1 + 1 /\ 1 + i - 1 = i
    BY <1>4
  <2> QED
    BY <1>4, <1>6, <2>1
<1> QED
  BY <1>2, <1>4, <1>6, <1>7 DEF m, q, s

(* The rows follow the items. *)
LEMMA RowsFollow ==
    ASSUME NEW spec, Items(spec) \in Seq(Positive), NEW limit \in Nat
    PROVE  /\ DOMAIN Rows(spec, limit) = DOMAIN Items(spec)
           /\ \A k \in DOMAIN Items(spec) : Rows(spec, limit)[k].initial_state = Items(spec)[k]
<1> DEFINE items == Items(spec)
           Made(k) == RunSystem("collatz", items[k], limit)
<1>1. Rows(spec, limit) = [k \in DOMAIN items |-> Summarize(Made(k))]
  BY DEF Rows
<1>2. ASSUME NEW k \in DOMAIN items
      PROVE  Summarize(Made(k)).initial_state = items[k]
  <2>1. items[k] \in Positive /\ "collatz" \in DOMAIN Multiplier
    BY DEF Multiplier
  <2>2. Complete("collatz", items[k], limit, Made(k).states)
    <3> HIDE DEF items
    <3> QED
      BY <2>1, RunCompletes
  <2>3. Made(k).states[1] = items[k]
    BY <2>2 DEF Complete, Trail
  <2> HIDE DEF Made, items
  <2>4. Summarize(Made(k)).initial_state = Made(k).states[1]
    BY DEF Summarize
  <2> QED
    BY <2>3, <2>4
<1> HIDE DEF items, Made
<1>3. DOMAIN Rows(spec, limit) = DOMAIN items
  BY <1>1
<1>4. \A k \in DOMAIN items : Rows(spec, limit)[k].initial_state = items[k]
  BY <1>1, <1>2
<1> QED
  BY <1>3, <1>4 DEF items

(* What StreamsMeetTheirSpec asks of a call. *)
Meets(spec, items, rows) ==
    /\ Len(items) <= MaxItems
    /\ "count" \in DOMAIN spec => Len(items) = Min({spec.count, MaxItems})
    /\ \A k \in DOMAIN items : ValidState(items[k]) /\ rows[k].initial_state = items[k]
    /\ DOMAIN rows = DOMAIN items
    /\ spec.type = "range" => ToSet(States(spec)) = Halves(spec)
    /\ spec.type = "primes" =>
          \A n \in 2 .. (IF items = <<>> THEN 1 ELSE Last(items)) :
              n \in ToSet(items) <=> \A p \in ToSet(items) : p < n => n % p # 0
    /\ spec.type = "powers-of-two" =>
          \A k \in DOMAIN items : k > 1 => items[k] = 2 * items[k - 1]
    /\ spec.type = "random" =>
          /\ \A k \in DOMAIN items : items[k] <= AtLeastOne(spec.max)
          /\ spec.max >= 2^StateWidth - 1 => IsInjective(items)

LEMMA StreamMeets ==
    ASSUME NEW spec \in Described, NEW limit \in Nat
    PROVE  Meets(spec, Items(spec), Rows(spec, limit))
<1> DEFINE s == States(spec)
           items == Items(spec)
           m == Min({Len(s), MaxItems})
<1>1. spec.type \in {"range", "even", "odd", "powers-of-two", "primes", "random", "csv"}
  BY DEF Described
<1>2. s \in Seq(Positive)
  <2>1. CASE spec.type = "csv"
    <3>1. spec.values \in Seq(Positive)
      BY <2>1 DEF Described, Positive
    <3>2. s = spec.values
      BY <2>1 DEF States
    <3> QED
      BY <3>1, <3>2
  <2> QED
    BY <1>1, <2>1, RangesSplit, PowerStates, PrimeStates, RandomStates
<1>3. /\ m \in Nat /\ m <= Len(s) /\ m <= MaxItems
      /\ items \in Seq(Positive) /\ Len(items) = m /\ DOMAIN items = 1 .. m
      /\ \A i \in 1 .. m : items[i] = s[i]
  <2>1. /\ m \in Nat /\ m <= Len(s) /\ m <= MaxItems
        /\ items \in Seq(Positive) /\ Len(items) = m
        /\ \A i \in 1 .. m : items[i] = s[i]
    BY <1>2, FirstItems
  <2>2. DOMAIN items = 1 .. Len(items)
    BY <2>1
  <2> QED
    BY <2>1, <2>2
<1>4. /\ DOMAIN Rows(spec, limit) = DOMAIN items
      /\ \A k \in DOMAIN items : Rows(spec, limit)[k].initial_state = items[k]
  BY <1>3, RowsFollow
<1>5. Len(s) \in Nat /\ MaxItems \in Nat
  BY <1>2, SpecAssumption
<1>6. "count" \in DOMAIN spec => Len(items) = Min({spec.count, MaxItems})
  <2> SUFFICES ASSUME "count" \in DOMAIN spec PROVE Len(items) = Min({spec.count, MaxItems})
    OBVIOUS
  <2>1. spec.type \in {"powers-of-two", "primes", "random"}
    BY DEF Described
  <2>2. Len(s) = spec.count
    BY <2>1, PowerStates, PrimeStates, RandomStates
  <2> QED
    BY <1>3, <2>2
<1>7. spec.type = "range" => ToSet(s) = Halves(spec)
  BY RangesSplit
<1> HIDE DEF s, items, m
<1>8. \A k \in 1 .. m : k \in 1 .. Len(s) /\ items[k] = s[k] /\ items[k] \in Positive
  BY <1>3, <1>5
<1>9. \A k \in DOMAIN items : ValidState(items[k])
  BY <1>3, <1>8 DEF ValidState, NA, Positive
<1>10. ASSUME spec.type = "primes",
              NEW n \in 2 .. (IF items = <<>> THEN 1 ELSE Last(items))
       PROVE  n \in ToSet(items) <=> \A p \in ToSet(items) : p < n => n % p # 0
  <2>1. spec.count \in Nat /\ FirstPrimes(s, spec.count) /\ Len(s) = spec.count
    BY <1>10, PrimeStates DEF s
  <2>2. items # <<>>
    BY <1>10
  <2>3. m >= 1
    BY <1>3, <2>2
  <2>4. Last(items) = s[m] /\ n \in 2 .. s[m]
    <3>1. Last(items) = items[m] /\ m \in 1 .. m
      BY <1>3, <2>3 DEF Last
    <3> QED
      BY <1>3, <1>10, <2>2, <3>1
  <2>5. (\E i \in 1 .. m : s[i] = n) <=> \A i \in 1 .. m : s[i] < n => n % s[i] # 0
    BY <1>3, <2>1, <2>3, <2>4, PrimesSieve
  <2>6. \A p : p \in ToSet(items) <=> \E i \in 1 .. m : s[i] = p
    BY <1>3, <1>8 DEF ToSet
  <2> QED
    BY <2>5, <2>6
<1>11. ASSUME spec.type = "powers-of-two", NEW k \in DOMAIN items, k > 1
       PROVE  items[k] = 2 * items[k - 1]
  <2>1. Len(s) = spec.count /\ \A j \in 1 .. spec.count : j > 1 => s[j] = 2 * s[j - 1]
    BY <1>11, PowerStates DEF s
  <2>2. k \in 1 .. m /\ k - 1 \in 1 .. m
    BY <1>3, <1>11
  <2>3. k \in 1 .. spec.count /\ items[k] = s[k] /\ items[k - 1] = s[k - 1]
    BY <1>8, <2>1, <2>2
  <2> QED
    BY <1>11, <2>1, <2>3
<1>12. ASSUME spec.type = "random"
       PROVE  /\ \A k \in DOMAIN items : items[k] <= AtLeastOne(spec.max)
              /\ spec.max >= 2^StateWidth - 1 => IsInjective(items)
  <2>1. /\ Len(s) = spec.count
        /\ \A k \in 1 .. spec.count : s[k] <= AtLeastOne(spec.max)
        /\ spec.max >= 2^StateWidth - 1 =>
              \A j, k \in 1 .. spec.count : j < k /\ k <= MaxItems => s[j] # s[k]
    BY <1>12, RandomStates DEF s
  <2>2. \A k \in DOMAIN items : items[k] <= AtLeastOne(spec.max)
    BY <1>3, <1>8, <2>1
  <2>3. ASSUME spec.max >= 2^StateWidth - 1, NEW j \in DOMAIN items, NEW k \in DOMAIN items,
               items[j] = items[k]
        PROVE  j = k
    <3>1. /\ j \in 1 .. m /\ k \in 1 .. m /\ j \in 1 .. spec.count /\ k \in 1 .. spec.count
          /\ items[j] = s[j] /\ items[k] = s[k] /\ j <= MaxItems /\ k <= MaxItems
      BY <1>3, <1>5, <1>8, <2>1, <2>3
    <3>2. ~ (j < k) /\ ~ (k < j)
      BY <2>1, <2>3, <3>1
    <3> QED
      BY <3>1, <3>2
  <2> QED
    BY <2>2, <2>3 DEF IsInjective
<1>13. Len(items) <= MaxItems
  BY <1>3
<1> QED
  BY <1>4, <1>6, <1>7, <1>9, <1>10, <1>11, <1>12, <1>13 DEF Meets, s, items

(* Whatever is asked of the seven generators, a stream stays within the    *)
(* limit and yields what its type says: trial division finds the primes    *)
(* and counting up misses none, the even and the odd numbers make up their *)
(* range, and no random state is zero or comes twice (lib.rs:59).          *)
THEOREM StreamsMeet == StreamsSpec => []StreamsMeetTheirSpec
<1>1. StreamsInit => StreamsMeetTheirSpec
  BY DEF StreamsInit, StreamsMeetTheirSpec, None
<1>2. ASSUME StreamsMeetTheirSpec, [StreamsNext]_call
      PROVE  StreamsMeetTheirSpec'
  <2>1. CASE StreamsNext
    <3>1. PICK spec \in Specs, limit \in Limits :
             call' = [op |-> "items", spec |-> spec, items |-> Items(spec),
                      rows |-> Rows(spec, limit)]
      BY <2>1 DEF StreamsNext, Generates
    <3>2. call'.spec = spec /\ call'.items = Items(spec) /\ call'.rows = Rows(spec, limit)
      BY <3>1
    <3>3. Meets(spec, Items(spec), Rows(spec, limit))
      BY SpecAssumption, RunAssumption, StreamMeets
    <3>4. Meets(call.spec, call.items, call.rows)'
      BY <3>2, <3>3 DEF Meets
    <3> QED
      BY <3>4 DEF StreamsMeetTheirSpec, Meets
  <2>2. CASE UNCHANGED call
    BY <1>2, <2>2 DEF StreamsMeetTheirSpec
  <2> QED
    BY <1>2, <2>1, <2>2
<1> QED
  BY <1>1, <1>2, PTL DEF StreamsSpec

-----------------------------------------------------------------------------
(* Finitely many numbers have a least and a greatest. *)
LEMMA Extremes ==
    ASSUME NEW n \in Nat, n >= 1, NEW f \in [1 .. n -> Int], NEW P, P = {f[i] : i \in 1 .. n}
    PROVE  /\ P \subseteq Int /\ Min(P) \in P /\ Max(P) \in P
           /\ \A x \in P : Min(P) <= x /\ x <= Max(P)
<1> DEFINE Spanned(k) == \E a, b \in 1 .. k : \A i \in 1 .. k : f[a] <= f[i] /\ f[i] <= f[b]
           T == {k \in Nat : k >= 1 /\ k <= n => Spanned(k)}
<1>1. 0 \in T
  OBVIOUS
<1>2. ASSUME NEW k \in Nat, k \in T
      PROVE  k + 1 \in T
  <2>1. SUFFICES ASSUME k + 1 <= n PROVE Spanned(k + 1)
    OBVIOUS
  <2>2. /\ k + 1 \in 1 .. n /\ k + 1 \in 1 .. k + 1
        /\ \A i \in 1 .. k + 1 : i = k + 1 \/ i \in 1 .. k
        /\ \A i \in 1 .. k : i \in 1 .. k + 1 /\ i \in 1 .. n
    BY <2>1
  <2>3. CASE k = 0
    <3>1. \A i \in 1 .. 1 : f[1] <= f[i] /\ f[i] <= f[1]
      BY <2>2, <2>3
    <3> QED
      BY <2>3, <3>1
  <2>4. CASE k # 0
    <3>1. Spanned(k)
      BY <1>2, <2>1, <2>4
    <3>2. PICK a \in 1 .. k, b \in 1 .. k : \A i \in 1 .. k : f[a] <= f[i] /\ f[i] <= f[b]
      BY <3>1
    <3> DEFINE c == IF f[k + 1] < f[a] THEN k + 1 ELSE a
               d == IF f[k + 1] > f[b] THEN k + 1 ELSE b
    <3>3. c \in 1 .. k + 1 /\ d \in 1 .. k + 1
      BY <2>2
    <3>4. ASSUME NEW i \in 1 .. k + 1 PROVE f[c] <= f[i] /\ f[i] <= f[d]
      <4>1. f[a] \in Int /\ f[b] \in Int /\ f[k + 1] \in Int /\ f[i] \in Int
        BY <2>2
      <4>2. i \in 1 .. k => f[a] <= f[i] /\ f[i] <= f[b]
        BY <3>2
      <4>3. f[a] <= f[b]
        BY <3>2
      <4> QED
        BY <2>2, <4>1, <4>2, <4>3
    <3> HIDE DEF c, d
    <3> QED
      BY <3>3, <3>4
  <2> QED
    BY <2>3, <2>4
<1>3. Nat \subseteq T
  <2> HIDE DEF T
  <2> QED
    BY <1>1, <1>2, Induction
<1>4. Spanned(n)
  <2> HIDE DEF Spanned
  <2> QED
    BY <1>3
<1>5. PICK a \in 1 .. n, b \in 1 .. n : \A i \in 1 .. n : f[a] <= f[i] /\ f[i] <= f[b]
  BY <1>4
<1>6. f[a] \in P /\ f[b] \in P /\ \A x \in P : x \in Int /\ f[a] <= x /\ x <= f[b]
  BY <1>5
<1>7. Min(P) \in P /\ \A x \in P : Min(P) <= x
  BY <1>6 DEF Min
<1>8. Max(P) \in P /\ \A x \in P : Max(P) >= x
  BY <1>6 DEF Max
<1>9. \A x \in P : x <= Max(P)
  BY <1>6, <1>8
<1> QED
  BY <1>6, <1>7, <1>8, <1>9

Shown == Nat \cup {NA}

(* The finite values of a series, and what bounds them. *)
LEMMA FiniteValues ==
    ASSUME NEW values \in Seq(Shown)
    PROVE  /\ Finite(values) \in SUBSET Nat
           /\ IsFiniteSet(Finite(values))
           /\ \E bound \in Nat : \A v \in Finite(values) : v <= bound
           /\ \A i \in 1 .. Len(values) : values[i] # NA => values[i] \in Finite(values)
<1> DEFINE n == Len(values)
           P == {values[i] : i \in 1 .. n}
<1>1. n \in Nat /\ DOMAIN values = 1 .. n /\ \A i \in 1 .. n : values[i] \in Shown
  BY LenProperties, ElementOfSeq
<1>2. Finite(values) = {v \in P : v # NA}
  BY <1>1 DEF Finite, ToSet
<1>3. Finite(values) \in SUBSET Nat
  BY <1>1, <1>2 DEF Shown
<1>4. \E bound \in Nat : \A v \in Finite(values) : v <= bound
  <2>1. CASE n = 0
    <3>1. Finite(values) = {}
      BY <1>2, <2>1
    <3> QED
      BY <3>1
  <2>2. CASE n # 0
    <3>1. values \in [1 .. n -> Int]
      <4>1. values \in [1 .. n -> Shown]
        BY LenProperties
      <4>2. Shown \subseteq Int
        BY DEF Shown, NA
      <4> QED
        BY <4>1, <4>2
    <3>2. Max(P) \in Int /\ \A x \in P : x <= Max(P)
      <4> HIDE DEF n
      <4>1. n >= 1
        BY <1>1, <2>2
      <4>2. P \subseteq Int /\ Max(P) \in P /\ \A x \in P : x <= Max(P)
        BY <1>1, <3>1, <4>1, Extremes
      <4> QED
        BY <4>2
    <3> DEFINE top == Max(P)
               bound == IF top < 0 THEN 0 ELSE top
    <3> HIDE DEF P, top
    <3>3. bound \in Nat /\ \A v \in Finite(values) : v <= bound
      BY <1>2, <1>3, <3>2 DEF top
    <3> QED
      BY <3>3
  <2> QED
    BY <2>1, <2>2
<1>5. IsFiniteSet(Finite(values))
  BY <1>3, <1>4, FS_BoundedSetOfNaturals
<1>6. \A i \in 1 .. Len(values) : values[i] # NA => values[i] \in Finite(values)
  BY <1>2
<1> QED
  BY <1>3, <1>4, <1>5, <1>6

-----------------------------------------------------------------------------
(* A share of a length. *)
LEMMA Times ==
    ASSUME NEW a \in Nat, NEW b \in Nat, NEW c \in Nat, a <= b
    PROVE  a * c <= b * c
<1> DEFINE e == b - a
<1>1. e \in Nat /\ b = a + e
  OBVIOUS
<1> HIDE DEF e
<1>2. e * c \in Nat /\ (a + e) * c = a * c + e * c /\ a * c \in Nat
  BY <1>1
<1> QED
  BY <1>1, <1>2

(* Larger shares are not smaller, and none exceeds the length. *)
LEMMA Shares ==
    ASSUME NEW a \in Nat, NEW b \in Nat, NEW d \in Positive, NEW length \in Nat,
           a <= b, b <= d
    PROVE  /\ (a * length) \div d \in Nat /\ (b * length) \div d \in Nat
           /\ (a * length) \div d <= (b * length) \div d
           /\ (b * length) \div d <= length
<1> DEFINE p == (a * length) \div d
           q == (b * length) \div d
<1>1. a * length \in Nat /\ b * length \in Nat /\ d * length \in Nat /\ d \in Nat /\ d >= 1
  BY DEF Positive
<1>2. a * length <= b * length /\ b * length <= d * length
  BY <1>1, Times
<1>3. /\ p \in Nat /\ p * d <= a * length /\ a * length < p * d + d
      /\ q \in Nat /\ q * d <= b * length /\ b * length < q * d + d
  BY <1>1, Quotient
<1> HIDE DEF p, q
<1>4. ~ (q < p)
  <2>1. SUFFICES ASSUME q < p PROVE FALSE
    OBVIOUS
  <2>2. (q + 1) * d <= p * d
    BY <1>1, <1>3, <2>1
  <2>3. (q + 1) * d = q * d + d /\ q * d \in Nat /\ p * d \in Nat
    BY <1>1, <1>3
  <2> QED
    BY <1>1, <1>2, <1>3, <2>2, <2>3
<1>5. ~ (length < q)
  <2>1. SUFFICES ASSUME length < q PROVE FALSE
    OBVIOUS
  <2>2. (length + 1) * d <= q * d
    BY <1>1, <1>3, <2>1
  <2>3. (length + 1) * d = d * length + d /\ q * d \in Nat
    BY <1>1, <1>3
  <2> QED
    BY <1>1, <1>2, <1>3, <2>2, <2>3
<1>6. p <= q /\ q <= length
  BY <1>3, <1>4, <1>5
<1> QED
  BY <1>3, <1>6 DEF p, q

-----------------------------------------------------------------------------
(* The charts. *)
IsFrame(frame) ==
    /\ frame.left \in Int /\ frame.right \in Int /\ frame.left <= frame.right
    /\ frame.top \in Int /\ frame.bottom \in Int /\ frame.top <= frame.bottom

Covers(bounds, values) ==
    /\ bounds.min = 0 /\ bounds.max \in Nat
    /\ \A i \in 1 .. Len(values) : values[i] # NA => values[i] <= bounds.max

Pixel == Int \X Int

(* Points lie across the frame, those further on further right, *)
LEMMA AcrossInside ==
    ASSUME NEW frame, IsFrame(frame), NEW n \in Nat, NEW i \in 1 .. n, NEW j \in 1 .. n, i <= j
    PROVE  /\ Across(i, n, frame) \in frame.left .. frame.right
           /\ Across(j, n, frame) \in frame.left .. frame.right
           /\ Across(i, n, frame) <= Across(j, n, frame)
<1>1. CASE n <= 1
  BY <1>1 DEF Across, IsFrame
<1>2. CASE ~ (n <= 1)
  <2> DEFINE length == frame.right - frame.left
             p == ((i - 1) * length) \div (n - 1)
             q == ((j - 1) * length) \div (n - 1)
  <2>1. /\ length \in Nat /\ i - 1 \in Nat /\ j - 1 \in Nat /\ n - 1 \in Positive
        /\ i - 1 <= j - 1 /\ j - 1 <= n - 1
    BY <1>2 DEF IsFrame, Positive
  <2> HIDE DEF length
  <2>2. p \in Nat /\ q \in Nat /\ p <= q /\ q <= length
    BY <2>1, Shares
  <2>3. Across(i, n, frame) = frame.left + p /\ Across(j, n, frame) = frame.left + q
    BY <1>2 DEF Across, length
  <2> HIDE DEF p, q
  <2> QED
    BY <2>2, <2>3 DEF length, IsFrame
<1> QED
  BY <1>1, <1>2

(* and between its edges, the larger values not lower. *)
LEMMA HeightInside ==
    ASSUME NEW frame, IsFrame(frame), NEW bounds, bounds.min = 0, bounds.max \in Nat,
           NEW v \in Nat, NEW w \in Nat, v <= w, w <= bounds.max
    PROVE  /\ Height(v, bounds, frame) \in frame.top .. frame.bottom
           /\ Height(w, bounds, frame) \in frame.top .. frame.bottom
           /\ Height(v, bounds, frame) >= Height(w, bounds, frame)
<1> DEFINE span == IF bounds.max = bounds.min THEN 1 ELSE bounds.max - bounds.min
           length == frame.bottom - frame.top
           p == (v * length) \div span
           q == (w * length) \div span
<1>1. span \in Positive /\ w <= span /\ length \in Nat
  BY DEF IsFrame, Positive
<1>2. v - bounds.min = v /\ w - bounds.min = w
  OBVIOUS
<1>3. Height(v, bounds, frame) = frame.bottom - p /\ Height(w, bounds, frame) = frame.bottom - q
  BY <1>2 DEF Height
<1> HIDE DEF span, length
<1>4. p \in Nat /\ q \in Nat /\ p <= q /\ q <= length
  BY <1>1, Shares
<1> HIDE DEF p, q
<1> QED
  BY <1>3, <1>4 DEF length, IsFrame

(* Each finite value is drawn by one more point. *)
LEMMA DrawnGrows ==
    ASSUME NEW values, NEW k \in Nat
    PROVE  /\ Drawn(values, 0) = 0 /\ Drawn(values, k) \in Nat
           /\ Drawn(values, k + 1) = Drawn(values, k) + IF values[k + 1] = NA THEN 0 ELSE 1
<1> DEFINE D(i) == {j \in 1 .. i : values[j] # NA}
<1>1. \A i \in Nat : IsFiniteSet(D(i)) /\ Cardinality(D(i)) \in Nat
  <2>1. SUFFICES ASSUME NEW i \in Nat PROVE IsFiniteSet(D(i)) /\ Cardinality(D(i)) \in Nat
    OBVIOUS
  <2>2. IsFiniteSet(1 .. i) /\ D(i) \in SUBSET (1 .. i)
    BY FS_Interval
  <2> QED
    BY <2>2, FS_Subset, FS_CardinalityType
<1>2. Cardinality(D(0)) = 0
  <2>1. D(0) = {}
    OBVIOUS
  <2> QED
    BY <2>1, FS_EmptySet
<1>5. Drawn(values, 0) = Cardinality(D(0)) /\ Drawn(values, k) = Cardinality(D(k))
      /\ Drawn(values, k + 1) = Cardinality(D(k + 1))
  BY DEF Drawn
<1>3. CASE values[k + 1] = NA
  <2>1. D(k + 1) = D(k)
    BY <1>3
  <2> HIDE DEF D
  <2> QED
    BY <1>1, <1>2, <1>3, <1>5, <2>1
<1>4. CASE values[k + 1] # NA
  <2>1. D(k + 1) = D(k) \cup {k + 1} /\ k + 1 \notin D(k)
    BY <1>4
  <2> HIDE DEF D
  <2>2. Cardinality(D(k + 1)) = Cardinality(D(k)) + 1
    BY <1>1, <2>1, FS_AddElement
  <2> QED
    BY <1>1, <1>2, <1>4, <1>5, <2>2
<1> QED
  BY <1>3, <1>4

(* Where the values are drawn. *)
Traces(points, values, bounds, frame) ==
    LET n == Len(values)
        At(i) == <<Across(i, n, frame), Height(values[i], bounds, frame)>>
    IN /\ points \in Seq(Pixel) /\ Len(points) = Drawn(values, n)
       /\ \A i \in 1 .. n : values[i] # NA =>
             /\ Drawn(values, i) \in 1 .. Len(points)
             /\ points[Drawn(values, i)] = At(i)
       /\ \A q \in 1 .. Len(points) : \E i \in 1 .. n : values[i] # NA /\ points[q] = At(i)

(* A chart places each finite value in turn, and nothing else. *)
LEMMA Plotted ==
    ASSUME NEW values \in Seq(Shown), NEW bounds, Covers(bounds, values),
           NEW frame, IsFrame(frame)
    PROVE  Traces(Plot(values, bounds, frame), values, bounds, frame)
<1> DEFINE n == Len(values)
           At(i) == <<Across(i, n, frame), Height(values[i], bounds, frame)>>
           S == Seq(Pixel)
           Placed(s, i) == IF values[i] = NA THEN s ELSE Append(s, At(i))
           Solves(f) == f = [i \in 0 .. n |-> IF i = 0 THEN <<>>
                               ELSE IF values[i] = NA THEN f[i - 1] ELSE Append(f[i - 1], At(i))]
           points == CHOOSE f : Solves(f)
           step == [k \in Nat |-> [s \in S |-> IF k \in 1 .. n THEN Placed(s, k) ELSE s]]
<1>1. n \in Nat /\ \A i \in 1 .. n : values[i] \in Shown
  BY LenProperties, ElementOfSeq
<1>2. Plot(values, bounds, frame) = points[n]
  BY DEF Plot
<1> HIDE DEF n
<1>3. \A i \in 1 .. n : values[i] # NA => At(i) \in Pixel
  <2>1. SUFFICES ASSUME NEW i \in 1 .. n, values[i] # NA PROVE At(i) \in Pixel
    OBVIOUS
  <2>2. values[i] \in Nat /\ values[i] <= bounds.max
    BY <1>1, <2>1 DEF Shown, Covers, n
  <2>3. Across(i, n, frame) \in Int
    BY <1>1, AcrossInside DEF IsFrame
  <2>4. Height(values[i], bounds, frame) \in Int
    BY <2>2, HeightInside DEF IsFrame, Covers
  <2> QED
    BY <2>3, <2>4 DEF Pixel
<1> HIDE DEF At
<1>4. step \in [Nat -> [S -> S]]
  <2>1. ASSUME NEW k \in 1 .. n, NEW s \in S PROVE Placed(s, k) \in S
    BY <1>3, AppendProperties
  <2> HIDE DEF Placed
  <2> QED
    BY <2>1
<1>5. PICK f \in [0 .. n -> S] : Chain(f, <<>>, step, n)
  <2>1. <<>> \in S
    OBVIOUS
  <2> HIDE DEF step, S
  <2> QED
    BY <1>1, <1>4, <2>1, ChainExists
<1>6. f[0] = <<>> /\ \A k \in 1 .. n : f[k] = Placed(f[k - 1], k)
  <2>1. \A k \in 1 .. n : k - 1 \in 0 .. n /\ k \in Nat /\ f[k - 1] \in S
    BY <1>1
  <2> QED
    BY <1>5, <2>1 DEF Chain
<1>7. \A k \in 0 .. n : k = 0 \/ k \in 1 .. n
  BY <1>1
<1>8. Solves(f)
  BY <1>6, <1>7
<1>9. Solves(points)
  <2> HIDE DEF Solves
  <2> QED
    BY <1>8
<1> HIDE DEF points
<1>10. points[0] = <<>> /\ \A k \in 1 .. n : points[k] = Placed(points[k - 1], k)
  <2>1. 0 \in 0 .. n /\ \A k \in 1 .. n : k \in 0 .. n /\ k # 0
    BY <1>1
  <2> QED
    BY <1>9, <2>1
<1> HIDE DEF Solves
<1> DEFINE Good(k, p) ==
              /\ p \in Seq(Pixel) /\ Len(p) = Drawn(values, k)
              /\ \A i \in 1 .. k : values[i] # NA =>
                    /\ Drawn(values, i) \in 1 .. Len(p)
                    /\ p[Drawn(values, i)] = At(i)
              /\ \A q \in 1 .. Len(p) : \E i \in 1 .. k : values[i] # NA /\ p[q] = At(i)
           T == {k \in Nat : k <= n => Good(k, points[k])}
<1>11. 0 \in T
  <2>1. <<>> \in Seq(Pixel) /\ Len(<<>>) = 0 /\ Drawn(values, 0) = 0
    BY DrawnGrows
  <2>2. Good(0, <<>>)
    BY <2>1
  <2> HIDE DEF Good
  <2> QED
    BY <1>10, <2>2
<1>12. ASSUME NEW k \in Nat, k \in T
       PROVE  k + 1 \in T
  <2>1. SUFFICES ASSUME k + 1 <= n PROVE Good(k + 1, points[k + 1])
    OBVIOUS
  <2> DEFINE p == points[k]
  <2>2. k <= n /\ k + 1 \in 1 .. n /\ (k + 1) - 1 = k
    BY <1>1, <2>1
  <2>3. Good(k, p) /\ points[k + 1] = Placed(p, k + 1)
    BY <1>10, <1>12, <2>2
  <2> HIDE DEF p
  <2>4. /\ Drawn(values, k) \in Nat
        /\ Drawn(values, k + 1) = Drawn(values, k) + IF values[k + 1] = NA THEN 0 ELSE 1
    BY DrawnGrows
  <2>5. /\ \A i \in 1 .. k + 1 : i = k + 1 \/ i \in 1 .. k
        /\ \A i \in 1 .. k : i \in 1 .. k + 1
    OBVIOUS
  <2>6. CASE values[k + 1] = NA
    <3>1. points[k + 1] = p
      BY <2>3, <2>6
    <3>2. Good(k + 1, p)
      BY <2>3, <2>4, <2>5, <2>6
    <3> QED
      BY <3>1, <3>2
  <2>7. CASE values[k + 1] # NA
    <3> DEFINE more == Append(p, At(k + 1))
    <3>1. points[k + 1] = more
      BY <2>3, <2>7
    <3>2. /\ p \in Seq(Pixel) /\ Len(p) = Drawn(values, k) /\ Len(p) \in Nat
          /\ At(k + 1) \in Pixel /\ Drawn(values, k + 1) = Len(p) + 1
      BY <1>3, <2>2, <2>3, <2>4, <2>7
    <3>3. /\ more \in Seq(Pixel) /\ Len(more) = Len(p) + 1
          /\ \A q \in 1 .. Len(p) : more[q] = p[q]
          /\ more[Len(p) + 1] = At(k + 1)
      BY <3>2, AppendProperties
    <3> HIDE DEF more
    <3>4. ASSUME NEW i \in 1 .. k + 1, values[i] # NA
          PROVE  Drawn(values, i) \in 1 .. Len(more) /\ more[Drawn(values, i)] = At(i)
      <4>1. CASE i = k + 1
        BY <3>2, <3>3, <4>1
      <4>2. CASE i # k + 1
        <5>1. Drawn(values, i) \in 1 .. Len(p) /\ p[Drawn(values, i)] = At(i)
          BY <2>3, <2>5, <3>4, <4>2
        <5> QED
          BY <3>2, <3>3, <5>1
      <4> QED
        BY <4>1, <4>2
    <3>5. ASSUME NEW q \in 1 .. Len(more)
          PROVE  \E i \in 1 .. k + 1 : values[i] # NA /\ more[q] = At(i)
      <4>1. CASE q = Len(p) + 1
        <5>1. k + 1 \in 1 .. k + 1 /\ values[k + 1] # NA /\ more[q] = At(k + 1)
          BY <2>7, <3>3, <4>1
        <5> QED
          BY <5>1
      <4>2. CASE q # Len(p) + 1
        <5>1. q \in 1 .. Len(p)
          BY <3>2, <3>3, <4>2
        <5>2. PICK i \in 1 .. k : values[i] # NA /\ p[q] = At(i)
          BY <2>3, <5>1
        <5> QED
          BY <2>5, <3>3, <5>1, <5>2
      <4> QED
        BY <4>1, <4>2
    <3>6. Good(k + 1, more)
      BY <3>2, <3>3, <3>4, <3>5
    <3> HIDE DEF Good
    <3> QED
      BY <3>1, <3>6
  <2> HIDE DEF Good
  <2> QED
    BY <2>6, <2>7
<1>13. Nat \subseteq T
  <2> HIDE DEF T
  <2> QED
    BY <1>11, <1>12, Induction
<1>14. Good(n, points[n])
  <2> HIDE DEF Good
  <2> QED
    BY <1>1, <1>13
<1> QED
  BY <1>2, <1>14 DEF n, At, Traces

(* A chart of values that rise and fall with others stays in its frame and *)
(* in the order of both.                                                   *)
LEMMA PlotKeeps ==
    ASSUME NEW values \in Seq(Shown), NEW scaled \in Seq(Shown), Len(values) = Len(scaled),
           \A i \in 1 .. Len(values) : values[i] = NA <=> scaled[i] = NA,
           \A i, j \in 1 .. Len(values) :
              values[i] # NA /\ values[j] # NA /\ values[i] <= values[j] => scaled[i] <= scaled[j],
           NEW bounds, Covers(bounds, scaled), NEW frame, IsFrame(frame)
    PROVE  /\ Inside(Plot(scaled, bounds, frame), frame)
           /\ Keeps(values, Plot(scaled, bounds, frame))
<1> DEFINE n == Len(scaled)
           points == Plot(scaled, bounds, frame)
           At(i) == <<Across(i, n, frame), Height(scaled[i], bounds, frame)>>
<1>1. /\ points \in Seq(Pixel) /\ Len(points) = Drawn(scaled, n)
      /\ \A i \in 1 .. n : scaled[i] # NA => points[Drawn(scaled, i)] = At(i)
      /\ \A q \in 1 .. Len(points) : \E i \in 1 .. n : scaled[i] # NA /\ points[q] = At(i)
  <2>1. Traces(points, scaled, bounds, frame)
    BY Plotted
  <2> HIDE DEF points
  <2> QED
    BY <2>1 DEF Traces
<1>2. /\ n \in Nat /\ DOMAIN values = 1 .. n /\ DOMAIN points = 1 .. Len(points)
      /\ \A i \in 1 .. n : scaled[i] \in Shown
  BY <1>1, LenProperties, ElementOfSeq
<1>10. \A i \in 1 .. n : values[i] = NA <=> scaled[i] = NA
  OBVIOUS
<1> HIDE DEF points, n
<1>3. \A i \in 1 .. n : scaled[i] # NA => scaled[i] \in Nat /\ scaled[i] <= bounds.max
  BY <1>2 DEF Shown, Covers, n
<1>4. Inside(points, frame)
  <2>1. ASSUME NEW q \in DOMAIN points
        PROVE  points[q][1] \in frame.left .. frame.right /\ points[q][2] \in frame.top .. frame.bottom
    <3>1. PICK i \in 1 .. n : scaled[i] # NA /\ points[q] = At(i)
      BY <1>1, <1>2
    <3>2. Across(i, n, frame) \in frame.left .. frame.right
      BY <1>2, AcrossInside
    <3>3. Height(scaled[i], bounds, frame) \in frame.top .. frame.bottom
      BY <1>3, <3>1, HeightInside DEF Covers
    <3> QED
      BY <3>1, <3>2, <3>3
  <2> QED
    BY <2>1 DEF Inside
<1>5. \A i \in 1 .. n : Drawn(values, i) = Drawn(scaled, i)
  <2>1. SUFFICES ASSUME NEW i \in 1 .. n PROVE Drawn(values, i) = Drawn(scaled, i)
    OBVIOUS
  <2>2. \A j \in 1 .. i : j \in 1 .. n
    BY <1>2
  <2>3. {j \in 1 .. i : values[j] # NA} = {j \in 1 .. i : scaled[j] # NA}
    BY <1>10, <2>2
  <2> QED
    BY <2>3 DEF Drawn
<1>6. Len(points) = Cardinality({i \in DOMAIN values : values[i] # NA})
  <2>1. {j \in 1 .. n : values[j] # NA} = {j \in 1 .. n : scaled[j] # NA}
    BY <1>10
  <2> QED
    BY <1>1, <1>2, <2>1 DEF Drawn
<1>7. ASSUME NEW i \in 1 .. n, NEW j \in 1 .. n, values[i] # NA, values[j] # NA
      PROVE  /\ i < j => points[Drawn(values, i)][1] <= points[Drawn(values, j)][1]
             /\ values[i] <= values[j] => points[Drawn(values, i)][2] >= points[Drawn(values, j)][2]
  <2>1. scaled[i] # NA /\ scaled[j] # NA
    BY <1>7, <1>10
  <2>2. points[Drawn(values, i)] = At(i) /\ points[Drawn(values, j)] = At(j)
    BY <1>1, <1>5, <2>1
  <2>3. i < j => Across(i, n, frame) <= Across(j, n, frame)
    BY <1>2, AcrossInside
  <2>4. values[i] <= values[j] => scaled[i] <= scaled[j]
    BY <1>7 DEF n
  <2>5. scaled[i] <= scaled[j] => Height(scaled[i], bounds, frame) >= Height(scaled[j], bounds, frame)
    BY <1>3, <2>1, HeightInside DEF Covers
  <2> QED
    BY <2>2, <2>3, <2>4, <2>5
<1>8. Keeps(values, points)
  BY <1>2, <1>6, <1>7 DEF Keeps
<1> QED
  BY <1>4, <1>8 DEF points

(* The value itself, and its length, rise and fall with it. *)
Alike(values, scaled) ==
    /\ scaled \in Seq(Shown) /\ Len(values) = Len(scaled)
    /\ \A i \in 1 .. Len(values) : values[i] = NA <=> scaled[i] = NA
    /\ \A i, j \in 1 .. Len(values) :
          values[i] # NA /\ values[j] # NA /\ values[i] <= values[j] => scaled[i] <= scaled[j]

(* A logarithmic scale keeps the order of the values. *)
LEMMA ScaledAlike ==
    ASSUME NEW values \in Seq(Shown), NEW scale
    PROVE  Alike(values, ApplyScale(values, scale))
<1> DEFINE n == Len(values)
           scaled == ApplyScale(values, scale)
           Of(v) == IF scale = "linear" \/ v = NA THEN v ELSE Bits[v + 1] - 1
<1>1. n \in Nat /\ DOMAIN values = 1 .. n /\ \A i \in 1 .. n : values[i] \in Shown
  BY LenProperties, ElementOfSeq
<1>2. scaled = [i \in 1 .. n |-> Of(values[i])]
  BY <1>1 DEF ApplyScale
<1>3. \A v \in Shown : v # NA => v \in Nat /\ v + 1 \in Nat /\ v # -1
  BY DEF Shown, NA
<1>4. \A v \in Shown : Of(v) \in Shown /\ (v = NA <=> Of(v) = NA)
  <2>1. SUFFICES ASSUME NEW v \in Shown PROVE Of(v) \in Shown /\ (v = NA <=> Of(v) = NA)
    OBVIOUS
  <2>2. ASSUME v # NA PROVE Bits[v + 1] - 1 \in Nat
    <3>1. v + 1 \in Nat \ {0} /\ (v + 1) \div 2 \in Nat
      BY <1>3, <2>2
    <3>2. Bits[v + 1] = 1 + Bits[(v + 1) \div 2] /\ Bits[(v + 1) \div 2] \in Nat
      BY <3>1, BitLength
    <3> QED
      BY <3>2
  <2>3. \A b \in Nat : b # NA
    BY DEF NA
  <2> QED
    BY <2>2, <2>3 DEF Shown
<1>5. ASSUME NEW v \in Shown, NEW w \in Shown, v # NA, w # NA, v <= w
      PROVE  Of(v) <= Of(w)
  <2>1. v + 1 \in Nat /\ w + 1 \in Nat /\ v + 1 <= w + 1
    BY <1>3, <1>5
  <2>2. Bits[v + 1] <= Bits[w + 1] /\ Bits[v + 1] \in Nat /\ Bits[w + 1] \in Nat
    BY <2>1, LongerIsLarger, BitLength
  <2>3. Bits[v + 1] - 1 <= Bits[w + 1] - 1
    BY <2>2
  <2> QED
    BY <1>5, <2>3
<1> HIDE DEF Of, scaled, n
<1>6. scaled \in [1 .. n -> Shown]
  BY <1>1, <1>2, <1>4
<1>7. scaled \in Seq(Shown) /\ Len(scaled) = n
  BY <1>1, <1>6, Tabled
<1>8. \A i \in 1 .. n : values[i] = NA <=> scaled[i] = NA
  BY <1>1, <1>2, <1>4
<1>9. \A i, j \in 1 .. n :
         values[i] # NA /\ values[j] # NA /\ values[i] <= values[j] => scaled[i] <= scaled[j]
  BY <1>1, <1>2, <1>5
<1> QED
  BY <1>7, <1>8, <1>9 DEF Alike, n, scaled

(* The bounds of a series cover its finite values. *)
LEMMA BoundsCover ==
    ASSUME NEW all \in SUBSET Nat, NEW bound \in Nat, \A v \in all : v <= bound,
           NEW s \in Seq(Shown), Finite(s) \subseteq all
    PROVE  Covers(SeriesBounds(all), s)
<1>1. \A i \in 1 .. Len(s) : s[i] # NA => s[i] \in all
  BY FiniteValues
<1>2. CASE all = {}
  BY <1>1, <1>2 DEF Covers, SeriesBounds
<1>3. CASE all # {}
  <2>1. Max(all) \in all /\ \A v \in all : v <= Max(all)
    BY <1>3, Greatest
  <2> DEFINE P == all \cup {0}
  <2>2. P \in SUBSET Nat /\ 0 \in P
    OBVIOUS
  <2> HIDE DEF P
  <2>3. Min(P) \in P /\ \A k \in P : Min(P) <= k
    BY <2>2, Least
  <2> DEFINE least == Min(P)
  <2>4. least \in Nat /\ least <= 0
    BY <2>2, <2>3
  <2>5. least = 0
    <3> HIDE DEF least
    <3> QED
      BY <2>4
  <2>6. SeriesBounds(all) = [min |-> Min(all \cup {0}), max |-> Max(all)]
    BY <1>3 DEF SeriesBounds
  <2>7. SeriesBounds(all).min = 0 /\ SeriesBounds(all).max = Max(all)
    BY <2>5, <2>6 DEF P
  <2> QED
    BY <1>1, <2>1, <2>7 DEF Covers
<1> QED
  BY <1>2, <1>3

(* Every canvas leaves room for a frame. *)
LEMMA SizesFit ==
    ASSUME NEW size \in Canvases
    PROVE  /\ IsFrame(Frame(size[1], size[2], 10, 14))
           /\ IsFrame(Frame(size[1], size[2], 24, 24))
<1>1. size[1] \in Nat /\ size[1] > 48 /\ size[2] \in Nat /\ size[2] > 48
  BY PictureAssumption
<1> QED
  BY <1>1 DEF Frame, IsFrame

(* A series is a sequence of values. *)
LEMMA SeriesAreValues ==
    ASSUME NEW values \in Series
    PROVE  values \in Seq(Shown)
  BY PictureAssumption DEF Shown

(* A single trajectory stays in its frame, in the order of its values. *)
LEMMA DrawsStay ==
    ASSUME NEW values \in Series, NEW scale, NEW size \in Canvases
    PROVE  LET canvas == DrawTrajectory(values, scale, size[1], size[2])
               svg == ToSvg(values, scale, size[1], size[2])
           IN /\ Inside(canvas, Frame(size[1], size[2], 10, 14))
              /\ Inside(svg, Frame(size[1], size[2], 24, 24))
              /\ Keeps(values, canvas) /\ Keeps(values, svg)
<1> DEFINE scaled == ApplyScale(values, scale)
           bounds == SeriesBounds(Finite(scaled))
           small == Frame(size[1], size[2], 10, 14)
           large == Frame(size[1], size[2], 24, 24)
<1>1. values \in Seq(Shown) /\ Alike(values, scaled)
  BY SeriesAreValues, ScaledAlike
<1>2. DrawTrajectory(values, scale, size[1], size[2]) = Plot(scaled, bounds, small)
  BY DEF DrawTrajectory
<1>3. ToSvg(values, scale, size[1], size[2]) = Plot(scaled, bounds, large)
  BY DEF ToSvg
<1>4. IsFrame(small) /\ IsFrame(large)
  BY SizesFit
<1> HIDE DEF scaled, small, large
<1>5. scaled \in Seq(Shown)
  BY <1>1 DEF Alike
<1>6. Covers(bounds, scaled)
  BY <1>5, FiniteValues, BoundsCover
<1> HIDE DEF bounds
<1>7. ASSUME NEW frame, IsFrame(frame)
      PROVE  /\ Inside(Plot(scaled, bounds, frame), frame)
             /\ Keeps(values, Plot(scaled, bounds, frame))
  <2>1. /\ Len(values) = Len(scaled)
        /\ \A i \in 1 .. Len(values) : values[i] = NA <=> scaled[i] = NA
        /\ \A i, j \in 1 .. Len(values) :
              values[i] # NA /\ values[j] # NA /\ values[i] <= values[j] => scaled[i] <= scaled[j]
    BY <1>1 DEF Alike
  <2> QED
    BY <1>1, <1>5, <1>6, <1>7, <2>1, PlotKeeps
<1> QED
  BY <1>2, <1>3, <1>4, <1>7 DEF small, large

-----------------------------------------------------------------------------
(* Values stretched over the scale. *)
LEMMA Stretched ==
    ASSUME NEW P \in SUBSET Nat, P # {}, NEW bound \in Nat, \A v \in P : v <= bound
    PROVE  /\ Min(P) \in P /\ Max(P) \in P
           /\ \A x \in P : Stretch(x, P) \in 0 .. Scale
           /\ Stretch(Min(P), P) = 0
           /\ Max(P) # Min(P) => Stretch(Max(P), P) = Scale
           /\ Max(P) = Min(P) => \A x : Stretch(x, P) = 0
<1> DEFINE least == Min(P)
           most == Max(P)
<1>1. least \in P /\ \A v \in P : least <= v
  BY Least
<1>2. most \in P /\ \A v \in P : v <= most
  BY Greatest
<1>3. \A x : Stretch(x, P) = IF most = least THEN 0 ELSE ((x - least) * Scale) \div (most - least)
  BY DEF Stretch
<1> HIDE DEF least, most
<1>4. CASE most = least
  <2>1. \A x : Stretch(x, P) = 0
    BY <1>3, <1>4
  <2>2. 0 \in 0 .. Scale
    BY DEF Scale
  <2> QED
    BY <1>1, <1>2, <1>4, <2>1, <2>2 DEF least, most
<1>5. CASE most # least
  <2> DEFINE d == most - least
  <2>1. d \in Positive /\ Scale \in Nat
    BY <1>1, <1>2, <1>5 DEF Positive, Scale
  <2>2. \A x \in P : x - least \in Nat /\ x - least <= d
    BY <1>1, <1>2
  <2>3. \A x : Stretch(x, P) = ((x - least) * Scale) \div d
    BY <1>3, <1>5
  <2>4. most - least = d /\ least - least = 0
    BY <1>1, <1>2
  <2> HIDE DEF d
  <2>5. ASSUME NEW x \in P PROVE Stretch(x, P) \in 0 .. Scale
    <3>1. ((x - least) * Scale) \div d \in Nat /\ ((x - least) * Scale) \div d <= Scale
      BY <2>1, <2>2, Shares
    <3> QED
      BY <2>1, <2>3, <3>1
  <2>6. Stretch(most, P) = Scale
    <3>1. (Scale * d) \div d = Scale /\ d * Scale = Scale * d
      BY <2>1, Divided DEF Positive
    <3> QED
      BY <2>3, <2>4, <3>1
  <2>7. Stretch(least, P) = 0
    <3>1. (0 * Scale) \div d = 0
      <4>1. (0 * d) \div d = 0 /\ 0 * d = 0 /\ 0 * Scale = 0
        BY <2>1, Divided DEF Positive
      <4> QED
        BY <4>1
    <3> QED
      BY <2>3, <2>4, <3>1
  <2> QED
    BY <1>1, <1>2, <1>5, <2>5, <2>6, <2>7 DEF least, most
<1> QED
  BY <1>4, <1>5

(* A normalized series is one of shares of the scale, and what was there   *)
(* still is.                                                               *)
LEMMA NormalizedSeries ==
    ASSUME NEW values \in Seq(Shown)
    PROVE  /\ NormalizeSeries(values) \in Seq(Shown) /\ Len(NormalizeSeries(values)) = Len(values)
           /\ \A i \in 1 .. Len(values) : values[i] # NA => NormalizeSeries(values)[i] # NA
<1> DEFINE n == Len(values)
           P == Finite(values)
           Of(v) == IF P = {} THEN 0 ELSE IF v = NA /\ Cardinality(P) > 1 THEN NA ELSE Stretch(v, P)
<1>1. n \in Nat /\ DOMAIN values = 1 .. n /\ \A i \in 1 .. n : values[i] \in Shown
  BY LenProperties, ElementOfSeq
<1>2. NormalizeSeries(values) = [i \in 1 .. n |-> Of(values[i])]
  BY <1>1 DEF NormalizeSeries
<1>3. /\ P \in SUBSET Nat /\ IsFiniteSet(P)
      /\ \A i \in 1 .. n : values[i] # NA => values[i] \in P
  BY FiniteValues
<1>4. PICK bound \in Nat : \A v \in P : v <= bound
  BY FiniteValues
<1> HIDE DEF P, n
<1>5. ASSUME NEW i \in 1 .. n PROVE Of(values[i]) \in Shown /\ (values[i] # NA => Of(values[i]) # NA)
  <2>1. CASE P = {}
    BY <1>3, <2>1 DEF Shown
  <2>2. CASE P # {}
    <3>1. /\ \A x \in P : Stretch(x, P) \in 0 .. Scale
          /\ Max(P) = Min(P) => \A x : Stretch(x, P) = 0
          /\ Max(P) \in P /\ Min(P) \in P
      BY <1>3, <1>4, <2>2, Stretched
    <3>2. CASE values[i] # NA
      <4>1. Stretch(values[i], P) \in Nat
        <5>1. values[i] \in P
          BY <1>3, <3>2
        <5>2. 0 .. Scale \subseteq Nat
          BY DEF Scale
        <5> QED
          BY <3>1, <5>1, <5>2
      <4>2. \A x \in Nat : x # NA
        BY DEF NA
      <4> QED
        BY <2>2, <3>2, <4>1, <4>2 DEF Shown
    <3>3. CASE values[i] = NA /\ Cardinality(P) > 1
      BY <2>2, <3>3 DEF Shown
    <3>4. CASE values[i] = NA /\ ~ (Cardinality(P) > 1)
      <4>1. Cardinality(P) \in Nat /\ Cardinality(P) # 0
        BY <1>3, <2>2, FS_EmptySet, FS_CardinalityType
      <4>2. Cardinality(P) = 1
        BY <3>4, <4>1
      <4>3. \E x : P = {x}
        BY <1>3, <4>2, FS_Singleton
      <4>4. Max(P) = Min(P)
        BY <3>1, <4>3
      <4>5. Stretch(values[i], P) = 0
        BY <3>1, <4>4
      <4> QED
        BY <2>2, <3>4, <4>5 DEF Shown
    <3> QED
      BY <3>2, <3>3, <3>4
  <2> QED
    BY <2>1, <2>2
<1> HIDE DEF Of
<1>6. NormalizeSeries(values) \in [1 .. n -> Shown]
  BY <1>2, <1>5
<1>7. \A i \in 1 .. n : values[i] # NA => NormalizeSeries(values)[i] # NA
  BY <1>2, <1>5
<1> QED
  BY <1>1, <1>6, <1>7, Tabled DEF n

(* So do the overlaid ones, each in the order of its own values. *)
LEMMA OverlaysStay ==
    ASSUME NEW pair \in Series \X Series, NEW mode \in {"raw", "log", "normalized"},
           NEW size \in Canvases
    PROVE  LET out == DrawOverlay(pair, mode, size[1], size[2])
           IN \A k \in DOMAIN out :
                 /\ Inside(out[k], Frame(size[1], size[2], 10, 14))
                 /\ mode # "normalized" => Keeps(pair[k], out[k])
<1> DEFINE out == DrawOverlay(pair, mode, size[1], size[2])
           curves == [k \in DOMAIN pair |-> Transformed(pair[k], mode)]
           all == UNION {Finite(s) : s \in ToSet(curves)}
           frame == Frame(size[1], size[2], 10, 14)
           bounds == SeriesBounds(all)
<1>1. DOMAIN pair = {1, 2} /\ \A k \in {1, 2} : pair[k] \in Seq(Shown)
  <2>1. DOMAIN pair = {1, 2} /\ pair[1] \in Series /\ pair[2] \in Series
    OBVIOUS
  <2> QED
    BY <2>1, SeriesAreValues
<1>2. ASSUME NEW values \in Seq(Shown)
      PROVE  /\ Transformed(values, mode) \in Seq(Shown)
             /\ mode # "normalized" => Alike(values, Transformed(values, mode))
  <2>1. CASE mode = "normalized"
    BY <2>1, NormalizedSeries DEF Transformed
  <2>2. CASE mode # "normalized"
    <3>1. Alike(values, Transformed(values, mode))
      BY <2>2, ScaledAlike DEF Transformed
    <3> QED
      BY <2>2, <3>1 DEF Alike
  <2> QED
    BY <2>1, <2>2
<1>3. \A k \in {1, 2} :
         /\ curves[k] \in Seq(Shown)
         /\ mode # "normalized" => Alike(pair[k], curves[k])
  BY <1>1, <1>2
<1>4. DOMAIN curves = {1, 2}
  BY <1>1
<1>5. out = IF all = {} THEN <<>> ELSE [k \in DOMAIN curves |-> Plot(curves[k], bounds, frame)]
  BY DEF DrawOverlay
<1>6. IsFrame(frame)
  BY SizesFit
<1> HIDE DEF curves, frame
<1>7. all = Finite(curves[1]) \cup Finite(curves[2])
  BY <1>4 DEF ToSet
<1>8. all \in SUBSET Nat /\ \E bound \in Nat : \A v \in all : v <= bound
  <2>1. PICK b1 \in Nat : \A v \in Finite(curves[1]) : v <= b1
    BY <1>3, FiniteValues
  <2>2. PICK b2 \in Nat : \A v \in Finite(curves[2]) : v <= b2
    BY <1>3, FiniteValues
  <2>3. Finite(curves[1]) \in SUBSET Nat /\ Finite(curves[2]) \in SUBSET Nat
    BY <1>3, FiniteValues
  <2> HIDE DEF all
  <2>4. b1 + b2 \in Nat /\ \A v \in all : v <= b1 + b2
    BY <1>7, <2>1, <2>2, <2>3
  <2> QED
    BY <1>7, <2>3, <2>4
<1>9. ASSUME NEW k \in DOMAIN out
      PROVE  Inside(out[k], frame) /\ (mode # "normalized" => Keeps(pair[k], out[k]))
  <2> HIDE DEF all, out
  <2>1. k \in {1, 2} /\ out[k] = Plot(curves[k], bounds, frame)
    BY <1>4, <1>5, <1>9
  <2>2. curves[k] \in Seq(Shown) /\ pair[k] \in Seq(Shown)
    BY <1>1, <1>3, <2>1
  <2>3. Covers(bounds, curves[k])
    <3>1. Finite(curves[k]) \subseteq all
      BY <1>7, <2>1
    <3> QED
      BY <1>8, <2>2, <3>1, BoundsCover
  <2> HIDE DEF bounds
  <2>4. \A values \in Seq(Shown) : Alike(values, curves[k]) =>
           /\ Inside(Plot(curves[k], bounds, frame), frame)
           /\ Keeps(values, Plot(curves[k], bounds, frame))
    BY <1>6, <2>2, <2>3, PlotKeeps DEF Alike
  <2>5. Alike(curves[k], curves[k])
    BY <2>2 DEF Alike
  <2> QED
    BY <1>3, <2>1, <2>2, <2>4, <2>5
<1> QED
  BY <1>9 DEF out, frame

(* A drawn series is one of values, as long as the given one, and has a    *)
(* value where that one has.                                               *)
LEMMA TransformedSeries ==
    ASSUME NEW values \in Seq(Shown), NEW mode
    PROVE  LET drawn == Transformed(values, mode)
           IN /\ drawn \in Seq(Shown) /\ Len(drawn) = Len(values)
              /\ \A i \in 1 .. Len(values) : values[i] # NA => drawn[i] # NA
<1>1. CASE mode = "normalized"
  BY <1>1, NormalizedSeries DEF Transformed
<1>2. CASE mode # "normalized"
  <2>1. Alike(values, Transformed(values, mode))
    BY <1>2, ScaledAlike DEF Transformed
  <2> QED
    BY <2>1 DEF Alike
<1> QED
  BY <1>1, <1>2

(* Of the series of a refused entry nothing but zeros is drawn. *)
LEMMA UndrawnShown ==
    ASSUME NEW values \in Seq(Shown), Undrawn(values), NEW mode
    PROVE  Finite(Transformed(values, mode)) \subseteq {0}
<1> DEFINE n == Len(values)
           drawn == Transformed(values, mode)
           P == Finite(values)
<1>1. /\ n \in Nat /\ DOMAIN values = 1 .. n
      /\ \A i \in 1 .. n : values[i] = 0 \/ values[i] = NA
  <2>1. n \in Nat /\ DOMAIN values = 1 .. n
    BY LenProperties
  <2>2. \A i \in 1 .. n : values[i] \in ToSet(values)
    BY <2>1 DEF ToSet
  <2> QED
    BY <2>1, <2>2 DEF Undrawn, Refused
<1>2. P \subseteq {0}
  BY DEF Finite, Undrawn, Refused
<1>3. ASSUME NEW i \in 1 .. n PROVE drawn[i] = 0 \/ drawn[i] = NA
  <2>1. CASE mode = "normalized"
    <3>1. drawn[i] = IF P = {} THEN 0
                     ELSE IF values[i] = NA /\ Cardinality(P) > 1 THEN NA
                     ELSE Stretch(values[i], P)
      BY <1>1, <2>1 DEF Transformed, NormalizeSeries
    <3>2. CASE P = {}
      BY <3>1, <3>2
    <3>3. CASE P # {}
      <4>1. P = {0}
        BY <1>2, <3>3
      <4>2. \A v \in P : v <= 0
        BY <4>1
      <4>3. P \in SUBSET Nat /\ 0 \in Nat
        BY <4>1
      <4> HIDE DEF P
      <4>4. Min(P) \in P /\ Max(P) \in P /\ (Max(P) = Min(P) => \A x : Stretch(x, P) = 0)
        BY <3>3, <4>2, <4>3, Stretched
      <4>5. Max(P) = Min(P)
        BY <4>1, <4>4
      <4> QED
        BY <3>1, <4>4, <4>5
    <3> HIDE DEF P, drawn
    <3> QED
      BY <3>2, <3>3
  <2>2. CASE mode # "normalized"
    <3> DEFINE scale == IF mode = "log" THEN "log" ELSE "linear"
    <3>1. drawn[i] = IF scale = "linear" \/ values[i] = NA THEN values[i]
                     ELSE Bits[values[i] + 1] - 1
      BY <1>1, <2>2 DEF Transformed, ApplyScale
    <3>2. Bits[1] = 1
      <4>1. Bits[0] = 0 /\ \A k \in Nat \ {0} : Bits[k] = 1 + Bits[k \div 2]
        BY BitLength
      <4>2. 1 \in Nat \ {0} /\ 1 \div 2 = 0
        OBVIOUS
      <4>3. Bits[1] = 1 + Bits[0]
        BY <4>1, <4>2
      <4> QED
        BY <4>1, <4>3
    <3>3. CASE values[i] = NA
      BY <3>1, <3>3
    <3>4. CASE values[i] = 0
      <4>1. Bits[values[i] + 1] - 1 = 0
        BY <3>2, <3>4
      <4> HIDE DEF drawn
      <4> QED
        BY <3>1, <3>4, <4>1
    <3> QED
      BY <1>1, <3>3, <3>4
  <2> QED
    BY <2>1, <2>2
<1>4. DOMAIN drawn = 1 .. n
  <2>1. drawn \in Seq(Shown) /\ Len(drawn) = n
    BY TransformedSeries
  <2> HIDE DEF drawn, n
  <2> QED
    BY <2>1, LenProperties
<1> HIDE DEF drawn, n
<1>5. \A v \in ToSet(drawn) : v = 0 \/ v = NA
  BY <1>3, <1>4 DEF ToSet
<1> QED
  BY <1>5 DEF Finite, drawn

(* Zeros do not move the bounds of other values. *)
LEMMA BoundsUnmoved ==
    ASSUME NEW all \in SUBSET Nat, all # {}, NEW bound \in Nat, \A v \in all : v <= bound,
           NEW zeros, zeros \subseteq {0}
    PROVE  SeriesBounds(all \cup zeros) = SeriesBounds(all)
<1> DEFINE more == all \cup zeros
<1>1. more \in SUBSET Nat /\ more # {} /\ \A v \in more : v <= bound
  OBVIOUS
<1>2. more \cup {0} = all \cup {0}
  OBVIOUS
<1> HIDE DEF more
<1>3. Max(more) \in more /\ \A v \in more : v <= Max(more)
  BY <1>1, Greatest
<1>4. Max(all) \in all /\ \A v \in all : v <= Max(all)
  BY Greatest
<1>5. Max(more) = Max(all)
  <2>1. Max(all) <= Max(more) /\ Max(all) \in Nat /\ Max(more) \in Nat
    BY <1>1, <1>3, <1>4 DEF more
  <2>2. Max(more) \in all \/ Max(more) = 0
    BY <1>3 DEF more
  <2> QED
    BY <1>4, <2>1, <2>2
<1> QED
  BY <1>1, <1>2, <1>5 DEF SeriesBounds, more

(* A curve is where it would be alone when the others have nothing to show. *)
Apart(pair, mode, size, out) ==
    \A k \in DOMAIN out :
        /\ ~ (ToSet(pair[k]) \subseteq {NA})
        /\ \A j \in DOMAIN out \ {k} : Undrawn(pair[j])
        => out[k] = DrawnAlone(pair[k], mode, size)

LEMMA OverlaysApart ==
    ASSUME NEW pair \in Series \X Series, NEW mode, NEW size \in Canvases
    PROVE  Apart(pair, mode, size, DrawOverlay(pair, mode, size[1], size[2]))
<1> SUFFICES
      ASSUME NEW k \in DOMAIN DrawOverlay(pair, mode, size[1], size[2]),
             ~ (ToSet(pair[k]) \subseteq {NA}),
             \A j \in DOMAIN DrawOverlay(pair, mode, size[1], size[2]) \ {k} : Undrawn(pair[j])
      PROVE  DrawOverlay(pair, mode, size[1], size[2])[k] = DrawnAlone(pair[k], mode, size)
  BY DEF Apart
<1> DEFINE out == DrawOverlay(pair, mode, size[1], size[2])
           curves == [j \in DOMAIN pair |-> Transformed(pair[j], mode)]
           all == UNION {Finite(s) : s \in ToSet(curves)}
           frame == Frame(size[1], size[2], 10, 14)
           values == pair[k]
           curve == Transformed(values, mode)
           zeros == all \ Finite(curve)
<1>1. DOMAIN pair = {1, 2} /\ \A j \in {1, 2} : pair[j] \in Seq(Shown)
  <2>1. DOMAIN pair = {1, 2} /\ pair[1] \in Series /\ pair[2] \in Series
    OBVIOUS
  <2> QED
    BY <2>1, SeriesAreValues
<1>2. out = IF all = {} THEN <<>>
            ELSE [j \in DOMAIN curves |-> Plot(curves[j], SeriesBounds(all), frame)]
  BY DEF DrawOverlay
<1>3. DOMAIN curves = {1, 2} /\ \A j \in {1, 2} : curves[j] = Transformed(pair[j], mode)
  BY <1>1
<1> HIDE DEF curves, frame
<1>4. all = Finite(curves[1]) \cup Finite(curves[2])
  BY <1>3 DEF ToSet
<1>5. DOMAIN out = {1, 2} /\ k \in {1, 2} /\ out[k] = Plot(curve, SeriesBounds(all), frame)
  <2>1. k \in DOMAIN out
    OBVIOUS
  <2> HIDE DEF out, all, curve
  <2>2. all # {}
    BY <1>2, <2>1
  <2> QED
    BY <1>2, <1>3, <2>1, <2>2 DEF curve
<1>6. values \in Seq(Shown) /\ curve \in Seq(Shown) /\ Finite(curve) # {}
  <2>1. values \in Seq(Shown)
    BY <1>1, <1>5
  <2>2. PICK i \in DOMAIN values : values[i] # NA
    BY DEF ToSet
  <2> HIDE DEF values, curve
  <2>3. i \in 1 .. Len(values)
    BY <2>1, LenProperties
  <2>4. /\ curve \in Seq(Shown) /\ Len(curve) = Len(values) /\ curve[i] # NA
    BY <2>1, <2>2, <2>3, TransformedSeries DEF curve
  <2>5. curve[i] \in Finite(curve)
    BY <2>3, <2>4, FiniteValues
  <2> QED
    BY <2>1, <2>4, <2>5
<1>7. all = Finite(curve) \cup zeros /\ zeros \subseteq {0}
  <2>1. \A j \in {1, 2} : j # k => Finite(curves[j]) \subseteq {0}
    <3>1. SUFFICES ASSUME NEW j \in {1, 2}, j # k PROVE Finite(curves[j]) \subseteq {0}
      OBVIOUS
    <3>2. Undrawn(pair[j]) /\ pair[j] \in Seq(Shown)
      BY <1>1, <1>5, <3>1
    <3> QED
      BY <1>3, <3>2, UndrawnShown
  <2>2. curve = curves[k]
    BY <1>3, <1>5
  <2> HIDE DEF curve
  <2> QED
    BY <1>4, <1>5, <2>1, <2>2
<1> HIDE DEF all, zeros
<1>8. SeriesBounds(all) = SeriesBounds(Finite(curve))
  <2>1. PICK bound \in Nat : \A v \in Finite(curve) : v <= bound
    BY <1>6, FiniteValues
  <2>2. Finite(curve) \in SUBSET Nat
    BY <1>6, FiniteValues
  <2> HIDE DEF curve
  <2> QED
    BY <1>6, <1>7, <2>1, <2>2, BoundsUnmoved
<1>9. DrawnAlone(values, mode, size) = Plot(curve, SeriesBounds(Finite(curve)), frame)
  <2> DEFINE one == [j \in DOMAIN <<values>> |-> Transformed(<<values>>[j], mode)]
             only == UNION {Finite(s) : s \in ToSet(one)}
  <2>1. DOMAIN one = {1} /\ one[1] = curve
    OBVIOUS
  <2>2. DrawnAlone(values, mode, size) =
           (IF only = {} THEN <<>>
            ELSE [j \in DOMAIN one |-> Plot(one[j], SeriesBounds(only), frame)])[1]
    BY DEF DrawnAlone, DrawOverlay, frame
  <2> HIDE DEF one, curve
  <2>3. only = Finite(curve)
    BY <2>1 DEF ToSet
  <2> HIDE DEF only
  <2> QED
    BY <1>6, <2>1, <2>2, <2>3
<1> QED
  BY <1>5, <1>8, <1>9 DEF out

(* A ratio is a number, or missing. *)
LEMMA Ratios ==
    ASSUME NEW a \in Nat, NEW b \in Nat
    PROVE  RatioOrNull(a, b) \in Shown
<1>1. CASE b = 0
  BY <1>1 DEF RatioOrNull, Shown
<1>2. CASE b # 0
  <2>1. a * Scale \in Nat /\ b \in Positive
    BY <1>2 DEF Scale, Positive
  <2>2. (a * Scale) \div b \in Nat
    BY <2>1, Quotient
  <2> QED
    BY <1>2, <2>2 DEF RatioOrNull, Shown
<1> QED
  BY <1>1, <1>2

(* The metrics a comparison reads are numbers, or missing. *)
LEMMA MetricsAreValues ==
    ASSUME NEW system \in DOMAIN Multiplier, NEW n, NEW limit, NEW states,
           Trail(system, n, limit, states), Len(states) >= 2
    PROVE  LET m == Metrics(states)
           IN /\ m.total_stopping_time \in Shown /\ m.stopping_time \in Shown
              /\ m.peak_index \in Shown /\ m.maximum_bit_length \in Shown
              /\ m.odd_count \in Shown /\ m.even_count \in Shown
              /\ m.odd_ratio \in Shown /\ m.even_ratio \in Shown
              /\ m.average_growth \in Shown /\ m.average_decline \in Shown
<1> DEFINE m == Metrics(states)
           N == Len(states)
           odd == CountOf(Parity(states), 1)
           lengths == BitLengths(states)
<1>1. /\ m.total_stopping_time = TotalStoppingTime(states)
      /\ m.stopping_time = StoppingTime(states)
      /\ m.peak_index = PeakIndex(states)
      /\ m.maximum_bit_length = Max(ToSet(lengths))
      /\ m.odd_count = odd /\ m.even_count = (N - 1) - odd
      /\ m.odd_ratio = RatioOrNull(odd, N - 1)
      /\ m.even_ratio = RatioOrNull((N - 1) - odd, N - 1)
      /\ m.average_growth = MeanRatio(states, Parity(states), 1)
      /\ m.average_decline = MeanRatio(states, Parity(states), 0)
  BY DEF Metrics
<1> HIDE DEF m
<1>2. /\ N \in Nat /\ N >= 2 /\ N - 1 \in Nat
      /\ \A i \in 1 .. N : states[i] \in Positive
      /\ lengths = [i \in 1 .. N |-> Bits[states[i]]]
  BY TrailIndices
<1>3. states \in Seq(Nat)
  <2>1. states \in Seq(Positive) /\ Positive \subseteq Nat
    BY DEF Trail, Positive
  <2> QED
    BY <2>1, SeqMonotonic
<1>4. odd \in Nat /\ (N - 1) - odd \in Nat
  <2>1. odd \in Nat /\ odd <= Len(states) - 1
    BY StepsCounted
  <2> HIDE DEF odd
  <2>2. odd \in Nat /\ odd <= N - 1
    BY <2>1
  <2> HIDE DEF N
  <2> QED
    BY <1>2, <2>2
<1>5. TotalStoppingTime(states) \in Shown
  BY <1>2 DEF TotalStoppingTime, Shown
<1> HIDE DEF N
<1>6. StoppingTime(states) \in Shown
  <2>1. Len(states) >= 1
    BY <1>2 DEF N
  <2>2. StoppingTime(states) = NA \/ StoppingTime(states) \in 1 .. Len(states) - 1
    BY <1>3, <2>1, StopsBelow
  <2>3. 1 .. Len(states) - 1 \subseteq Nat
    OBVIOUS
  <2> QED
    BY <2>2, <2>3 DEF Shown
<1>7. PeakIndex(states) \in Shown
  <2>1. Len(states) >= 1
    BY <1>2 DEF N
  <2>2. PeakIndex(states) \in Nat
    BY <1>3, <2>1, PeakIsFirst
  <2> QED
    BY <2>2 DEF Shown
<1>8. Max(ToSet(lengths)) \in Shown
  <2> DEFINE P == {lengths[i] : i \in 1 .. N}
  <2>1. ToSet(lengths) = P
    BY <1>2 DEF ToSet
  <2>2. \A i \in 1 .. N : Bits[states[i]] \in Nat
    BY <1>2, BitLength DEF Positive
  <2> HIDE DEF lengths
  <2>3. lengths \in [1 .. N -> Nat]
    BY <1>2, <2>2
  <2>4. lengths \in [1 .. N -> Int]
    BY <2>3
  <2>5. N >= 1
    BY <1>2
  <2>6. Max(P) \in P
    BY <1>2, <2>4, <2>5, Extremes
  <2>7. P \subseteq Nat
    BY <2>3
  <2> HIDE DEF P
  <2> QED
    BY <2>1, <2>6, <2>7 DEF Shown
<1>9. /\ MeanRatio(states, Parity(states), 1) \in Shown
      /\ MeanRatio(states, Parity(states), 0) \in Shown
  BY Means DEF Shown
<1> HIDE DEF odd, lengths
<1>10. odd \in Shown /\ (N - 1) - odd \in Shown
  BY <1>4 DEF Shown
<1>11. RatioOrNull(odd, N - 1) \in Shown /\ RatioOrNull((N - 1) - odd, N - 1) \in Shown
  BY <1>2, <1>4, Ratios
<1> QED
  BY <1>1, <1>5, <1>6, <1>7, <1>8, <1>9, <1>10, <1>11 DEF m

(* A trajectory that finished. *)
LEMMA FinishedRuns ==
    ASSUME NEW system \in DOMAIN Multiplier, NEW n \in Positive, NEW limit \in Nat
    PROVE  LET t == Finished(system, n, limit)
           IN /\ Trail(system, n, limit, t.states) /\ Len(t.states) >= 2
              /\ t.metrics = Metrics(t.states)
              /\ t.status # "SystemError"
<1>1. LET run == RunSystem(system, n, limit)
      IN /\ Complete(system, n, limit, run.states)
         /\ run.status \in {"Converged", "CycleDetected", "IterationLimitReached"}
  BY RunCompletes
<1> QED
  BY <1>1 DEF Finished, Complete

Vectors == {v \in Seq(Nat) : Len(v) = 10}

(* A feature vector is ten numbers; a missing one counts as 0. *)
LEMMA FeaturesAreNumbers ==
    ASSUME NEW system \in DOMAIN Multiplier, NEW n \in Nat \cup {NA}, NEW limit \in Nat
    PROVE  LET vector == FeatureVector(Candidate(system, n, limit))
           IN vector \in Vectors /\ (n \in Refused => \A i \in 1 .. 10 : vector[i] = 0)
<1> DEFINE t == Candidate(system, n, limit)
           vector == FeatureVector(t)
<1>1. DOMAIN ComparisonFeatures = 1 .. 10
  BY DEF ComparisonFeatures
<1>2. \A v \in Shown \cup {Undefined} : ToNumber(v) \in Nat
  BY DEF Shown, ToNumber
<1>3. ASSUME NEW i \in 1 .. 10
      PROVE  /\ Metric(t, ComparisonFeatures[i]) \in Shown \cup {Undefined}
             /\ n \in Refused => Metric(t, ComparisonFeatures[i]) = Undefined
  <2>1. CASE n \in Refused
    <3>1. t.metrics = [key \in {} |-> NA]
      BY <2>1 DEF Candidate, SystemError
    <3> QED
      BY <3>1 DEF Metric
  <2>2. CASE n \notin Refused
    <3>1. t = Finished(system, n, limit) /\ n \in Positive
      BY <2>2 DEF Candidate, Positive, Refused
    <3> DEFINE m == Metrics(t.states)
    <3> HIDE DEF t
    <3>2. /\ Trail(system, n, limit, t.states) /\ Len(t.states) >= 2 /\ t.metrics = m
      BY <3>1, FinishedRuns
    <3>3. /\ m.total_stopping_time \in Shown /\ m.stopping_time \in Shown
          /\ m.peak_index \in Shown /\ m.maximum_bit_length \in Shown
          /\ m.odd_count \in Shown /\ m.even_count \in Shown
          /\ m.odd_ratio \in Shown /\ m.even_ratio \in Shown
          /\ m.average_growth \in Shown /\ m.average_decline \in Shown
      BY <3>2, MetricsAreValues
    <3> HIDE DEF m
    <3>4. ComparisonFeatures[i] \in
             {"total_stopping_time", "stopping_time", "peak_index", "maximum_bit_length", "odd_count",
              "even_count", "odd_ratio", "even_ratio", "average_growth", "average_decline"}
      BY DEF ComparisonFeatures
    <3>5. m[ComparisonFeatures[i]] \in Shown
      BY <3>3, <3>4
    <3> QED
      BY <2>2, <3>2, <3>5 DEF Metric
  <2> QED
    BY <2>1, <2>2
<1> HIDE DEF t
<1>4. vector = [i \in 1 .. 10 |-> ToNumber(Metric(t, ComparisonFeatures[i]))]
  BY <1>1 DEF FeatureVector
<1> HIDE DEF vector
<1>5. vector \in [1 .. 10 -> Nat]
  BY <1>2, <1>3, <1>4
<1>6. vector \in Seq(Nat) /\ Len(vector) = 10
  BY <1>5, Tabled
<1>7. n \in Refused => \A i \in 1 .. 10 : vector[i] = 0
  BY <1>3, <1>4 DEF ToNumber
<1> QED
  BY <1>6, <1>7 DEF Vectors, vector, t

-----------------------------------------------------------------------------
(* The comparison. *)
LEMMA ColumnsSpread ==
    ASSUME NEW n \in Nat, n >= 1, NEW vectors \in [1 .. n -> Vectors], NEW i \in 1 .. 10
    PROVE  ColumnIsSpread(Column(MinMaxNormalizeSet(vectors), i))
<1> DEFINE P == Column(vectors, i)
           out == MinMaxNormalizeSet(vectors)
<1>1. \A k \in 1 .. n : DOMAIN vectors[k] = 1 .. 10 /\ vectors[k][i] \in Nat
  <2>1. \A k \in 1 .. n : vectors[k] \in Seq(Nat) /\ Len(vectors[k]) = 10
    BY DEF Vectors
  <2> QED
    BY <2>1, LenProperties, ElementOfSeq
<1>2. P = {vectors[k][i] : k \in 1 .. n}
  BY DEF Column, ToSet
<1>3. Column(out, i) = {Stretch(vectors[k][i], P) : k \in 1 .. n}
  <2>1. \A k \in 1 .. n : out[k][i] = Stretch(vectors[k][i], P)
    BY <1>1 DEF MinMaxNormalizeSet
  <2>2. DOMAIN out = 1 .. n
    BY DEF MinMaxNormalizeSet
  <2> HIDE DEF out, P
  <2>3. Column(out, i) = {out[k][i] : k \in 1 .. n}
    BY <2>2 DEF Column, ToSet
  <2> QED
    BY <2>1, <2>3
<1> HIDE DEF P, out
<1>4. Column(out, i) = {Stretch(x, P) : x \in P}
  BY <1>2, <1>3
<1>5. P \in SUBSET Nat /\ P # {}
  <2>1. 1 \in 1 .. n
    OBVIOUS
  <2> QED
    BY <1>1, <1>2, <2>1
<1>6. \E bound \in Nat : \A v \in P : v <= bound
  <2> DEFINE f == [k \in 1 .. n |-> vectors[k][i]]
  <2>1. f \in [1 .. n -> Int]
    BY <1>1
  <2>2. P = {f[k] : k \in 1 .. n}
    BY <1>2
  <2> HIDE DEF f
  <2>3. Max(P) \in P /\ \A v \in P : v <= Max(P)
    BY <2>1, <2>2, Extremes
  <2> QED
    BY <1>5, <2>3
<1>7. /\ Min(P) \in P /\ Max(P) \in P
      /\ \A x \in P : Stretch(x, P) \in 0 .. Scale
      /\ Stretch(Min(P), P) = 0
      /\ Max(P) # Min(P) => Stretch(Max(P), P) = Scale
      /\ Max(P) = Min(P) => \A x : Stretch(x, P) = 0
  BY <1>5, <1>6, Stretched
<1>8. Column(out, i) \subseteq 0 .. Scale /\ 0 \in Column(out, i)
  BY <1>4, <1>7
<1>9. ASSUME Column(out, i) # {0} PROVE Scale \in Column(out, i)
  <2>1. CASE Max(P) = Min(P)
    <3>1. Column(out, i) = {0}
      BY <1>4, <1>7, <2>1
    <3> QED
      BY <1>9, <3>1
  <2>2. CASE Max(P) # Min(P)
    BY <1>4, <1>7, <2>2
  <2> QED
    BY <2>1, <2>2
<1> QED
  BY <1>8, <1>9 DEF ColumnIsSpread, out

(* A dot product is a sum of products. *)
LEMMA DotIsSum ==
    ASSUME NEW a \in Vectors, NEW b \in Vectors
    PROVE  \E p : /\ DotProduct(a, b) = p[10] /\ p[0] = 0
                  /\ \A k \in 1 .. 10 : p[k] = p[k - 1] + a[k] * b[k]
<1> DEFINE Sums(f) == f = [i \in 0 .. 10 |-> IF i = 0 THEN 0 ELSE f[i - 1] + a[i] * b[i]]
           p == CHOOSE f : Sums(f)
           s == [k \in Nat |-> [x \in Nat |-> IF k \in 1 .. 10 THEN x + a[k] * b[k] ELSE x]]
<1>1. /\ Len(a) = 10 /\ \A i \in 1 .. 10 : a[i] \in Nat
      /\ Len(b) = 10 /\ \A i \in 1 .. 10 : b[i] \in Nat
  BY ElementOfSeq DEF Vectors
<1>2. DotProduct(a, b) = p[10]
  BY <1>1 DEF DotProduct
<1>3. \A k \in 0 .. 10 : k = 0 \/ k \in 1 .. 10
  OBVIOUS
<1>4. s \in [Nat -> [Nat -> Nat]]
  <2>1. \A k \in 1 .. 10 : a[k] * b[k] \in Nat
    BY <1>1
  <2> QED
    BY <2>1
<1>5. PICK f \in [0 .. 10 -> Nat] : Chain(f, 0, s, 10)
  <2> HIDE DEF s
  <2> QED
    BY <1>4, ChainExists
<1>6. f[0] = 0 /\ \A k \in 1 .. 10 : f[k] = f[k - 1] + a[k] * b[k]
  <2>1. \A k \in 1 .. 10 : k - 1 \in 0 .. 10 /\ k \in Nat /\ f[k - 1] \in Nat
    OBVIOUS
  <2> QED
    BY <1>5, <2>1 DEF Chain
<1>7. Sums(f)
  BY <1>3, <1>6
<1>8. Sums(p)
  <2> HIDE DEF Sums
  <2> QED
    BY <1>7
<1> HIDE DEF p
<1>9. 0 \in 0 .. 10 /\ \A k \in 1 .. 10 : k \in 0 .. 10 /\ k # 0
  OBVIOUS
<1>10. p[0] = 0 /\ \A k \in 1 .. 10 : p[k] = p[k - 1] + a[k] * b[k]
  BY <1>8, <1>9
<1> QED
  BY <1>2, <1>10

(* Sums of the same products are the same. *)
LEMMA SameSums ==
    ASSUME NEW p, NEW q, p[0] = q[0],
           \A k \in 1 .. 10 : p[k - 1] = q[k - 1] => p[k] = q[k]
    PROVE  p[10] = q[10]
<1> DEFINE T == {k \in Nat : k <= 10 => p[k] = q[k]}
<1>1. 0 \in T
  OBVIOUS
<1>2. ASSUME NEW k \in Nat, k \in T
      PROVE  k + 1 \in T
  <2>1. SUFFICES ASSUME k + 1 <= 10 PROVE p[k + 1] = q[k + 1]
    OBVIOUS
  <2>2. k <= 10 /\ k + 1 \in 1 .. 10 /\ (k + 1) - 1 = k
    BY <2>1
  <2> QED
    BY <1>2, <2>2
<1>3. Nat \subseteq T
  <2> HIDE DEF T
  <2> QED
    BY <1>1, <1>2, Induction
<1> QED
  BY <1>3

(* The dot product does not ask which comes first. *)
LEMMA DotIsSymmetric ==
    ASSUME NEW a \in Vectors, NEW b \in Vectors
    PROVE  DotProduct(a, b) = DotProduct(b, a)
<1>1. PICK p : /\ DotProduct(a, b) = p[10] /\ p[0] = 0
               /\ \A k \in 1 .. 10 : p[k] = p[k - 1] + a[k] * b[k]
  BY DotIsSum
<1>2. PICK q : /\ DotProduct(b, a) = q[10] /\ q[0] = 0
               /\ \A k \in 1 .. 10 : q[k] = q[k - 1] + b[k] * a[k]
  BY DotIsSum
<1>3. \A k \in 1 .. 10 : a[k] \in Nat /\ b[k] \in Nat
  BY ElementOfSeq DEF Vectors
<1>4. \A k \in 1 .. 10 : a[k] * b[k] = b[k] * a[k]
  BY <1>3
<1>5. \A k \in 1 .. 10 : p[k - 1] = q[k - 1] => p[k] = q[k]
  BY <1>1, <1>2, <1>4
<1> QED
  BY <1>1, <1>2, <1>5, SameSums

(* Zeros are similar to nothing. *)
LEMMA DotOfZeros ==
    ASSUME NEW a \in Vectors, \A i \in 1 .. 10 : a[i] = 0
    PROVE  DotProduct(a, a) = 0
<1> DEFINE q == [k \in 0 .. 10 |-> 0]
<1>1. PICK p : /\ DotProduct(a, a) = p[10] /\ p[0] = 0
               /\ \A k \in 1 .. 10 : p[k] = p[k - 1] + a[k] * a[k]
  BY DotIsSum
<1>2. \A k \in 0 .. 10 : q[k] = 0
  OBVIOUS
<1> HIDE DEF q
<1>3. ASSUME NEW k \in 1 .. 10, p[k - 1] = q[k - 1] PROVE p[k] = q[k]
  <2>1. q[k - 1] = 0 /\ q[k] = 0 /\ a[k] = 0
    BY <1>2
  <2> QED
    BY <1>1, <1>3, <2>1
<1>4. p[0] = q[0] /\ q[10] = 0
  BY <1>1, <1>2
<1> QED
  BY <1>1, <1>3, <1>4, SameSums

(* What a comparison shows is spread by column and symmetric, and nothing  *)
(* is similar to a refused entry.                                          *)
LEMMA ComparesTruly ==
    ASSUME NEW system \in DOMAIN Multiplier, NEW list \in Comparisons, NEW limit \in Limits
    PROVE  LET vectors == [k \in DOMAIN list |-> FeatureVector(Candidate(system, list[k], limit))]
               similarity == SimilarityMatrix(vectors)
           IN /\ \A i \in DOMAIN ComparisonFeatures :
                    ColumnIsSpread(Column(MinMaxNormalizeSet(vectors), i))
              /\ \A i, j \in DOMAIN vectors :
                    /\ similarity[i][j] = similarity[j][i]
                    /\ list[i] \in Refused => similarity[i][j].dot = 0
                    /\ vectors[i] = vectors[j] => similarity[i][j].norms = {similarity[i][j].dot}
<1> DEFINE n == Len(list)
           vectors == [k \in DOMAIN list |-> FeatureVector(Candidate(system, list[k], limit))]
           similarity == SimilarityMatrix(vectors)
<1>1. list \in Seq(Nat \cup {NA}) /\ list # <<>> /\ limit \in Nat
  BY PictureAssumption, RunAssumption
<1>2. n \in Nat /\ n >= 1 /\ DOMAIN list = 1 .. n /\ \A k \in 1 .. n : list[k] \in Nat \cup {NA}
  BY <1>1, LenProperties, ElementOfSeq, EmptySeq
<1>3. /\ vectors \in [1 .. n -> Vectors]
      /\ \A k \in 1 .. n : list[k] \in Refused => \A i \in 1 .. 10 : vectors[k][i] = 0
  BY <1>1, <1>2, FeaturesAreNumbers
<1> HIDE DEF vectors, n
<1>4. ASSUME NEW i \in DOMAIN ComparisonFeatures
      PROVE  ColumnIsSpread(Column(MinMaxNormalizeSet(vectors), i))
  <2>1. i \in 1 .. 10
    BY DEF ComparisonFeatures
  <2> QED
    BY <1>2, <1>3, <2>1, ColumnsSpread
<1>5. ASSUME NEW i \in DOMAIN vectors, NEW j \in DOMAIN vectors
      PROVE  /\ similarity[i][j] = similarity[j][i]
             /\ list[i] \in Refused => similarity[i][j].dot = 0
             /\ vectors[i] = vectors[j] => similarity[i][j].norms = {similarity[i][j].dot}
  <2> DEFINE a == vectors[i]
             b == vectors[j]
  <2>1. /\ similarity[i][j] = CosineSimilarity(a, b)
        /\ similarity[j][i] = CosineSimilarity(b, a)
    BY DEF SimilarityMatrix
  <2>2. a \in Vectors /\ b \in Vectors
        /\ (list[i] \in Refused => \A k \in 1 .. 10 : a[k] = 0)
    BY <1>3
  <2> HIDE DEF a, b, similarity
  <2>3. DotProduct(a, b) = DotProduct(b, a)
    BY <2>2, DotIsSymmetric
  <2>4. {DotProduct(a, a), DotProduct(b, b)} = {DotProduct(b, b), DotProduct(a, a)}
    OBVIOUS
  <2>5. CosineSimilarity(a, b) = CosineSimilarity(b, a)
    BY <2>3, <2>4 DEF CosineSimilarity
  <2>6. ASSUME a = b
        PROVE  CosineSimilarity(a, b).norms = {CosineSimilarity(a, b).dot}
    BY <2>6 DEF CosineSimilarity
  <2>7. ASSUME list[i] \in Refused PROVE CosineSimilarity(a, b).dot = 0
    <3>1. DotProduct(a, a) = 0
      BY <2>2, <2>7, DotOfZeros
    <3> QED
      BY <3>1 DEF CosineSimilarity
  <2> QED
    BY <2>1, <2>5, <2>6, <2>7 DEF a, b
<1> QED
  BY <1>4, <1>5 DEF vectors

Coral == [oddAngle : Int, evenAngle : Int, lineLength : Nat, rotation : Int]
Pen == {pen \in [heading : Int, points : Seq(Pixel)] : Len(pen.points) >= 1}

(* A segment of a drawing in some direction. *)
Step(direction, params) == <<Cos(direction) * params.lineLength, Sin(direction) * params.lineLength>>

(* Two segments of a drawing, of one length, are equally long. *)
LEMMA UnitSteps ==
    ASSUME NEW direction \in Int, NEW params \in Coral
    PROVE  /\ Step(direction, params) \in Pixel
           /\ SquaredLength(Step(direction, params)) = params.lineLength * params.lineLength
<1> DEFINE q == direction % 4
           c == Cos(direction)
           s == Sin(direction)
           L == params.lineLength
<1>1. q \in 0 .. 3 /\ L \in Nat
  BY DEF Coral
<1>2. c = <<1, 0, -1, 0>>[q + 1] /\ s = <<0, 1, 0, -1>>[q + 1]
  BY DEF Cos, Sin
<1> HIDE DEF q
<1>3. q = 0 \/ q = 1 \/ q = 2 \/ q = 3
  BY <1>1
<1>4. \/ c = 1 /\ s = 0
      \/ c = 0 /\ s = 1
      \/ c = -1 /\ s = 0
      \/ c = 0 /\ s = -1
  BY <1>2, <1>3
<1> HIDE DEF c, s, L
<1>5. c * L \in Int /\ s * L \in Int /\ (c * L) * (c * L) + (s * L) * (s * L) = L * L
  <2>1. CASE c = 1 /\ s = 0
    <3>1. c * L = L /\ s * L = 0
      BY <1>1, <2>1
    <3> QED
      BY <1>1, <3>1
  <2>2. CASE c = 0 /\ s = 1
    <3>1. c * L = 0 /\ s * L = L
      BY <1>1, <2>2
    <3> QED
      BY <1>1, <3>1
  <2>3. CASE c = -1 /\ s = 0
    <3>1. c * L = -L /\ s * L = 0
      BY <1>1, <2>3
    <3> QED
      BY <1>1, <3>1
  <2>4. CASE c = 0 /\ s = -1
    <3>1. c * L = 0 /\ s * L = -L
      BY <1>1, <2>4
    <3> QED
      BY <1>1, <3>1
  <2> QED
    BY <1>4, <2>1, <2>2, <2>3, <2>4
<1>6. Step(direction, params) = <<c * L, s * L>>
  BY DEF Step, c, s, L
<1>7. SquaredLength(<<c * L, s * L>>) = (c * L) * (c * L) + (s * L) * (s * L)
  BY DEF SquaredLength
<1> QED
  BY <1>5, <1>6, <1>7 DEF L, Pixel

Direction(before, after, rule) == IF rule = "rotate-after" THEN before.heading ELSE after.heading

Drew(pen, next, params, rule) ==
    LET m == Len(pen.points)
        step == Step(Direction(pen, next, rule), params)
    IN /\ Len(next.points) = m + 1
       /\ \A q \in 1 .. m : next.points[q] = pen.points[q]
       /\ step \in Pixel
       /\ next.points[m + 1] = <<pen.points[m][1] + step[1], pen.points[m][2] + step[2]>>

(* A bit bends the pen and draws one segment. *)
LEMMA DrawsOne ==
    ASSUME NEW pen \in Pen, NEW i \in Nat, NEW bit, NEW params \in Coral, NEW rule
    PROVE  /\ Draw(pen, i, bit, params, rule) \in Pen
           /\ Draw(pen, i, bit, params, rule).heading = Bend(pen, i, bit, params, rule)
           /\ Drew(pen, Draw(pen, i, bit, params, rule), params, rule)
<1> DEFINE next == Draw(pen, i, bit, params, rule)
           m == Len(pen.points)
           heading == Bend(pen, i, bit, params, rule)
           direction == IF rule = "rotate-after" THEN pen.heading ELSE heading
           from == pen.points[m]
           step == Step(direction, params)
           to == <<from[1] + step[1], from[2] + step[2]>>
<1>1. pen.heading \in Int /\ pen.points \in Seq(Pixel) /\ m \in Nat /\ m >= 1
  BY LenProperties DEF Pen
<1>2. heading \in Int
  <2>1. Turn(bit, params) \in Int /\ params.rotation \in Int
    BY DEF Turn, Coral
  <2> QED
    BY <1>1, <2>1 DEF Bend
<1> HIDE DEF heading, m
<1>3. from \in Pixel
  BY <1>1, ElementOfSeq DEF m
<1>4. step \in Pixel
  BY <1>1, <1>2, UnitSteps
<1> HIDE DEF from, step
<1>5. to \in Pixel /\ from[1] \in Int
  BY <1>3, <1>4 DEF Pixel
<1>6. next = [heading |-> heading, points |-> Append(pen.points, to)]
  BY DEF Draw, heading, from, step, m, Last, Step
<1>7. next.heading = heading /\ next.points = Append(pen.points, to)
  BY <1>6
<1> HIDE DEF to
<1>8. /\ Append(pen.points, to) \in Seq(Pixel) /\ Len(Append(pen.points, to)) = m + 1
      /\ \A q \in 1 .. m : Append(pen.points, to)[q] = pen.points[q]
      /\ Append(pen.points, to)[m + 1] = to
  BY <1>1, <1>5, AppendProperties DEF m
<1>9. next \in Pen
  <2>1. next \in [heading : Int, points : Seq(Pixel)]
    BY <1>2, <1>6, <1>8
  <2>2. Len(next.points) >= 1
    BY <1>1, <1>7, <1>8
  <2> QED
    BY <2>1, <2>2 DEF Pen
<1>10. Step(Direction(pen, next, rule), params) = step
  <2> HIDE DEF next
  <2> QED
    BY <1>7 DEF Direction, step
<1> HIDE DEF next
<1> QED
  BY <1>4, <1>7, <1>8, <1>9, <1>10 DEF Drew, to, m, heading, from, next

-----------------------------------------------------------------------------
(* The pens of a drawing, from the start to the end of the walk. *)
Drawing(pens, walk, params, rule) ==
    /\ pens[0] = [heading |-> params.rotation, points |-> <<<<0, 0>>>>]
    /\ \A i \in 1 .. Len(walk) : pens[i] = Draw(pens[i - 1], i, walk[i], params, rule)

(* The pen starts at the origin with one point. *)
LEMMA StartPen ==
    ASSUME NEW params \in Coral
    PROVE  LET pen == [heading |-> params.rotation, points |-> <<<<0, 0>>>>]
           IN pen \in Pen /\ Len(pen.points) = 1
<1>1. params.rotation \in Int /\ <<0, 0>> \in Pixel
  BY DEF Coral, Pixel
<1>2. <<<<0, 0>>>> \in Seq(Pixel) /\ Len(<<<<0, 0>>>>) = 1
  BY <1>1
<1> QED
  BY <1>1, <1>2 DEF Pen

(* A coral is the points of the last pen. *)
LEMMA CoralIs ==
    ASSUME NEW parity, NEW rule, NEW params \in Coral, NEW walk, walk = Walk(parity, rule),
           Len(walk) \in Nat
    PROVE  \E pens : Drawing(pens, walk, params, rule)
                     /\ CoralPath(parity, params, rule) = pens[Len(walk)].points
<1> DEFINE N == Len(walk)
           start == [heading |-> params.rotation, points |-> <<<<0, 0>>>>]
           Solves(f) == f = [i \in 0 .. N |-> IF i = 0 THEN start
                                               ELSE Draw(f[i - 1], i, walk[i], params, rule)]
           pen == CHOOSE f : Solves(f)
           step == [k \in Nat |-> [p \in Pen |-> Draw(p, k, walk[k], params, rule)]]
<1>1. CoralPath(parity, params, rule) = pen[N].points
  BY DEF CoralPath
<1>2. N \in Nat /\ start \in Pen
  BY StartPen
<1> HIDE DEF N, start
<1>3. step \in [Nat -> [Pen -> Pen]]
  <2>1. ASSUME NEW k \in Nat, NEW p \in Pen PROVE Draw(p, k, walk[k], params, rule) \in Pen
    BY DrawsOne
  <2> QED
    BY <2>1
<1>4. PICK f \in [0 .. N -> Pen] : Chain(f, start, step, N)
  <2> HIDE DEF step
  <2> QED
    BY <1>2, <1>3, ChainExists
<1>5. f[0] = start /\ \A k \in 1 .. N : f[k] = Draw(f[k - 1], k, walk[k], params, rule)
  <2>1. \A k \in 1 .. N : k - 1 \in 0 .. N /\ k \in Nat /\ f[k - 1] \in Pen
    BY <1>2
  <2> QED
    BY <1>4, <2>1 DEF Chain
<1>6. \A k \in 0 .. N : k = 0 \/ k \in 1 .. N
  BY <1>2
<1>7. Solves(f)
  BY <1>5, <1>6
<1>8. Solves(pen)
  <2> HIDE DEF Solves
  <2> QED
    BY <1>7
<1> HIDE DEF pen
<1>9. pen[0] = start /\ \A k \in 1 .. N : pen[k] = Draw(pen[k - 1], k, walk[k], params, rule)
  <2>1. 0 \in 0 .. N /\ \A k \in 1 .. N : k \in 0 .. N /\ k # 0
    BY <1>2
  <2> QED
    BY <1>8, <2>1
<1> HIDE DEF Solves
<1>10. Drawing(pen, walk, params, rule)
  BY <1>9 DEF Drawing, N, start
<1> QED
  BY <1>1, <1>10 DEF N

(* Each pen has drawn one segment more than the one before. *)
LEMMA Segment ==
    ASSUME NEW walk, Len(walk) \in Nat, NEW params \in Coral, NEW rule, NEW pens,
           Drawing(pens, walk, params, rule)
    PROVE  /\ \A k \in 0 .. Len(walk) : pens[k] \in Pen /\ Len(pens[k].points) = k + 1
           /\ \A k \in 1 .. Len(walk), q \in Nat : q >= 1 /\ q <= k =>
                 pens[k].points[q] = pens[k - 1].points[q]
<1> DEFINE N == Len(walk)
           Good(k) == pens[k] \in Pen /\ Len(pens[k].points) = k + 1
           T == {k \in Nat : k <= N => Good(k)}
<1>1. N \in Nat
  OBVIOUS
<1>2. \A k \in 1 .. N : pens[k] = Draw(pens[k - 1], k, walk[k], params, rule)
  BY DEF Drawing
<1>3. 0 \in T
  BY StartPen DEF Drawing
<1> HIDE DEF N
<1>4. ASSUME NEW k \in 1 .. N, Good(k - 1)
      PROVE  /\ Good(k)
             /\ \A q \in 1 .. k : pens[k].points[q] = pens[k - 1].points[q]
  <2> DEFINE pen == pens[k - 1]
             next == Draw(pen, k, walk[k], params, rule)
  <2>1. pen \in Pen /\ Len(pen.points) = k /\ k \in Nat
    BY <1>1, <1>4
  <2> HIDE DEF pen
  <2>2. /\ next \in Pen /\ Len(next.points) = Len(pen.points) + 1
        /\ \A q \in 1 .. Len(pen.points) : next.points[q] = pen.points[q]
    <3>1. next \in Pen /\ Drew(pen, next, params, rule)
      BY <2>1, DrawsOne
    <3> HIDE DEF next
    <3> QED
      BY <3>1 DEF Drew
  <2>3. pens[k] = next
    BY <1>2 DEF pen
  <2> HIDE DEF next
  <2> QED
    BY <2>1, <2>2, <2>3 DEF pen
<1>5. ASSUME NEW k \in Nat, k \in T
      PROVE  k + 1 \in T
  <2>1. SUFFICES ASSUME k + 1 <= N PROVE Good(k + 1)
    OBVIOUS
  <2>2. k <= N /\ k + 1 \in 1 .. N /\ (k + 1) - 1 = k
    BY <1>1, <2>1
  <2>3. Good((k + 1) - 1)
    BY <1>5, <2>2
  <2> HIDE DEF Good
  <2> QED
    BY <1>4, <2>2, <2>3
<1>6. Nat \subseteq T
  <2> HIDE DEF T
  <2> QED
    BY <1>3, <1>5, Induction
<1>7. \A k \in 0 .. N : Good(k)
  <2> HIDE DEF Good
  <2> QED
    BY <1>1, <1>6
<1>8. ASSUME NEW k \in 1 .. N, NEW q \in Nat, q >= 1, q <= k
      PROVE  pens[k].points[q] = pens[k - 1].points[q]
  <2>1. k - 1 \in 0 .. N /\ q \in 1 .. k
    BY <1>1, <1>8
  <2>2. Good(k - 1)
    BY <1>7, <2>1
  <2> HIDE DEF Good
  <2> QED
    BY <1>4, <2>1, <2>2
<1> QED
  BY <1>7, <1>8 DEF N

(* What is drawn stays. *)
LEMMA Stays ==
    ASSUME NEW walk, Len(walk) \in Nat, NEW params \in Coral, NEW rule, NEW pens,
           Drawing(pens, walk, params, rule), NEW j \in 0 .. Len(walk)
    PROVE  \A q \in 1 .. j + 1 : pens[Len(walk)].points[q] = pens[j].points[q]
<1> DEFINE N == Len(walk)
           Good(k) == \A q \in 1 .. j + 1 : pens[k].points[q] = pens[j].points[q]
           T == {k \in Nat : j <= k /\ k <= N => Good(k)}
<1>1. N \in Nat /\ j \in Nat /\ j <= N
  OBVIOUS
<1>2. \A k \in 1 .. N, q \in Nat : q >= 1 /\ q <= k => pens[k].points[q] = pens[k - 1].points[q]
  BY Segment
<1> HIDE DEF N
<1>3. 0 \in T
  BY <1>1
<1>4. ASSUME NEW k \in Nat, k \in T
      PROVE  k + 1 \in T
  <2>1. SUFFICES ASSUME j <= k + 1, k + 1 <= N PROVE Good(k + 1)
    OBVIOUS
  <2>2. CASE j = k + 1
    BY <2>2
  <2>3. CASE j # k + 1
    <3>1. j <= k /\ k <= N /\ k + 1 \in 1 .. N /\ (k + 1) - 1 = k
      BY <1>1, <2>1, <2>3
    <3>2. Good(k)
      BY <1>4, <3>1
    <3>3. \A q \in 1 .. j + 1 : q \in Nat /\ q >= 1 /\ q <= k + 1
      BY <1>1, <3>1
    <3>4. \A q \in 1 .. j + 1 : pens[k + 1].points[q] = pens[(k + 1) - 1].points[q]
      BY <1>2, <3>1, <3>3
    <3> QED
      BY <3>1, <3>2, <3>4
  <2> QED
    BY <2>2, <2>3
<1>5. Nat \subseteq T
  <2> HIDE DEF T
  <2> QED
    BY <1>3, <1>4, Induction
<1>6. Good(N)
  <2> HIDE DEF Good
  <2> QED
    BY <1>1, <1>5
<1> QED
  BY <1>6 DEF N

(* The points and the segments of a coral. *)
LEMMA CoralSegments ==
    ASSUME NEW parity, NEW rule, NEW params \in Coral, NEW walk, walk = Walk(parity, rule),
           Len(walk) \in Nat, NEW pens, Drawing(pens, walk, params, rule),
           NEW path, path = pens[Len(walk)].points
    PROVE  /\ path \in Seq(Pixel) /\ Len(path) = Len(walk) + 1
           /\ \A k \in 1 .. Len(walk) :
                 LET direction == Direction(pens[k - 1], pens[k], rule)
                 IN direction \in Int /\ Segments(path)[k] = Step(direction, params)
           /\ DOMAIN Segments(path) = 1 .. Len(walk)
<1> DEFINE N == Len(walk)
<1>1. /\ N \in Nat
      /\ \A k \in 0 .. N : pens[k] \in Pen /\ Len(pens[k].points) = k + 1
  BY Segment
<1>2. \A j \in 0 .. N : \A q \in 1 .. j + 1 : path[q] = pens[j].points[q]
  BY Stays
<1>3. \A k \in 1 .. N : pens[k] = Draw(pens[k - 1], k, walk[k], params, rule)
  BY DEF Drawing
<1>8. path = pens[N].points
  OBVIOUS
<1> HIDE DEF N
<1>4. path \in Seq(Pixel) /\ Len(path) = N + 1
  <2>1. N \in 0 .. N
    BY <1>1
  <2> QED
    BY <1>1, <1>8, <2>1 DEF Pen
<1>5. Segments(path) = [k \in 1 .. N |-> <<path[k + 1][1] - path[k][1], path[k + 1][2] - path[k][2]>>]
  <2>1. Len(path) - 1 = N
    BY <1>1, <1>4
  <2> QED
    BY <2>1 DEF Segments
<1>6. ASSUME NEW k \in 1 .. N
      PROVE  LET direction == Direction(pens[k - 1], pens[k], rule)
             IN direction \in Int /\ Segments(path)[k] = Step(direction, params)
  <2> DEFINE pen == pens[k - 1]
             next == pens[k]
             direction == Direction(pen, next, rule)
             step == Step(direction, params)
  <2>1. k - 1 \in 0 .. N /\ k \in 0 .. N /\ k \in Nat /\ (k - 1) + 1 = k /\ k >= 1
    BY <1>1
  <2>2. /\ pen \in Pen /\ Len(pen.points) = k /\ next \in Pen
        /\ next = Draw(pen, k, walk[k], params, rule)
    BY <1>1, <1>3, <2>1
  <2>3. path[k] = pen.points[k] /\ path[k + 1] = next.points[k + 1]
    <3>1. k \in 1 .. (k - 1) + 1 /\ k + 1 \in 1 .. k + 1
      BY <2>1
    <3> QED
      BY <1>2, <2>1, <3>1
  <2>4. pen.points[k] \in Pixel
    <3>1. pen.points \in Seq(Pixel) /\ k \in 1 .. Len(pen.points)
      BY <2>1, <2>2 DEF Pen
    <3> QED
      BY <3>1, ElementOfSeq
  <2>5. direction \in Int
    BY <2>2 DEF Direction, Pen
  <2> HIDE DEF pen, next
  <2>6. /\ step \in Pixel
        /\ next.points[k + 1] = <<pen.points[k][1] + step[1], pen.points[k][2] + step[2]>>
    <3>1. Drew(pen, next, params, rule)
      BY <2>1, <2>2, DrawsOne
    <3> QED
      BY <2>2, <3>1 DEF Drew
  <2>7. Segments(path)[k] = <<path[k + 1][1] - path[k][1], path[k + 1][2] - path[k][2]>>
    BY <1>5
  <2> DEFINE from == pen.points[k]
  <2> HIDE DEF step, from
  <2>8. from[1] \in Int /\ from[2] \in Int /\ step[1] \in Int /\ step[2] \in Int /\ step = <<step[1], step[2]>>
    BY <2>4, <2>6 DEF Pixel, from
  <2>9. Segments(path)[k] = <<(from[1] + step[1]) - from[1], (from[2] + step[2]) - from[2]>>
    BY <2>3, <2>6, <2>7 DEF from
  <2>10. (from[1] + step[1]) - from[1] = step[1] /\ (from[2] + step[2]) - from[2] = step[2]
    BY <2>8
  <2>11. Segments(path)[k] = step
    BY <2>8, <2>9, <2>10
  <2> QED
    BY <2>5, <2>11 DEF step, pen, next
<1>7. DOMAIN Segments(path) = 1 .. N
  BY <1>5
<1> QED
  BY <1>4, <1>6, <1>7 DEF N

Agree(walk, other, M) == \A i \in 1 .. M : walk[i] = other[i]

(* Where two walks agree, so do their pens, *)
LEMMA SamePens ==
    ASSUME NEW walk, NEW other, NEW params, NEW rule, NEW pens, NEW twin, NEW M \in Nat,
           Len(walk) \in Nat, Len(other) \in Nat, M <= Len(walk), M <= Len(other),
           Drawing(pens, walk, params, rule), Drawing(twin, other, params, rule),
           Agree(walk, other, M)
    PROVE  pens[M] = twin[M]
<1> DEFINE T == {k \in Nat : k <= M => pens[k] = twin[k]}
<1>1. 0 \in T
  BY DEF Drawing
<1>2. ASSUME NEW k \in Nat, k \in T
      PROVE  k + 1 \in T
  <2>1. SUFFICES ASSUME k + 1 <= M PROVE pens[k + 1] = twin[k + 1]
    OBVIOUS
  <2>2. /\ k <= M /\ k + 1 \in 1 .. M /\ (k + 1) - 1 = k
        /\ k + 1 \in 1 .. Len(walk) /\ k + 1 \in 1 .. Len(other)
    BY <2>1
  <2>3. /\ pens[k + 1] = Draw(pens[(k + 1) - 1], k + 1, walk[k + 1], params, rule)
        /\ twin[k + 1] = Draw(twin[(k + 1) - 1], k + 1, other[k + 1], params, rule)
    BY <2>2 DEF Drawing
  <2>4. walk[k + 1] = other[k + 1] /\ pens[k] = twin[k]
    BY <1>2, <2>2 DEF Agree
  <2> QED
    BY <2>2, <2>3, <2>4
<1>3. Nat \subseteq T
  <2> HIDE DEF T
  <2> QED
    BY <1>1, <1>2, Induction
<1> QED
  BY <1>3

(* and their headings, whatever the point of drawing. *)
LEMMA SameHeadings ==
    ASSUME NEW walk, Len(walk) \in Nat, NEW params \in Coral, NEW pens, NEW twin,
           Drawing(pens, walk, params, "rotate-after"),
           Drawing(twin, walk, params, "rotate-before")
    PROVE  \A k \in 0 .. Len(walk) : pens[k].heading = twin[k].heading
<1> DEFINE N == Len(walk)
           T == {k \in Nat : k <= N => pens[k].heading = twin[k].heading}
<1>1. 0 \in T
  BY DEF Drawing
<1>2. ASSUME NEW k \in Nat, k \in T
      PROVE  k + 1 \in T
  <2>1. SUFFICES ASSUME k + 1 <= N PROVE pens[k + 1].heading = twin[k + 1].heading
    OBVIOUS
  <2>2. k <= N /\ k \in 0 .. N /\ k + 1 \in 1 .. N /\ (k + 1) - 1 = k
    BY <2>1
  <2>3. /\ pens[k + 1] = Draw(pens[k], k + 1, walk[k + 1], params, "rotate-after")
        /\ twin[k + 1] = Draw(twin[k], k + 1, walk[k + 1], params, "rotate-before")
    BY <2>2 DEF Drawing
  <2>4. pens[k].heading = twin[k].heading
    BY <1>2, <2>2
  <2> QED
    BY <2>3, <2>4 DEF Draw, Bend
<1>3. Nat \subseteq T
  <2> HIDE DEF T
  <2> QED
    BY <1>1, <1>2, Induction
<1> QED
  BY <1>3

(* A path is inside its bounds. *)
LEMMA Box ==
    ASSUME NEW path \in Seq(Pixel), Len(path) >= 1
    PROVE  LET box == PathBounds(path)
           IN \A k \in DOMAIN path : /\ path[k][1] \in box[1] .. box[2]
                                     /\ path[k][2] \in box[3] .. box[4]
<1> DEFINE n == Len(path)
           f == [k \in 1 .. n |-> path[k][1]]
           g == [k \in 1 .. n |-> path[k][2]]
           xs == {p[1] : p \in ToSet(path)}
           ys == {p[2] : p \in ToSet(path)}
<1>1. n \in Nat /\ n >= 1 /\ DOMAIN path = 1 .. n /\ \A k \in 1 .. n : path[k] \in Pixel
  BY LenProperties, ElementOfSeq
<1>2. path # <<>>
  BY EmptySeq
<1>3. PathBounds(path) = <<Min(xs), Max(xs), Min(ys), Max(ys)>>
  BY <1>2 DEF PathBounds
<1>4. xs = {f[k] : k \in 1 .. n} /\ ys = {g[k] : k \in 1 .. n}
  BY <1>1 DEF ToSet
<1>5. \A k \in 1 .. n : f[k] = path[k][1] /\ g[k] = path[k][2]
  OBVIOUS
<1> HIDE DEF n
<1>6. f \in [1 .. n -> Int] /\ g \in [1 .. n -> Int]
  BY <1>1 DEF Pixel
<1> HIDE DEF xs, ys, f, g
<1>7. xs \subseteq Int /\ Min(xs) \in xs /\ Max(xs) \in xs /\ \A x \in xs : Min(xs) <= x /\ x <= Max(xs)
  BY <1>1, <1>4, <1>6, Extremes
<1>8. ys \subseteq Int /\ Min(ys) \in ys /\ Max(ys) \in ys /\ \A y \in ys : Min(ys) <= y /\ y <= Max(ys)
  BY <1>1, <1>4, <1>6, Extremes
<1>9. ASSUME NEW k \in 1 .. n
      PROVE  path[k][1] \in Min(xs) .. Max(xs) /\ path[k][2] \in Min(ys) .. Max(ys)
  <2>1. path[k][1] \in xs /\ path[k][2] \in ys
    BY <1>4, <1>5
  <2> QED
    <3>1. path[k][1] \in Min(xs) .. Max(xs)
      <4> DEFINE x == path[k][1]
                 a == Min(xs)
                 b == Max(xs)
      <4>1. x \in Int /\ a \in Int /\ b \in Int /\ a <= x /\ x <= b
        BY <1>7, <2>1
      <4> HIDE DEF x, a, b
      <4>2. x \in a .. b
        BY <4>1
      <4> QED
        BY <4>2 DEF x, a, b
    <3>2. path[k][2] \in Min(ys) .. Max(ys)
      <4> DEFINE y == path[k][2]
                 a == Min(ys)
                 b == Max(ys)
      <4>1. y \in Int /\ a \in Int /\ b \in Int /\ a <= y /\ y <= b
        BY <1>8, <2>1
      <4> HIDE DEF y, a, b
      <4>2. y \in a .. b
        BY <4>1
      <4> QED
        BY <4>2 DEF y, a, b
    <3> QED
      BY <3>1, <3>2
<1> QED
  BY <1>1, <1>3, <1>9

(* The aesthetic path of the end of a sequence begins the whole's.         *)
LEMMA Trunk ==
    ASSUME NEW parity \in Seq(Bit), NEW params \in Coral, NEW k \in 1 .. Len(parity)
    PROVE  IsPrefix(CoralPath(SubSeq(parity, k, Len(parity)), params, "aesthetic"),
                    CoralPath(parity, params, "aesthetic"))
<1> DEFINE N == Len(parity)
           M == (N - k) + 1
           sub == SubSeq(parity, k, N)
           walk == Reverse(parity)
           branch == Reverse(sub)
           whole == CoralPath(parity, params, "aesthetic")
           part == CoralPath(sub, params, "aesthetic")
<1>1. N \in Nat /\ k \in Nat /\ M \in Nat /\ M <= N /\ \A i \in 1 .. N : parity[i] \in Bit
  BY LenProperties, ElementOfSeq
<1>2. Len(sub) = M /\ \A i \in 1 .. M : sub[i] = parity[k + i - 1]
  <2>1. /\ Len(sub) = IF k <= N THEN N - k + 1 ELSE 0
        /\ \A i \in 1 .. N - k + 1 : sub[i] = parity[k + i - 1]
    <3>1. k \in Int /\ N \in Int /\ \A i \in k .. N : parity[i] \in Bit
      BY <1>1
    <3> QED
      BY <3>1, SubSeqProperties
  <2>2. k <= N
    OBVIOUS
  <2> QED
    BY <2>1, <2>2
<1> HIDE DEF N, M, sub
<1>3. /\ walk = [i \in 1 .. N |-> parity[(N - i) + 1]]
      /\ branch = [i \in 1 .. M |-> sub[(M - i) + 1]]
  BY <1>2 DEF Reverse, N
<1>4. Len(walk) = N /\ Len(branch) = M
  BY <1>1, <1>3
<1>5. \A i \in 1 .. M : walk[i] = branch[i]
  <2>1. SUFFICES ASSUME NEW i \in 1 .. M PROVE walk[i] = branch[i]
    OBVIOUS
  <2>2. i \in 1 .. N /\ (M - i) + 1 \in 1 .. M /\ k + ((M - i) + 1) - 1 = (N - i) + 1
    BY <1>1 DEF M
  <2>3. branch[i] = parity[k + ((M - i) + 1) - 1]
    BY <1>2, <1>3, <2>2
  <2> QED
    BY <1>3, <2>2, <2>3
<1> HIDE DEF walk, branch
<1>6. walk = Walk(parity, "aesthetic") /\ branch = Walk(sub, "aesthetic")
  BY DEF Walk, walk, branch
<1>7. PICK pens : Drawing(pens, walk, params, "aesthetic") /\ whole = pens[Len(walk)].points
  <2>1. Len(walk) \in Nat
    BY <1>1, <1>4
  <2> QED
    BY <1>6, <2>1, CoralIs, SMTT(30)
<1>8. PICK twin : Drawing(twin, branch, params, "aesthetic") /\ part = twin[Len(branch)].points
  <2>1. Len(branch) \in Nat
    BY <1>1, <1>4
  <2> QED
    BY <1>6, <2>1, CoralIs
<1> HIDE DEF whole, part
<1>9. pens[M] = twin[M]
  <2>1. Len(walk) \in Nat /\ Len(branch) \in Nat /\ M <= Len(walk) /\ M <= Len(branch)
    BY <1>1, <1>4
  <2> QED
    <3>1. M \in Nat
      BY <1>1
    <3>2. Agree(walk, branch, M)
      BY <1>5 DEF Agree
    <3> QED
      BY <1>7, <1>8, <2>1, <3>1, <3>2, SamePens
<1>10. part = pens[M].points
  BY <1>4, <1>8, <1>9
<1>11. \A q \in 1 .. M + 1 : whole[q] = part[q]
  <2>1. Len(walk) \in Nat /\ M \in 0 .. Len(walk)
    BY <1>1, <1>4
  <2>2. \A q \in 1 .. M + 1 : pens[Len(walk)].points[q] = pens[M].points[q]
    BY <1>7, <2>1, Stays
  <2> QED
    BY <1>7, <1>10, <2>2
<1>12. whole \in Seq(Pixel) /\ Len(whole) = N + 1
  <2>1. Len(walk) \in Nat
    BY <1>1, <1>4
  <2>2. whole \in Seq(Pixel) /\ Len(whole) = Len(walk) + 1
    BY <1>6, <1>7, <2>1, CoralSegments
  <2> QED
    BY <1>4, <2>2
<1>13. part \in Seq(Pixel) /\ Len(part) = M + 1
  <2>1. Len(branch) \in Nat
    BY <1>1, <1>4
  <2>2. part \in Seq(Pixel) /\ Len(part) = Len(branch) + 1
    BY <1>6, <1>8, <2>1, CoralSegments
  <2> QED
    BY <1>4, <2>2
<1>14. SubSeq(part, 1, Len(part)) = part
  BY <1>13, SubSeqFull
<1> DEFINE head == SubSeq(whole, 1, M + 1)
<1>15. head \in Seq(Pixel) /\ Len(head) = M + 1 /\ \A i \in 1 .. M + 1 : head[i] = whole[i]
  <2>1. \A i \in 1 .. M + 1 : whole[i] \in Pixel
    <3>1. \A i \in 1 .. M + 1 : i \in 1 .. Len(whole)
      BY <1>1, <1>12
    <3> QED
      BY <1>12, <3>1, ElementOfSeq
  <2>2. /\ head \in Seq(Pixel)
        /\ Len(head) = IF 1 <= M + 1 THEN (M + 1) - 1 + 1 ELSE 0
        /\ \A i \in 1 .. (M + 1) - 1 + 1 : head[i] = whole[1 + i - 1]
    <3>1. 1 \in Int /\ M + 1 \in Int
      BY <1>1
    <3> QED
      BY <2>1, <3>1, SubSeqProperties
  <2> HIDE DEF head
  <2>3. (M + 1) - 1 + 1 = M + 1 /\ 1 <= M + 1 /\ \A i \in 1 .. M + 1 : 1 + i - 1 = i
    BY <1>1
  <2> QED
    BY <2>2, <2>3
<1> HIDE DEF head
<1>16. head = part
  BY <1>11, <1>13, <1>15, SeqEqual
<1>17. Len(part) <= Len(whole) /\ SubSeq(part, 1, Len(part)) = SubSeq(whole, 1, Len(part))
  BY <1>1, <1>12, <1>13, <1>14, <1>16 DEF head
<1>18. IsPrefix(part, whole)
  BY <1>17 DEF IsPrefix
<1> QED
  BY <1>18 DEF part, whole, sub, N

(* Whatever the rule, a coral is one segment per bit, inside its bounds. *)
LEMMA CoralsStay ==
    ASSUME NEW parity \in Parities, NEW params \in Corals, NEW rule
    PROVE  LET path == CoralPath(parity, params, rule)
               segments == Segments(path)
               before == Segments(CoralPath(parity, params, "rotate-before"))
               box == PathBounds(path)
           IN /\ Len(path) = Len(parity) + 1
              /\ \A k \in DOMAIN segments :
                    SquaredLength(segments[k]) = params.lineLength * params.lineLength
              /\ \A k \in DOMAIN path : /\ path[k][1] \in box[1] .. box[2]
                                        /\ path[k][2] \in box[3] .. box[4]
              /\ rule = "aesthetic" =>
                    \A k \in 1 .. Len(parity) :
                        IsPrefix(CoralPath(SubSeq(parity, k, Len(parity)), params, "aesthetic"), path)
              /\ rule = "rotate-after" =>
                    \A k \in 2 .. Len(segments) : segments[k] = before[k - 1]
<1> DEFINE N == Len(parity)
           walk == Walk(parity, rule)
           path == CoralPath(parity, params, rule)
           segments == Segments(path)
           before == Segments(CoralPath(parity, params, "rotate-before"))
<1>1. parity \in Seq(Bit) /\ params \in Coral /\ N \in Nat
  <2>1. parity \in Seq(Bit) /\ params \in Coral
    BY PictureAssumption DEF Bit, Coral
  <2> QED
    BY <2>1, LenProperties
<1>2. Len(walk) = N
  <2>1. Len(Reverse(parity)) = N
    BY <1>1 DEF Reverse
  <2> QED
    BY <2>1 DEF Walk
<1> HIDE DEF N
<1>3. PICK pens : Drawing(pens, walk, params, rule) /\ path = pens[Len(walk)].points
  <2>1. Len(walk) \in Nat
    BY <1>1, <1>2
  <2> QED
    BY <1>1, <2>1, CoralIs
<1> HIDE DEF walk, path
<1>4. /\ path \in Seq(Pixel) /\ Len(path) = N + 1
      /\ \A k \in 1 .. N :
            /\ Direction(pens[k - 1], pens[k], rule) \in Int
            /\ segments[k] = Step(Direction(pens[k - 1], pens[k], rule), params)
      /\ DOMAIN segments = 1 .. N
  <2>1. Len(walk) \in Nat /\ walk = Walk(parity, rule)
    BY <1>1, <1>2 DEF walk
  <2>2. /\ path \in Seq(Pixel) /\ Len(path) = Len(walk) + 1
        /\ \A k \in 1 .. Len(walk) :
              LET direction == Direction(pens[k - 1], pens[k], rule)
              IN direction \in Int /\ Segments(path)[k] = Step(direction, params)
        /\ DOMAIN Segments(path) = 1 .. Len(walk)
    BY <1>1, <1>3, <2>1, CoralSegments
  <2> QED
    BY <1>2, <2>2
<1> HIDE DEF segments
<1>5. \A k \in DOMAIN segments : SquaredLength(segments[k]) = params.lineLength * params.lineLength
  BY <1>1, <1>4, UnitSteps
<1>6. LET box == PathBounds(path)
      IN \A k \in DOMAIN path : path[k][1] \in box[1] .. box[2] /\ path[k][2] \in box[3] .. box[4]
  <2>1. Len(path) >= 1
    BY <1>1, <1>4
  <2> QED
    BY <1>4, <2>1, Box
<1>7. ASSUME rule = "aesthetic", NEW k \in 1 .. Len(parity)
      PROVE  IsPrefix(CoralPath(SubSeq(parity, k, Len(parity)), params, "aesthetic"), path)
  BY <1>1, <1>7, Trunk DEF path
<1>8. ASSUME rule = "rotate-after", NEW k \in 2 .. Len(segments)
      PROVE  segments[k] = before[k - 1]
  <2>1. walk = parity /\ Walk(parity, "rotate-before") = parity
    BY <1>8 DEF Walk, walk
  <2>2. Len(parity) \in Nat
    BY <1>1 DEF N
  <2> DEFINE other == CoralPath(parity, params, "rotate-before")
  <2>3. PICK twin : Drawing(twin, parity, params, "rotate-before") /\ other = twin[Len(parity)].points
    BY <1>1, <2>1, <2>2, CoralIs
  <2> HIDE DEF other
  <2>4. \A j \in 1 .. N :
           /\ Direction(twin[j - 1], twin[j], "rotate-before") \in Int
           /\ Segments(other)[j] = Step(Direction(twin[j - 1], twin[j], "rotate-before"), params)
    BY <1>1, <2>1, <2>2, <2>3, CoralSegments DEF N
  <2>5. \A j \in 0 .. N : pens[j].heading = twin[j].heading
    BY <1>1, <1>3, <1>8, <2>1, <2>2, <2>3, SameHeadings DEF N
  <2>6. k \in 1 .. N /\ k - 1 \in 1 .. N /\ k - 1 \in 0 .. N
    <3>1. Len(segments) = N
      <4>1. segments = [j \in 1 .. N |-> segments[j]]
        <5>1. Len(path) - 1 = N
          BY <1>1, <1>4
        <5> QED
          BY <5>1 DEF segments, Segments
      <4> QED
        BY <1>1, <4>1
    <3> QED
      BY <1>1, <3>1
  <2>7. segments[k] = Step(pens[k - 1].heading, params)
    BY <1>4, <1>8, <2>6 DEF Direction
  <2>8. before[k - 1] = Step(twin[k - 1].heading, params)
    BY <2>4, <2>6 DEF Direction, other
  <2> QED
    BY <2>5, <2>6, <2>7, <2>8
<1> QED
  BY <1>4, <1>5, <1>6, <1>7, <1>8 DEF N, segments, path

(* The smaller and the larger of two. *)
LEMMA OfTwo ==
    ASSUME NEW a \in Int, NEW b \in Int
    PROVE  /\ Min({a, b}) = IF a <= b THEN a ELSE b
           /\ Max({a, b}) = IF a >= b THEN a ELSE b
<1>1. \E x \in {a, b} : \A y \in {a, b} : x <= y
  OBVIOUS
<1>2. Min({a, b}) \in {a, b} /\ \A y \in {a, b} : Min({a, b}) <= y
  BY <1>1 DEF Min
<1>3. \E x \in {a, b} : \A y \in {a, b} : x >= y
  OBVIOUS
<1>4. Max({a, b}) \in {a, b} /\ \A y \in {a, b} : Max({a, b}) >= y
  BY <1>3 DEF Max
<1>5. Min({a, b}) = IF a <= b THEN a ELSE b
  BY <1>2
<1>6. Max({a, b}) = IF a >= b THEN a ELSE b
  BY <1>4
<1> QED
  BY <1>5, <1>6

(* A cell shows a list up to its sixtieth item and counts the others.      *)
LEMMA CellsAccount ==
    ASSUME NEW S, NEW v \in Seq(S)
    PROVE  Len(SubSeq(v, 1, Min({MaxArrayItems, Len(v)}))) + Max({0, Len(v) - MaxArrayItems}) = Len(v)
<1> DEFINE n == Len(v)
           least == Min({MaxArrayItems, n})
           most == Max({0, n - MaxArrayItems})
<1>1. n \in Nat /\ \A i \in 1 .. n : v[i] \in S
  BY LenProperties, ElementOfSeq
<1> HIDE DEF n
<1>2. least = IF 60 <= n THEN 60 ELSE n
  BY <1>1, OfTwo DEF MaxArrayItems
<1>3. most = IF 0 >= n - 60 THEN 0 ELSE n - 60
  <2> DEFINE d == n - 60
  <2>1. d \in Int /\ 0 \in Int
    BY <1>1
  <2>2. most = Max({0, d})
    BY DEF MaxArrayItems
  <2> HIDE DEF d, most
  <2>3. most = IF 0 >= d THEN 0 ELSE d
    BY <2>1, <2>2, OfTwo
  <2> QED
    BY <2>3 DEF d
<1> HIDE DEF least, most
<1>4. Len(SubSeq(v, 1, least)) = least
  <2>1. least \in Nat /\ least <= n
    BY <1>1, <1>2
  <2>2. \A i \in 1 .. least : v[i] \in S
    BY <1>1, <2>1
  <2>3. Len(SubSeq(v, 1, least)) = IF 1 <= least THEN least - 1 + 1 ELSE 0
    BY <2>1, <2>2, SubSeqProperties
  <2> QED
    BY <2>1, <2>3
<1>5. least + most = n
  BY <1>1, <1>2, <1>3
<1> QED
  BY <1>4, <1>5 DEF n, least, most

(* An export loses and adds nothing. *)
LEMMA ExportsTruly ==
    ASSUME NEW system \in DOMAIN Multiplier, NEW n \in Starts \cup Refused, NEW limit \in Limits
    PROVE  LET t == Candidate(system, n, limit)
               metadata == ExportMetadata(t, limit, <<>>)
               dataset == DatasetMetadata(<<"dataset", t.initial_state>>, limit)
               rows == ToCsv(t, metadata).rows
               cells == [key \in ToSet(MetricsTable) |-> FormatMetric(t, key)]
           IN /\ RequiredMetadataFields = DOMAIN metadata
              /\ DOMAIN dataset = DOMAIN metadata
              /\ [i \in DOMAIN rows |-> rows[i][2]] = t.states
              /\ Accounted(t, cells)
              /\ t.status = "SystemError" <=>
                    \A key \in DOMAIN cells : cells[key] = [wording |-> "Metric Not Supported"]
<1> DEFINE t == Candidate(system, n, limit)
           metadata == ExportMetadata(t, limit, <<>>)
           dataset == DatasetMetadata(<<"dataset", t.initial_state>>, limit)
           rows == ToCsv(t, metadata).rows
           cells == [key \in ToSet(MetricsTable) |-> FormatMetric(t, key)]
<1>1. RequiredMetadataFields = DOMAIN metadata /\ DOMAIN dataset = DOMAIN metadata
  BY DEF RequiredMetadataFields, ExportMetadata, DatasetMetadata, BuildMetadata
<1>2. ToSet(MetricsTable) =
         {"stopping_time", "total_stopping_time", "peak_value", "peak_index", "maximum_bit_length",
          "odd_count", "even_count", "odd_ratio", "even_ratio", "average_growth", "average_decline",
          "parity_sequence", "bit_length_evolution", "binary_transition_statistics",
          "run_length_statistics"}
  <2>1. DOMAIN MetricsTable = 1 .. 15
    BY DEF MetricsTable
  <2>2. ToSet(MetricsTable) = {MetricsTable[i] : i \in 1 .. 15}
    BY <2>1 DEF ToSet
  <2> QED
    BY <2>2 DEF MetricsTable
<1>3. DOMAIN cells = ToSet(MetricsTable)
      /\ \A key \in ToSet(MetricsTable) : cells[key] = FormatMetric(t, key)
  OBVIOUS
<1>4. limit \in Nat /\ (n \notin Refused => n \in Positive)
  BY RunAssumption DEF Positive
<1>5. CASE n \in Refused
  <2>1. t.status = "SystemError" /\ t.states = <<n>> /\ t.metrics = [key \in {} |-> NA]
    BY <1>5 DEF Candidate, SystemError
  <2>2. DOMAIN t.metrics = {}
    BY <2>1
  <2>3. \A key : FormatMetric(t, key) = [wording |-> "Metric Not Supported"]
    BY <2>2 DEF FormatMetric
  <2> HIDE DEF t
  <2>4. [i \in DOMAIN rows |-> rows[i][2]] = t.states
    <3>1. rows = [i \in DOMAIN t.states |->
                    <<i - 1, t.states[i],
                      CsvCell(IF "bit_length_evolution" \in DOMAIN t.metrics
                              THEN t.metrics["bit_length_evolution"] ELSE <<>>, i),
                      CsvCell(IF "parity_sequence" \in DOMAIN t.metrics
                              THEN t.metrics["parity_sequence"] ELSE <<>>, i)>>]
      BY DEF ToCsv
    <3> HIDE DEF rows
    <3>2. DOMAIN rows = DOMAIN t.states /\ \A i \in DOMAIN t.states : rows[i][2] = t.states[i]
      BY <3>1
    <3>3. t.states = [i \in DOMAIN t.states |-> t.states[i]]
      BY <2>1
    <3> QED
      BY <3>2, <3>3
  <2> HIDE DEF cells
  <2>5. Accounted(t, cells)
    BY <2>2 DEF Accounted
  <2>6. \A key \in DOMAIN cells : cells[key] = [wording |-> "Metric Not Supported"]
    BY <1>3, <2>3
  <2> HIDE DEF metadata, dataset
  <2> QED
    BY <1>1, <2>1, <2>4, <2>5, <2>6 DEF cells, metadata, dataset, t
<1>6. CASE n \notin Refused
  <2> DEFINE s == t.states
             m == Metrics(s)
  <2>1. t = Finished(system, n, limit) /\ n \in Positive
    BY <1>4, <1>6 DEF Candidate
  <2> HIDE DEF t
  <2>2. /\ Trail(system, n, limit, s) /\ Len(s) >= 2
        /\ t.metrics = m /\ t.status # "SystemError"
    BY <1>4, <2>1, FinishedRuns
  <2>3. [i \in DOMAIN rows |-> rows[i][2]] = s
    <3>1. rows = [i \in DOMAIN t.states |->
                    <<i - 1, t.states[i],
                      CsvCell(IF "bit_length_evolution" \in DOMAIN t.metrics
                              THEN t.metrics["bit_length_evolution"] ELSE <<>>, i),
                      CsvCell(IF "parity_sequence" \in DOMAIN t.metrics
                              THEN t.metrics["parity_sequence"] ELSE <<>>, i)>>]
      BY DEF ToCsv
    <3> HIDE DEF rows
    <3>2. DOMAIN rows = DOMAIN s /\ \A i \in DOMAIN s : rows[i][2] = s[i]
      BY <3>1
    <3>3. s = [i \in DOMAIN s |-> s[i]]
      BY <2>2 DEF Trail
    <3> HIDE DEF s
    <3> QED
      BY <3>2, <3>3
  <2> HIDE DEF s
  <2>4. /\ m.parity_sequence = Parity(s) /\ m.bit_length_evolution = BitLengths(s)
        /\ m.run_length_statistics = RunLengths(Parity(s))
        /\ "parity_sequence" \in DOMAIN m
    BY DEF Metrics
  <2> HIDE DEF m
  <2>5. ASSUME NEW key \in Lists PROVE m[key] \in Seq(Nat)
    <3>1. Parity(s) \in Seq(Nat) /\ RunLengths(Parity(s)) \in Seq(Nat)
      <4>1. Parity(s) \in Seq(Bit) /\ RunLengths(Parity(s)) \in Seq(Nat)
        BY <2>2, ParityOfTrail, RunsUnroll
      <4>2. Bit \subseteq Nat
        BY DEF Bit
      <4> QED
        BY <4>1, <4>2, SeqMonotonic
    <3>2. BitLengths(s) \in Seq(Nat)
      <4>1. /\ Len(s) \in Nat /\ \A i \in 1 .. Len(s) : s[i] \in Nat
            /\ BitLengths(s) = [i \in 1 .. Len(s) |-> Bits[s[i]]]
        BY <2>2, TrailIndices DEF Positive
      <4>2. BitLengths(s) \in [1 .. Len(s) -> Nat]
        BY <4>1, BitLength
      <4> QED
        BY <4>1, <4>2, Tabled
    <3> QED
      BY <2>4, <3>1, <3>2 DEF Lists
  <2>6. ASSUME NEW key \in Lists, key \in DOMAIN m
        PROVE  FormatMetric(t, key) =
                  [value |-> SubSeq(m[key], 1, Min({MaxArrayItems, Len(m[key])})),
                   hidden |-> Max({0, Len(m[key]) - MaxArrayItems})]
    BY <2>2, <2>6 DEF FormatMetric
  <2>7. Lists \subseteq ToSet(MetricsTable)
    BY <1>2 DEF Lists
  <2>8. ASSUME NEW key \in Lists, key \in DOMAIN m
        PROVE  Len(cells[key].value) + cells[key].hidden = Len(m[key])
    <3>1. cells[key] = FormatMetric(t, key)
      BY <2>7
    <3> HIDE DEF cells
    <3> DEFINE v == SubSeq(m[key], 1, Min({MaxArrayItems, Len(m[key])}))
               h == Max({0, Len(m[key]) - MaxArrayItems})
    <3>2. cells[key] = [value |-> v, hidden |-> h]
      BY <2>6, <2>8, <3>1
    <3> HIDE DEF v, h
    <3>3. cells[key].value = v /\ cells[key].hidden = h
      BY <3>2
    <3> USE DEF v, h
    <3> QED
      BY <2>5, <2>8, <3>3, CellsAccount
  <2>9. cells["parity_sequence"] # [wording |-> "Metric Not Supported"]
    <3>1. "parity_sequence" \in Lists /\ "parity_sequence" \in ToSet(MetricsTable)
      BY <1>2 DEF Lists
    <3>2. cells["parity_sequence"] = FormatMetric(t, "parity_sequence")
      BY <3>1
    <3> HIDE DEF cells
    <3>3. \E v, h : cells["parity_sequence"] = [value |-> v, hidden |-> h]
      BY <2>4, <2>6, <3>1, <3>2
    <3>4. \A v, h : [value |-> v, hidden |-> h] # [wording |-> "Metric Not Supported"]
      OBVIOUS
    <3> QED
      BY <3>3, <3>4
  <2>10. Accounted(t, cells)
    <3> HIDE DEF cells
    <3> QED
      BY <2>2, <2>8 DEF Accounted
  <2>11. "parity_sequence" \in DOMAIN cells
    BY <1>2
  <2> HIDE DEF cells, rows, metadata, dataset
  <2> QED
    BY <1>1, <2>2, <2>3, <2>9, <2>10, <2>11 DEF s, t, cells, rows, metadata, dataset
<1> QED
  BY <1>5, <1>6

-----------------------------------------------------------------------------
(* The canvas, SVG, comparison, coral and CSV code, whatever the values and *)
(* the sizes: drawings stay in their frames in the order of their values,  *)
(* corals have one segment per bit, normalized columns spread over the     *)
(* scale, and an export carries every state under complete metadata.       *)
THEOREM PicturesAreTrue == PicturesSpec => []PicturesStayTrue
<1>1. PicturesInit => PicturesStayTrue
  BY DEF PicturesInit, PicturesStayTrue, None
<1>2. ASSUME PicturesStayTrue, [PicturesNext]_call
      PROVE  PicturesStayTrue'
  <2>1. ASSUME NEW values \in Series, NEW scale \in {"linear", "log"}, NEW size \in Canvases,
               Draws(values, scale, size)
        PROVE  PicturesStayTrue'
    <3>1. /\ call'.op = "draw" /\ call'.values = values /\ call'.size = size
          /\ call'.canvas = DrawTrajectory(values, scale, size[1], size[2])
          /\ call'.svg = ToSvg(values, scale, size[1], size[2])
      BY <2>1 DEF Draws
    <3>2. /\ Inside(call'.canvas, Frame(size[1], size[2], 10, 14))
          /\ Inside(call'.svg, Frame(size[1], size[2], 24, 24))
          /\ Keeps(values, call'.canvas) /\ Keeps(values, call'.svg)
      BY <3>1, DrawsStay
    <3> QED
      BY <3>1, <3>2 DEF PicturesStayTrue
  <2>2. ASSUME NEW pair \in Series \X Series, NEW mode \in {"raw", "log", "normalized"},
               NEW size \in Canvases, Overlays(pair, mode, size)
        PROVE  PicturesStayTrue'
    <3>1. /\ call'.op = "overlay" /\ call'.series = pair /\ call'.mode = mode /\ call'.size = size
          /\ call'.out = DrawOverlay(pair, mode, size[1], size[2])
      BY <2>2 DEF Overlays
    <3>2. \A k \in DOMAIN call'.out :
             /\ Inside(call'.out[k], Frame(size[1], size[2], 10, 14))
             /\ mode # "normalized" => Keeps(pair[k], call'.out[k])
      BY <3>1, OverlaysStay, SMTT(30)
    <3>3. ASSUME NEW k \in DOMAIN call'.out, ~ (ToSet(pair[k]) \subseteq {NA}),
                 \A j \in DOMAIN call'.out \ {k} : Undrawn(pair[j])
          PROVE  call'.out[k] = DrawnAlone(pair[k], mode, size)
      <4> DEFINE out == DrawOverlay(pair, mode, size[1], size[2])
      <4>1. call'.out = out
        BY <3>1
      <4>2. Apart(pair, mode, size, out)
        BY OverlaysApart
      <4> HIDE DEF out
      <4> QED
        BY <3>3, <4>1, <4>2 DEF Apart
    <3> QED
      BY <3>1, <3>2, <3>3 DEF PicturesStayTrue
  <2>3. ASSUME NEW parity \in Parities, NEW params \in Corals, NEW rule \in DirectionRules,
               Grows(parity, params, rule)
        PROVE  PicturesStayTrue'
    <3>1. /\ call'.op = "coral" /\ call'.parity = parity /\ call'.params = params
          /\ call'.rule = rule /\ call'.out = CoralPath(parity, params, rule)
      BY <2>3 DEF Grows
    <3>2. LET segments == Segments(call'.out)
              before == Segments(CoralPath(parity, params, "rotate-before"))
              box == PathBounds(call'.out)
          IN /\ Len(call'.out) = Len(parity) + 1
             /\ \A k \in DOMAIN segments :
                   SquaredLength(segments[k]) = params.lineLength * params.lineLength
             /\ \A k \in DOMAIN call'.out : /\ call'.out[k][1] \in box[1] .. box[2]
                                            /\ call'.out[k][2] \in box[3] .. box[4]
             /\ rule = "aesthetic" =>
                   \A k \in 1 .. Len(parity) :
                       IsPrefix(CoralPath(SubSeq(parity, k, Len(parity)), params, "aesthetic"),
                                call'.out)
             /\ rule = "rotate-after" =>
                   \A k \in 2 .. Len(segments) : segments[k] = before[k - 1]
      BY <3>1, CoralsStay
    <3> QED
      BY <3>1, <3>2 DEF PicturesStayTrue
  <2>4. ASSUME NEW system \in DOMAIN Multiplier, NEW limit \in Limits, NEW list \in Comparisons,
               Compares(system, list, limit)
        PROVE  PicturesStayTrue'
    <3> DEFINE vectors == [k \in DOMAIN list |-> FeatureVector(Candidate(system, list[k], limit))]
    <3>1. /\ call'.op = "compare" /\ call'.list = list /\ call'.vectors = vectors
          /\ call'.out = MinMaxNormalizeSet(vectors)
          /\ call'.similarity = SimilarityMatrix(vectors)
      BY <2>4 DEF Compares
    <3>2. /\ \A i \in DOMAIN ComparisonFeatures :
                ColumnIsSpread(Column(MinMaxNormalizeSet(vectors), i))
          /\ \A i, j \in DOMAIN vectors :
                /\ SimilarityMatrix(vectors)[i][j] = SimilarityMatrix(vectors)[j][i]
                /\ list[i] \in Refused => SimilarityMatrix(vectors)[i][j].dot = 0
                /\ vectors[i] = vectors[j] =>
                      SimilarityMatrix(vectors)[i][j].norms = {SimilarityMatrix(vectors)[i][j].dot}
      BY ComparesTruly
    <3> HIDE DEF vectors
    <3> QED
      BY <3>1, <3>2 DEF PicturesStayTrue
  <2>5. ASSUME NEW system \in DOMAIN Multiplier, NEW limit \in Limits, NEW n \in Starts \cup Refused,
               Exports(Candidate(system, n, limit), limit)
        PROVE  PicturesStayTrue'
    <3> DEFINE t == Candidate(system, n, limit)
               metadata == ExportMetadata(t, limit, <<>>)
               dataset == DatasetMetadata(<<"dataset", t.initial_state>>, limit)
               out == ToCsv(t, metadata)
               cells == [key \in ToSet(MetricsTable) |-> FormatMetric(t, key)]
    <3>1. /\ call'.op = "csv" /\ call'.of = t /\ call'.metadata = metadata
          /\ call'.out = out /\ call'.dataset = dataset /\ call'.cells = cells
      BY <2>5 DEF Exports
    <3>2. /\ RequiredMetadataFields = DOMAIN metadata /\ DOMAIN dataset = DOMAIN metadata
          /\ [i \in DOMAIN out.rows |-> out.rows[i][2]] = t.states
          /\ Accounted(t, cells)
          /\ t.status = "SystemError" <=>
                \A key \in DOMAIN cells : cells[key] = [wording |-> "Metric Not Supported"]
      BY ExportsTruly
    <3> HIDE DEF t, metadata, dataset, out, cells
    <3> QED
      BY <3>1, <3>2 DEF PicturesStayTrue
  <2>6. CASE UNCHANGED call
    BY <1>2, <2>6, ZenonT(60) DEF PicturesStayTrue
  <2> QED
    BY <1>2, <2>1, <2>2, <2>3, <2>4, <2>5, <2>6 DEF PicturesNext, Charts, Tables
<1> QED
  BY <1>1, <1>2, PTL DEF PicturesSpec

-----------------------------------------------------------------------------
(* Files: what stands where, and the loops that read them.                 *)

(* The part of a file that begins after its first o bytes. *)
Stands(part, file, o) ==
    /\ o + Len(part) <= Len(file)
    /\ \A i \in 1 .. Len(part) : file[o + i] = part[i]

(* A file stands where it begins. *)
LEMMA WholeStands ==
    ASSUME NEW S, NEW file \in Seq(S)
    PROVE  Stands(file, file, 0)
<1>1. Len(file) \in Nat
  BY LenProperties
<1> QED
  BY <1>1 DEF Stands

(* Two parts in a row stand where their concatenation does. *)
LEMMA PartsStand ==
    ASSUME NEW S, NEW a \in Seq(S), NEW b \in Seq(S), NEW file \in Seq(S), NEW o \in Nat
    PROVE  Stands(a \o b, file, o) <=> Stands(a, file, o) /\ Stands(b, file, o + Len(a))
<1> DEFINE n == Len(a)
           m == Len(b)
           c == a \o b
<1>1. /\ n \in Nat /\ m \in Nat /\ Len(file) \in Nat /\ Len(c) = n + m
      /\ \A i \in 1 .. n + m : c[i] = IF i <= n THEN a[i] ELSE b[i - n]
  BY LenProperties, ConcatProperties
<1> HIDE DEF n, m, c
<1>2. ASSUME Stands(c, file, o)
      PROVE  Stands(a, file, o) /\ Stands(b, file, o + n)
  <2>1. ASSUME NEW i \in 1 .. n PROVE file[o + i] = a[i]
    <3>1. i \in 1 .. n + m /\ i <= n
      BY <1>1
    <3> QED
      BY <1>1, <1>2, <3>1 DEF Stands
  <2>2. ASSUME NEW i \in 1 .. m PROVE file[o + n + i] = b[i]
    <3>1. n + i \in 1 .. n + m /\ ~ (n + i <= n) /\ (n + i) - n = i /\ o + (n + i) = o + n + i
      BY <1>1
    <3>2. file[o + (n + i)] = c[n + i] /\ c[n + i] = b[(n + i) - n]
      BY <1>1, <1>2, <3>1 DEF Stands
    <3> QED
      BY <3>1, <3>2
  <2>3. o + n <= Len(file) /\ o + n + m <= Len(file)
    BY <1>1, <1>2 DEF Stands
  <2> QED
    BY <2>1, <2>2, <2>3 DEF Stands, n, m
<1>3. ASSUME Stands(a, file, o), Stands(b, file, o + n)
      PROVE  Stands(c, file, o)
  <2>1. ASSUME NEW i \in 1 .. n + m PROVE file[o + i] = c[i]
    <3>1. CASE i <= n
      <4>1. i \in 1 .. n
        BY <3>1
      <4> QED
        BY <1>1, <1>3, <3>1, <4>1 DEF Stands, n
    <3>2. CASE ~ (i <= n)
      <4>1. i - n \in 1 .. m /\ o + n + (i - n) = o + i
        BY <1>1, <3>2
      <4>2. file[o + n + (i - n)] = b[i - n]
        BY <1>3, <4>1 DEF Stands, m
      <4> QED
        BY <1>1, <3>2, <4>1, <4>2
    <3> QED
      BY <3>1, <3>2
  <2>2. o + (n + m) <= Len(file)
    <3>1. o + n + m <= Len(file)
      BY <1>3 DEF Stands, m
    <3> QED
      BY <1>1, <3>1
  <2> QED
    BY <1>1, <2>1, <2>2 DEF Stands
<1> QED
  BY <1>2, <1>3 DEF c, n

(* What stands somewhere is read from there, *)
LEMMA ReadsWhatStands ==
    ASSUME NEW S, NEW part \in Seq(S), NEW file \in Seq(S), NEW o \in Nat, Stands(part, file, o)
    PROVE  SubSeq(file, o + 1, o + Len(part)) = part
<1> DEFINE n == Len(part)
           s == SubSeq(file, o + 1, o + n)
<1>1. n \in Nat /\ Len(file) \in Nat /\ \A i \in 1 .. Len(file) : file[i] \in S
  BY LenProperties, ElementOfSeq
<1>2. \A i \in o + 1 .. o + n : file[i] \in S
  <2>1. o + n <= Len(file)
    BY DEF Stands
  <2> QED
    BY <1>1, <2>1
<1>3. /\ s \in Seq(S)
      /\ Len(s) = IF o + 1 <= o + n THEN (o + n) - (o + 1) + 1 ELSE 0
      /\ \A i \in 1 .. (o + n) - (o + 1) + 1 : s[i] = file[o + 1 + i - 1]
  <2> HIDE DEF n
  <2> QED
    BY <1>1, <1>2, SubSeqProperties
<1> HIDE DEF s
<1>4. Len(s) = n
  BY <1>1, <1>3
<1>5. ASSUME NEW i \in 1 .. n PROVE s[i] = part[i]
  <2>1. i \in 1 .. (o + n) - (o + 1) + 1 /\ o + 1 + i - 1 = o + i
    BY <1>1
  <2> QED
    BY <1>3, <2>1 DEF Stands
<1>6. s = part
  BY <1>3, <1>4, <1>5, SeqEqual
<1> QED
  BY <1>6 DEF s

(* and in whatever begins with the file. *)
LEMMA PrefixKeeps ==
    ASSUME NEW S, NEW part \in Seq(S), NEW file \in Seq(S), NEW rest \in Seq(S), NEW o \in Nat,
           NEW n \in 0 .. Len(file), Stands(part, file, o), o + Len(part) <= n
    PROVE  Stands(part, SubSeq(file, 1, n) \o rest, o)
<1> DEFINE a == SubSeq(file, 1, n)
<1>1. Len(part) \in Nat /\ Len(file) \in Nat /\ Len(rest) \in Nat /\ n \in Nat
      /\ \A i \in 1 .. Len(file) : file[i] \in S
  BY LenProperties, ElementOfSeq
<1>2. \A i \in 1 .. n : file[i] \in S
  BY <1>1
<1>3. a \in Seq(S) /\ Len(a) = n /\ \A i \in 1 .. n : a[i] = file[i]
  <2>1. /\ a \in Seq(S) /\ Len(a) = IF 1 <= n THEN n - 1 + 1 ELSE 0
        /\ \A i \in 1 .. n - 1 + 1 : a[i] = file[1 + i - 1]
    BY <1>1, <1>2, SubSeqProperties
  <2> HIDE DEF a
  <2> QED
    BY <1>1, <2>1
<1> HIDE DEF a
<1>4. Len(a \o rest) = n + Len(rest) /\ \A i \in 1 .. n : (a \o rest)[i] = a[i]
  <2>1. \A i \in 1 .. Len(a) + Len(rest) : (a \o rest)[i] = IF i <= Len(a) THEN a[i] ELSE rest[i - Len(a)]
    BY <1>3, ConcatProperties
  <2>2. Len(a \o rest) = Len(a) + Len(rest)
    BY <1>3, ConcatProperties
  <2>3. \A i \in 1 .. n : i \in 1 .. Len(a) + Len(rest) /\ i <= Len(a)
    BY <1>1, <1>3
  <2> QED
    BY <1>3, <2>1, <2>2, <2>3
<1>5. \A i \in 1 .. Len(part) : o + i \in 1 .. n
  BY <1>1
<1>6. Stands(part, a \o rest, o)
  <2>1. \A i \in 1 .. Len(part) : (a \o rest)[o + i] = file[o + i]
    BY <1>3, <1>4, <1>5
  <2>2. o + Len(part) <= Len(a \o rest)
    BY <1>1, <1>4
  <2> QED
    BY <2>1, <2>2 DEF Stands
<1> QED
  BY <1>6 DEF a

GoesOn(next, ends, N) ==
    \A o \in Nat : o \notin ends => o < N /\ next[o] \in Nat /\ next[o] > o

Loops(f, ends, last, part, next) ==
    \A o \in Nat : f[o] = IF o \in ends THEN last[o] ELSE part[o] \o f[next[o]]

(* A loop that reads a file and goes on further ahead ends by the end of   *)
(* the file, so that it computes something.                                *)
LEMMA ReadersExist ==
    ASSUME NEW S, NEW N \in Nat, NEW ends,
           NEW last \in [Nat -> Seq(S)], NEW part \in [Nat -> Seq(S)], NEW next,
           GoesOn(next, ends, N)
    PROVE  \E f \in [Nat -> Seq(S)] : Loops(f, ends, last, part, next)
<1> DEFINE Q == Seq(S)
           Reads(f, o) == f[o] = IF o \in ends THEN last[o] ELSE part[o] \o f[next[o]]
           T == {m \in Nat : \E f \in [Nat -> Q] : \A o \in Nat : o + m >= N => Reads(f, o)}
<1>1. 0 \in T
  <2>1. \A o \in Nat : o + 0 >= N => Reads(last, o)
    BY DEF GoesOn
  <2> QED
    BY <2>1
<1>2. ASSUME NEW m \in Nat, m \in T
      PROVE  m + 1 \in T
  <2>1. PICK f \in [Nat -> Q] : \A o \in Nat : o + m >= N => Reads(f, o)
    BY <1>2
  <2>2. CASE m >= N
    <3>1. \A o \in Nat : o + m >= N
      BY <2>2
    <3>2. \A o \in Nat : o + (m + 1) >= N => Reads(f, o)
      <4> HIDE DEF Reads
      <4> QED
        BY <2>1, <3>1
    <3> HIDE DEF Reads, Q
    <3>3. m + 1 \in Nat
      OBVIOUS
    <3> QED
      BY <3>2, <3>3, Zenon
  <2>3. CASE m < N
    <3> DEFINE k == N - (m + 1)
               v == IF k \in ends THEN last[k] ELSE part[k] \o f[next[k]]
               g == [o \in Nat |-> IF o = k THEN v ELSE f[o]]
    <3>1. k \in Nat
      BY <2>3
    <3>7. \A o \in Nat : o + (m + 1) >= N => o >= k /\ (o # k => o + m >= N)
      BY <2>3
    <3> HIDE DEF k
    <3>2. v \in Q
      <4>1. k \notin ends => next[k] \in Nat
        BY <3>1 DEF GoesOn
      <4>2. k \notin ends => f[next[k]] \in Q /\ part[k] \in Q
        BY <3>1, <4>1
      <4>3. k \notin ends => part[k] \o f[next[k]] \in Q
        BY <4>2, ConcatProperties
      <4>4. last[k] \in Q
        BY <3>1
      <4> HIDE DEF Q
      <4> QED
        BY <4>3, <4>4
    <3> HIDE DEF Q
    <3>3. g \in [Nat -> Q]
      <4> HIDE DEF v
      <4> QED
        BY <3>2
    <3>4. g[k] = v /\ \A o \in Nat : o # k => g[o] = f[o]
      <4> HIDE DEF v
      <4> QED
        BY <3>1
    <3> HIDE DEF g
    <3>5. ASSUME NEW o \in Nat, o + (m + 1) >= N
          PROVE  Reads(g, o)
      <4>5. o >= k
        BY <3>5, <3>7
      <4>6. ASSUME NEW a \in Nat, a > o PROVE a # k
        BY <3>1, <4>5, <4>6
      <4>1. o \notin ends => next[o] \in Nat /\ next[o] > o /\ next[o] # k
        <5>1. o \notin ends => next[o] \in Nat /\ next[o] > o
          BY DEF GoesOn
        <5> QED
          BY <4>6, <5>1
      <4>2. o \notin ends => g[next[o]] = f[next[o]]
        BY <3>4, <4>1
      <4>3. CASE o = k
        BY <3>4, <4>2, <4>3
      <4>4. CASE o # k
        <5>1. g[o] = f[o] /\ Reads(f, o)
          BY <2>1, <3>4, <3>5, <3>7, <4>4
        <5> QED
          BY <4>2, <5>1
      <4> QED
        BY <4>3, <4>4
    <3> HIDE DEF Reads
    <3>6. \A o \in Nat : o + (m + 1) >= N => Reads(g, o)
      BY <3>5
    <3>8. m + 1 \in Nat
      OBVIOUS
    <3> QED
      BY <3>3, <3>6, <3>8, Zenon
  <2> HIDE DEF T
  <2> QED
    BY <2>2, <2>3
<1>3. N \in T
  <2>1. Nat \subseteq T
    <3> HIDE DEF T
    <3> QED
      BY <1>1, <1>2, Induction
  <2> HIDE DEF T
  <2> QED
    BY <2>1
<1>4. PICK f \in [Nat -> Q] : \A o \in Nat : o + N >= N => Reads(f, o)
  BY <1>3
<1>5. \A o \in Nat : Reads(f, o)
  <2> HIDE DEF Reads
  <2> QED
    BY <1>4
<1> QED
  BY <1>5 DEF Loops

(* Pieces of one length, but for the last, stand one after the other.      *)
LEMMA PiecesStand ==
    ASSUME NEW S, NEW seqs \in Seq(Seq(S)), NEW c \in Nat,
           \A i \in 1 .. Len(seqs) - 1 : Len(seqs[i]) = c
    PROVE  /\ FlattenSeq(seqs) \in Seq(S)
           /\ Len(seqs) = 0 => FlattenSeq(seqs) = <<>>
           /\ Len(seqs) # 0 => Len(FlattenSeq(seqs)) = (Len(seqs) - 1) * c + Len(seqs[Len(seqs)])
           /\ \A i \in 1 .. Len(seqs) : Stands(seqs[i], FlattenSeq(seqs), (i - 1) * c)
<1> DEFINE N == Len(seqs)
           Q == Seq(S)
           Solves(f) == f = [i \in 1 .. N |-> IF i = 1 THEN seqs[i] ELSE f[i - 1] \o seqs[i]]
           flat == CHOOSE f : Solves(f)
           step == [k \in Nat |-> [s \in Q |-> IF k \in 1 .. N THEN s \o seqs[k] ELSE s]]
<1>1. N \in Nat /\ \A k \in 1 .. N : seqs[k] \in Q
  BY LenProperties, ElementOfSeq
<1>2. FlattenSeq(seqs) = IF N = 0 THEN seqs ELSE flat[N]
  BY DEF FlattenSeq
<1>3. CASE N = 0
  <2>1. seqs = <<>>
    BY <1>3, EmptySeq
  <2>2. <<>> \in Seq(S)
    OBVIOUS
  <2> HIDE DEF flat
  <2>3. FlattenSeq(seqs) = <<>>
    BY <1>2, <1>3, <2>1
  <2> QED
    BY <1>3, <2>2, <2>3
<1>4. CASE N # 0
  <2> HIDE DEF N
  <2>1. step \in [Nat -> [Q -> Q]]
    <3>1. \A k \in 1 .. N, s \in Q : s \o seqs[k] \in Q
      BY <1>1, ConcatProperties
    <3> HIDE DEF Q
    <3> QED
      BY <3>1
  <2>2. PICK f \in [0 .. N -> Q] : Chain(f, <<>>, step, N)
    <3>1. <<>> \in Q
      OBVIOUS
    <3> HIDE DEF step, Q
    <3> QED
      BY <1>1, <2>1, <3>1, ChainExists
  <2>3. \A k \in 1 .. N : k \in Nat /\ k - 1 \in 0 .. N /\ k \in 0 .. N
    BY <1>1
  <2>4. ASSUME NEW k \in 1 .. N PROVE f[k] = f[k - 1] \o seqs[k]
    <3>1. f[k] = step[k][f[k - 1]] /\ f[k - 1] \in Q
      BY <2>2, <2>3 DEF Chain
    <3> HIDE DEF Q
    <3> QED
      BY <2>3, <3>1
  <2> DEFINE g == [i \in 1 .. N |-> f[i]]
  <2>5. Solves(g)
    <3>1. ASSUME NEW i \in 1 .. N
          PROVE  f[i] = IF i = 1 THEN seqs[i] ELSE g[i - 1] \o seqs[i]
      <4>1. CASE i = 1
        <5>1. f[0] = <<>> /\ i - 1 = 0
          BY <2>2, <4>1 DEF Chain
        <5>2. f[i] = <<>> \o seqs[i] /\ seqs[i] \in Q
          BY <1>1, <2>4, <5>1
        <5>3. <<>> \o seqs[i] = seqs[i]
          BY <5>2, ConcatEmptySeq
        <5> HIDE DEF g
        <5> QED
          BY <4>1, <5>2, <5>3
      <4>2. CASE i # 1
        <5>1. i - 1 \in 1 .. N
          BY <1>1, <4>2
        <5>2. g[i - 1] = f[i - 1]
          BY <5>1
        <5> HIDE DEF g
        <5> QED
          BY <2>4, <4>2, <5>2
      <4> QED
        BY <4>1, <4>2
    <3> QED
      BY <3>1
  <2>6. Solves(flat)
    <3> HIDE DEF Solves, g
    <3> QED
      BY <2>5
  <2> HIDE DEF flat, g
  <2>7. flat[1] = seqs[1] /\ \A i \in 2 .. N : flat[i] = flat[i - 1] \o seqs[i]
    <3>1. 1 \in 1 .. N /\ \A i \in 2 .. N : i \in 1 .. N /\ i # 1
      BY <1>1, <1>4
    <3>2. \A i \in 1 .. N : flat[i] = IF i = 1 THEN seqs[i] ELSE flat[i - 1] \o seqs[i]
      BY <2>6
    <3> QED
      BY <3>1, <3>2
  <2> HIDE DEF Solves, step
  <2> DEFINE Good(n) == /\ flat[n] \in Q
                        /\ Len(flat[n]) = (n - 1) * c + Len(seqs[n])
                        /\ \A i \in 1 .. n : Stands(seqs[i], flat[n], (i - 1) * c)
             T == {n \in Nat : n + 1 <= N => Good(n + 1)}
  <2>8. 0 \in T
    <3>1. SUFFICES Good(1)
      <4> HIDE DEF Good
      <4>1. 0 + 1 = 1
        OBVIOUS
      <4> QED
        BY <4>1
    <3>2. 1 \in 1 .. N /\ seqs[1] \in Q /\ Len(seqs[1]) \in Nat
      BY <1>1, <1>4, LenProperties
    <3>3. Stands(seqs[1], seqs[1], 0)
      BY <3>2, WholeStands
    <3>4. (1 - 1) * c = 0 /\ \A i \in 1 .. 1 : i = 1
      OBVIOUS
    <3>5. flat[1] \in Q /\ Len(flat[1]) = (1 - 1) * c + Len(seqs[1])
      <4>1. 0 + Len(seqs[1]) = Len(seqs[1])
        BY <3>2
      <4> QED
        BY <2>7, <3>2, <3>4, <4>1
    <3>6. Stands(seqs[1], flat[1], (1 - 1) * c)
      BY <2>7, <3>3, <3>4
    <3>7. \A i \in 1 .. 1 : Stands(seqs[i], flat[1], (i - 1) * c)
      BY <3>4, <3>6
    <3> QED
      BY <3>5, <3>7
  <2>9. ASSUME NEW n \in Nat, n \in T
        PROVE  n + 1 \in T
    <3> HIDE DEF Good
    <3>1. SUFFICES ASSUME n + 1 + 1 <= N PROVE Good(n + 1 + 1)
      OBVIOUS
    <3> DEFINE m == n + 1
    <3>2. m \in 1 .. N /\ m + 1 \in 2 .. N /\ m + 1 \in 1 .. N /\ (m + 1) - 1 = m /\ m \in Nat
          /\ m \in 1 .. N - 1 /\ n + 1 + 1 = m + 1 /\ m - 1 \in Nat
      BY <1>1, <3>1
    <3>3. Good(m)
      BY <2>9, <3>2
    <3> HIDE DEF m
    <3>4. /\ flat[m + 1] = flat[m] \o seqs[m + 1]
          /\ flat[m] \in Q /\ seqs[m + 1] \in Q
          /\ Len(flat[m]) = m * c /\ Len(seqs[m]) = c
      <4>1. flat[m + 1] = flat[(m + 1) - 1] \o seqs[m + 1] /\ seqs[m + 1] \in Q
        BY <1>1, <2>7, <3>2
      <4>2. Len(seqs[m]) = c
        BY <3>2 DEF N
      <4>3. (m - 1) * c + c = m * c
        BY <3>2
      <4> QED
        BY <3>2, <3>3, <4>1, <4>2, <4>3 DEF Good
    <3>5. flat[m + 1] \in Q /\ Len(flat[m + 1]) = m * c + Len(seqs[m + 1])
      <4> DEFINE a == flat[m]
                 b == seqs[m + 1]
      <4>1. a \in Seq(S) /\ b \in Seq(S)
        BY <3>4
      <4> HIDE DEF a, b
      <4>2. a \o b \in Seq(S) /\ Len(a \o b) = Len(a) + Len(b)
        BY <4>1, ConcatProperties
      <4> QED
        BY <3>4, <4>2 DEF a, b
    <3>6. Stands(flat[m] \o seqs[m + 1], flat[m + 1], 0)
      BY <3>4, <3>5, WholeStands
    <3>7. m * c \in Nat
      BY <3>2
    <3>8. Stands(flat[m], flat[m + 1], 0) /\ Stands(seqs[m + 1], flat[m + 1], m * c)
      <4>1. 0 \in Nat /\ 0 + Len(flat[m]) = m * c
        BY <3>4, <3>7
      <4> DEFINE a == flat[m]
                 b == seqs[m + 1]
                 file == flat[m + 1]
      <4>2. a \in Seq(S) /\ b \in Seq(S) /\ file \in Seq(S) /\ Stands(a \o b, file, 0)
        BY <3>4, <3>5, <3>6
      <4>4. 0 + Len(a) = m * c
        BY <4>1
      <4> HIDE DEF a, b, file
      <4>3. Stands(a, file, 0) /\ Stands(b, file, 0 + Len(a))
        BY <4>2, PartsStand
      <4> QED
        BY <4>3, <4>4 DEF a, b, file
    <3>9. ASSUME NEW i \in 1 .. m PROVE Stands(seqs[i], flat[m + 1], (i - 1) * c)
      <4>1. Stands(seqs[i], flat[m], (i - 1) * c)
        BY <3>3 DEF Good
      <4>2. /\ i \in 1 .. N /\ seqs[i] \in Q /\ Len(seqs[i]) \in Nat
            /\ i - 1 \in Nat /\ (i - 1) * c \in Nat /\ i \in Nat
        BY <1>1, <3>2, LenProperties
      <4> DEFINE o == (i - 1) * c
      <4>3. o \in Nat /\ \A j \in 1 .. Len(seqs[i]) : o + j \in 1 .. Len(flat[m])
                                                     /\ 0 + (o + j) = o + j
        <5>1. o \in Nat /\ o + Len(seqs[i]) <= Len(flat[m])
          BY <4>1, <4>2 DEF Stands
        <5>2. Len(flat[m]) \in Nat
          BY <3>4, <3>7
        <5> HIDE DEF o
        <5> QED
          BY <4>2, <5>1, <5>2
      <4>4. \A j \in 1 .. Len(flat[m]) : flat[m + 1][0 + j] = flat[m][j]
        BY <3>8 DEF Stands
      <4>5. Stands(seqs[i], flat[m], o) /\ 0 + Len(flat[m]) <= Len(flat[m + 1])
        BY <3>8, <4>1 DEF Stands
      <4>8. Len(flat[m + 1]) \in Nat /\ Len(flat[m]) \in Nat
        BY <3>4, <3>5, LenProperties
      <4> HIDE DEF o
      <4>6. \A j \in 1 .. Len(seqs[i]) : flat[m + 1][o + j] = seqs[i][j]
        BY <4>3, <4>4, <4>5 DEF Stands
      <4>7. o + Len(seqs[i]) <= Len(flat[m + 1])
        BY <4>2, <4>3, <4>5, <4>8 DEF Stands
      <4> QED
        BY <4>6, <4>7 DEF Stands, o
    <3>10. \A i \in 1 .. m + 1 : i \in 1 .. m \/ i = m + 1
      BY <3>2
    <3> QED
      BY <3>2, <3>5, <3>8, <3>9, <3>10 DEF Good
  <2>10. Good(N)
    <3>1. Nat \subseteq T
      <4> HIDE DEF T
      <4> QED
        BY <2>8, <2>9, Induction
    <3> HIDE DEF Good
    <3>2. N - 1 \in T /\ (N - 1) + 1 = N
      <4> HIDE DEF T
      <4> QED
        BY <1>1, <1>4, <3>1
    <3> QED
      BY <1>1, <3>2
  <2> QED
    BY <1>2, <1>4, <2>10 DEF N
<1> QED
  BY <1>3, <1>4

(* Concatenation adds lengths. *)
LEMMA LengthsAdd ==
    ASSUME NEW S, NEW a \in Seq(S), NEW b \in Seq(S)
    PROVE  a \o b \in Seq(S) /\ Len(a \o b) = Len(a) + Len(b) /\ Len(a) \in Nat /\ Len(b) \in Nat
  BY ConcatProperties, LenProperties

(* The lesser of two numbers. *)
LEMMA LesserOfTwo ==
    ASSUME NEW a \in Nat, NEW b \in Nat, a <= b
    PROVE  Min({a, b}) = a
<1> DEFINE m == Min({a, b})
<1>1. {a, b} \in SUBSET Nat /\ {a, b} # {}
  OBVIOUS
<1>2. m \in {a, b} /\ \A k \in {a, b} : m <= k
  BY <1>1, Least
<1> HIDE DEF m
<1>3. (m = a \/ m = b) /\ m <= a
  BY <1>2
<1>4. m = a
  BY <1>3
<1> QED
  BY <1>4 DEF m

(* A number is its last byte and what is before. *)
LEMMA LastByte ==
    ASSUME NEW n \in Nat, NEW a, NEW b, a = n \div 256, b = n % 256
    PROVE  a \in Nat /\ b \in Nat /\ b < 256 /\ n = a * 256 + b
  OBVIOUS

(* Four bytes make a number. *)
LEMMA BytesMakeNumbers ==
    ASSUME NEW a \in Nat, NEW b \in Nat, NEW c \in Nat, NEW d \in Nat
    PROVE  ((a * 256 + b) * 256 + c) * 256 + d \in Nat
<1> DEFINE n == (a * 256 + b) * 256 + c
<1>1. n \in Nat
  OBVIOUS
<1> HIDE DEF n
<1>2. n * 256 + d \in Nat
  BY <1>1
<1> QED
  BY <1>2 DEF n

(* Four bytes bear a length that fits. *)
LEMMA Be32Reads ==
    ASSUME NEW n \in Nat, FitsInU32(n)
    PROVE  /\ Be32(n) \in Seq(Nat) /\ Len(Be32(n)) = 4
           /\ ((Be32(n)[1] * 256 + Be32(n)[2]) * 256 + Be32(n)[3]) * 256 + Be32(n)[4] = n
<1> DEFINE a == n \div 256
           b == n \div 65536
           c == n \div 16777216
           a1 == a % 256
           b1 == b % 256
           n1 == n % 256
           bytes == Be32(n)
<1>1. a \in Nat /\ b \in Nat /\ c \in Nat /\ c < 256
  BY DEF FitsInU32
<1>2. b = a \div 256 /\ c = b \div 256
  OBVIOUS
<1>3. c % 256 = c
  BY <1>1
<1>4. bytes[1] = c % 256 /\ bytes[2] = b1 /\ bytes[3] = a1 /\ bytes[4] = n1
      /\ bytes = <<c % 256, b1, a1, n1>>
  BY DEF Be32
<1>5. n = a * 256 + n1 /\ n1 \in Nat
  BY LastByte
<1>6. a = b * 256 + a1 /\ a1 \in Nat
  <2> HIDE DEF a, b
  <2> QED
    BY <1>1, <1>2, LastByte
<1>7. b = c * 256 + b1 /\ b1 \in Nat
  <2> HIDE DEF b, c
  <2> QED
    BY <1>1, <1>2, LastByte
<1> HIDE DEF a, b, c, a1, b1, n1, bytes
<1>8. bytes[1] = c
  BY <1>3, <1>4
<1>9. bytes \in Seq(Nat) /\ Len(bytes) = 4
  BY <1>1, <1>3, <1>4, <1>5, <1>6, <1>7
<1>10. bytes[1] * 256 + bytes[2] = b
  BY <1>4, <1>7, <1>8
<1>11. b * 256 + bytes[3] = a
  BY <1>4, <1>6
<1>12. a * 256 + bytes[4] = n
  BY <1>4, <1>5
<1> QED
  BY <1>9, <1>10, <1>11, <1>12 DEF bytes

(* A checksum is four bytes. *)
LEMMA CrcIsFour ==
    ASSUME NEW bytes
    PROVE  WordBytes(Crc32Bitwise(bytes)) \in Seq(Nat) /\ Len(WordBytes(Crc32Bitwise(bytes))) = 4
<1> DEFINE x == Crc32Bitwise(bytes)
           w(k) == Shr(x, 8 * (4 - k)) \cap Positions(8)
<1>1. \A k \in 1 .. 4 : w(k) \in Word(8)
  BY DEF Word
<1>2. \A k \in 1 .. 4 : Value(w(k)) \in Nat
  <2> HIDE DEF w
  <2> QED
    BY <1>1, WordsHaveValues
<1>3. WordBytes(x) = [k \in 1 .. 4 |-> Value(w(k))]
  BY DEF WordBytes
<1> HIDE DEF w, x
<1>4. WordBytes(x) \in [1 .. 4 -> Nat]
  BY <1>2, <1>3
<1>5. WordBytes(x) \in Seq(Nat) /\ Len(WordBytes(x)) = 4
  BY <1>4, Tabled
<1> QED
  BY <1>5 DEF x

(* A chunk is its data and twelve bytes. *)
LEMMA ChunkIsSeq ==
    ASSUME NEW kind \in Seq(Nat), Len(kind) = 4, NEW data \in Seq(Nat), FitsInU32(Len(data))
    PROVE  PngChunk(kind, data) \in Seq(Nat) /\ Len(PngChunk(kind, data)) = 12 + Len(data)
<1> DEFINE size == Be32(Len(data))
           crc == WordBytes(Crc32Bitwise(kind \o data))
<1>1. Len(data) \in Nat
  BY LenProperties
<1>2. size \in Seq(Nat) /\ Len(size) = 4 /\ crc \in Seq(Nat) /\ Len(crc) = 4
  <2>1. size \in Seq(Nat) /\ Len(size) = 4
    BY <1>1, Be32Reads
  <2>2. crc \in Seq(Nat) /\ Len(crc) = 4
    BY CrcIsFour
  <2> QED
    BY <2>1, <2>2
<1>3. PngChunk(kind, data) = size \o kind \o data \o crc
  BY DEF PngChunk
<1> HIDE DEF size, crc
<1>4. size \o kind \in Seq(Nat) /\ Len(size \o kind) = 8
  <2>1. size \o kind \in Seq(Nat) /\ Len(size \o kind) = Len(size) + Len(kind)
    BY <1>2, LengthsAdd
  <2> QED
    BY <1>2, <2>1
<1>5. size \o kind \o data \in Seq(Nat) /\ Len(size \o kind \o data) = 8 + Len(data)
  BY <1>4, LengthsAdd
<1>6. /\ size \o kind \o data \o crc \in Seq(Nat)
      /\ Len(size \o kind \o data \o crc) = Len(size \o kind \o data) + Len(crc)
  BY <1>2, <1>5, LengthsAdd
<1> QED
  BY <1>1, <1>2, <1>3, <1>5, <1>6

IsRead(kind, data, file, o) ==
    /\ o + 12 + Len(data) <= Len(file)
    /\ Uint32At(file, o) = Len(data)
    /\ TypeAt(file, o) = kind
    /\ DataAt(file, o) = data
    /\ SubSeq(file, o + 5, o + 8 + Len(data)) = kind \o data
    /\ SubSeq(file, o + 8 + Len(data) + 1, o + 8 + Len(data) + 4)
          = WordBytes(Crc32Bitwise(kind \o data))

(* Where a chunk stands, its parts are read. *)
LEMMA ChunkReads ==
    ASSUME NEW kind \in Seq(Nat), Len(kind) = 4, NEW data \in Seq(Nat), FitsInU32(Len(data)),
           NEW file \in Seq(Nat), NEW o \in Nat, Stands(PngChunk(kind, data), file, o)
    PROVE  IsRead(kind, data, file, o)
<1> DEFINE n == Len(data)
           size == Be32(n)
           crc == WordBytes(Crc32Bitwise(kind \o data))
<1>1. n \in Nat /\ Len(file) \in Nat
  BY LenProperties
<1>2. /\ size \in Seq(Nat) /\ Len(size) = 4 /\ crc \in Seq(Nat) /\ Len(crc) = 4
  <2>1. size \in Seq(Nat) /\ Len(size) = 4
    BY <1>1, Be32Reads
  <2>2. crc \in Seq(Nat) /\ Len(crc) = 4
    BY CrcIsFour
  <2> QED
    BY <2>1, <2>2
<1>16. ((size[1] * 256 + size[2]) * 256 + size[3]) * 256 + size[4] = n
  BY <1>1, Be32Reads
<1>3. PngChunk(kind, data) = size \o kind \o data \o crc
  BY DEF PngChunk
<1>4. o + (12 + n) <= Len(file)
  BY ChunkIsSeq DEF Stands
<1> HIDE DEF size, crc, n
<1>5. /\ size \o kind \in Seq(Nat) /\ Len(size \o kind) = 8
      /\ size \o kind \o data \in Seq(Nat) /\ Len(size \o kind \o data) = 8 + n
  <2>1. size \o kind \in Seq(Nat) /\ Len(size \o kind) = 8
    <3>1. size \o kind \in Seq(Nat) /\ Len(size \o kind) = Len(size) + Len(kind)
      BY <1>2, LengthsAdd
    <3> QED
      BY <1>2, <3>1
  <2> QED
    BY <2>1, LengthsAdd DEF n
<1>6. Stands(size \o kind \o data, file, o) /\ Stands(crc, file, o + (8 + n))
  <2> DEFINE a == size \o kind \o data
  <2>1. a \in Seq(Nat) /\ Len(a) = 8 + n /\ Stands(a \o crc, file, o)
    BY <1>3, <1>5
  <2> HIDE DEF a
  <2>2. Stands(a, file, o) /\ Stands(crc, file, o + Len(a))
    BY <1>2, <2>1, PartsStand
  <2> QED
    BY <2>1, <2>2 DEF a
<1>7. Stands(size \o kind, file, o) /\ Stands(data, file, o + 8)
  BY <1>5, <1>6, PartsStand
<1>8. Stands(size, file, o) /\ Stands(kind, file, o + 4)
  BY <1>2, <1>7, PartsStand
<1>9. Stands(kind \o data, file, o + 4)
  <2>1. o + 4 \in Nat /\ o + 4 + Len(kind) = o + 8
    OBVIOUS
  <2> QED
    BY <1>7, <1>8, <2>1, PartsStand
<1>10. Uint32At(file, o) = n
  <2>1. file[o + 1] = size[1] /\ file[o + 2] = size[2] /\ file[o + 3] = size[3] /\ file[o + 4] = size[4]
    BY <1>2, <1>8 DEF Stands
  <2> QED
    BY <1>16, <2>1, Zenon DEF Uint32At
<1>11. TypeAt(file, o) = kind
  <2>1. o + 4 \in Nat /\ o + 4 + 1 = o + 5 /\ o + 4 + Len(kind) = o + 8
    OBVIOUS
  <2>2. SubSeq(file, o + 4 + 1, o + 4 + Len(kind)) = kind
    BY <1>8, <2>1, ReadsWhatStands
  <2> QED
    BY <2>1, <2>2 DEF TypeAt
<1>12. DataAt(file, o) = data
  <2>1. o + 8 \in Nat /\ o + 8 + 1 = o + 9 /\ o + 8 + n \in Nat /\ o + 8 + n <= Len(file)
    BY <1>1, <1>4
  <2>2. SubSeq(file, o + 8 + 1, o + 8 + n) = data
    BY <1>7, <2>1, ReadsWhatStands DEF n
  <2>3. Min({o + 8 + n, Len(file)}) = o + 8 + n
    BY <1>1, <2>1, LesserOfTwo
  <2> QED
    BY <1>10, <2>1, <2>2, <2>3 DEF DataAt
<1>13. SubSeq(file, o + 5, o + 8 + n) = kind \o data
  <2>1. Len(kind \o data) = 4 + n /\ kind \o data \in Seq(Nat)
    BY LengthsAdd DEF n
  <2>2. o + 4 \in Nat /\ o + 4 + 1 = o + 5 /\ o + 4 + (4 + n) = o + 8 + n
    BY <1>1
  <2>3. SubSeq(file, o + 4 + 1, o + 4 + Len(kind \o data)) = kind \o data
    BY <1>9, <2>1, <2>2, ReadsWhatStands
  <2> QED
    BY <2>1, <2>2, <2>3
<1>14. SubSeq(file, o + 8 + n + 1, o + 8 + n + 4) = crc
  <2>1. o + (8 + n) = o + 8 + n /\ o + (8 + n) \in Nat
    BY <1>1
  <2> DEFINE p == o + (8 + n)
  <2>2. p \in Nat /\ Stands(crc, file, p) /\ p = o + 8 + n
    BY <1>6, <2>1
  <2> HIDE DEF p
  <2>3. SubSeq(file, p + 1, p + Len(crc)) = crc
    BY <1>2, <2>2, ReadsWhatStands
  <2>4. p + 1 = o + 8 + n + 1 /\ p + Len(crc) = o + 8 + n + 4
    BY <1>1, <1>2, <2>2
  <2> QED
    BY <2>3, <2>4, Zenon
<1>15. o + 12 + n <= Len(file)
  BY <1>1, <1>4
<1> QED
  BY <1>10, <1>11, <1>12, <1>13, <1>14, <1>15 DEF n, crc, IsRead

(* The walk over the chunks of a file goes from one to the next. *)
LEMMA WalkGoes ==
    ASSUME NEW file \in Seq(Nat), NEW o \in Nat
    PROVE  WalkFrom(file, o) = IF o + 8 > Len(file) THEN <<>>
                               ELSE IF TypeAt(file, o) = Tag.IEND THEN <<o>>
                               ELSE <<o>> \o WalkFrom(file, o + 12 + Uint32At(file, o))
<1> DEFINE N == Len(file)
           Solves(f) == f = [p \in Nat |->
                                IF p + 8 > N THEN <<>>
                                ELSE IF TypeAt(file, p) = Tag.IEND THEN <<p>>
                                ELSE <<p>> \o f[p + 12 + Uint32At(file, p)]]
           walk == CHOOSE f : Solves(f)
           ends == {p \in Nat : p + 8 > N \/ TypeAt(file, p) = Tag.IEND}
           last == [p \in Nat |-> IF p + 8 > N THEN <<>> ELSE <<p>>]
           part == [p \in Nat |-> <<p>>]
           next == [p \in Nat |-> p + 12 + Uint32At(file, p)]
<1>1. N \in Nat /\ \A i \in 1 .. N : file[i] \in Nat
  BY LenProperties, ElementOfSeq
<1>2. \A p \in Nat : WalkFrom(file, p) = walk[p]
  BY DEF WalkFrom
<1> HIDE DEF N
<1>3. \A p \in Nat : p \notin ends => Uint32At(file, p) \in Nat /\ p < N
  <2>1. SUFFICES ASSUME NEW p \in Nat, p + 8 <= N PROVE Uint32At(file, p) \in Nat /\ p < N
    BY <1>1
  <2>2. p + 1 \in 1 .. N /\ p + 2 \in 1 .. N /\ p + 3 \in 1 .. N /\ p + 4 \in 1 .. N
    BY <1>1, <2>1
  <2>3. file[p + 1] \in Nat /\ file[p + 2] \in Nat /\ file[p + 3] \in Nat /\ file[p + 4] \in Nat
    BY <1>1, <2>2
  <2>4. ((file[p + 1] * 256 + file[p + 2]) * 256 + file[p + 3]) * 256 + file[p + 4] \in Nat
    <3> DEFINE a == file[p + 1]
               b == file[p + 2]
               c == file[p + 3]
               d == file[p + 4]
    <3>1. a \in Nat /\ b \in Nat /\ c \in Nat /\ d \in Nat
      BY <2>3
    <3> HIDE DEF a, b, c, d
    <3>2. ((a * 256 + b) * 256 + c) * 256 + d \in Nat
      BY <3>1, BytesMakeNumbers
    <3> QED
      BY <3>2 DEF a, b, c, d
  <2>5. p < N
    BY <1>1, <2>1
  <2> QED
    BY <2>4, <2>5, Zenon DEF Uint32At
<1>4. GoesOn(next, ends, N)
  <2> SUFFICES ASSUME NEW p \in Nat, p \notin ends
               PROVE  p < N /\ next[p] \in Nat /\ next[p] > p
    BY DEF GoesOn
  <2>1. next[p] = p + 12 + Uint32At(file, p)
    OBVIOUS
  <2>2. Uint32At(file, p) \in Nat /\ p < N
    BY <1>3
  <2> HIDE DEF next, ends
  <2> QED
    BY <2>1, <2>2
<1>11. o \notin ends => o + 12 + Uint32At(file, o) \in Nat
  <2> HIDE DEF ends
  <2> QED
    BY <1>3
<1>5. last \in [Nat -> Seq(Nat)] /\ part \in [Nat -> Seq(Nat)]
  OBVIOUS
<1> DEFINE Q == Seq(Nat)
<1>14. \E f \in [Nat -> Seq(Nat)] : Loops(f, ends, last, part, next)
  <2> HIDE DEF ends, last, part, next
  <2>1. N \in Nat
    BY <1>1
  <2> QED
    BY <2>1, <1>4, <1>5, ReadersExist, Zenon
<1>6. PICK f \in [Nat -> Q] : Loops(f, ends, last, part, next)
  <2> HIDE DEF ends, last, part, next
  <2> QED
    BY <1>14, Zenon
<1> HIDE DEF Q
<1>7. \A p \in Nat : f[p] = IF p + 8 > N THEN <<>>
                            ELSE IF TypeAt(file, p) = Tag.IEND THEN <<p>>
                            ELSE <<p>> \o f[p + 12 + Uint32At(file, p)]
  <2>1. \A p \in Nat : /\ p \in ends <=> p + 8 > N \/ TypeAt(file, p) = Tag.IEND
                       /\ last[p] = IF p + 8 > N THEN <<>> ELSE <<p>>
                       /\ part[p] = <<p>>
                       /\ next[p] = p + 12 + Uint32At(file, p)
    OBVIOUS
  <2> HIDE DEF ends, last, part, next
  <2> QED
    BY <1>6, <2>1 DEF Loops
<1>8. Solves(f)
  <2>1. f = [p \in Nat |-> f[p]]
    OBVIOUS
  <2> QED
    BY <1>7, <2>1
<1>9. Solves(walk)
  <2> HIDE DEF Solves
  <2> QED
    BY <1>8
<1> HIDE DEF walk
<1>10. walk[o] = IF o + 8 > N THEN <<>>
                 ELSE IF TypeAt(file, o) = Tag.IEND THEN <<o>>
                 ELSE <<o>> \o walk[o + 12 + Uint32At(file, o)]
  BY <1>9
<1> HIDE DEF Solves
<1>12. CASE o \in ends
  BY <1>2, <1>10, <1>12 DEF N
<1>13. CASE o \notin ends
  <2>1. o + 12 + Uint32At(file, o) \in Nat
    BY <1>11, <1>13
  <2> QED
    BY <1>2, <1>10, <2>1 DEF N
<1> QED
  BY <1>12, <1>13

-----------------------------------------------------------------------------
(* The two programs compute the same CRC.                                  *)

Obeys(g, S, s, step, N) ==
    g[0] = s /\ \A n \in 1 .. N : g[n - 1] \in S => g[n] = step[n][g[n - 1]]

(* A loop that makes the steps of a chain is one. *)
LEMMA LoopsAreChains ==
    ASSUME NEW S, NEW s \in S, NEW step \in [Nat -> [S -> S]], NEW N \in Nat,
           NEW g, Obeys(g, S, s, step, N)
    PROVE  Chain(g, s, step, N) /\ \A n \in 0 .. N : g[n] \in S
<1> DEFINE T == {n \in Nat : n <= N => g[n] \in S}
<1>1. 0 \in T
  BY DEF Obeys
<1>2. ASSUME NEW n \in Nat, n \in T
      PROVE  n + 1 \in T
  <2>1. SUFFICES ASSUME n + 1 <= N PROVE g[n + 1] \in S
    OBVIOUS
  <2>2. n + 1 \in 1 .. N /\ (n + 1) - 1 = n /\ n <= N
    BY <2>1
  <2>3. g[n] \in S
    BY <1>2, <2>2
  <2>4. g[n + 1] = step[n + 1][g[n]]
    BY <2>2, <2>3 DEF Obeys
  <2> QED
    BY <2>3, <2>4
<1> HIDE DEF T
<1>3. Nat \subseteq T
  BY <1>1, <1>2, Induction
<1>4. \A n \in 0 .. N : n \in T /\ n <= N
  BY <1>3
<1>5. \A n \in 0 .. N : g[n] \in S
  BY <1>4 DEF T
<1>6. \A n \in 1 .. N : n - 1 \in 0 .. N
  OBVIOUS
<1> QED
  BY <1>5, <1>6 DEF Obeys, Chain

(* The bits of a word that is shifted. *)
LEMMA ShiftMembers ==
    ASSUME NEW x \in SUBSET Nat, NEW k \in Nat
    PROVE  \A y : y \in Shr(x, k) <=> y \in Nat /\ y + k \in x
<1>1. ASSUME NEW y, y \in Shr(x, k) PROVE y \in Nat /\ y + k \in x
  <2>1. PICK i \in {j \in x : j >= k} : y = i - k
    BY <1>1 DEF Shr
  <2> QED
    BY <2>1
<1>2. ASSUME NEW y \in Nat, y + k \in x PROVE y \in Shr(x, k)
  <2>1. y + k \in {j \in x : j >= k} /\ y = (y + k) - k
    BY <1>2
  <2> QED
    BY <2>1 DEF Shr
<1> QED
  BY <1>1, <1>2

(* One shift of the checksum is a word, *)
LEMMA CrcShiftIsWord ==
    ASSUME NEW c \in Word(32), NEW k
    PROVE  CrcShift(c, k) \in Word(32) /\ CrcPolynomial \in Word(32)
<1>1. CrcPolynomial \in Word(32)
  <2> DEFINE groups == <<60856, 33568>>
  <2>1. Len(groups) = 2 /\ DOMAIN groups = 1 .. 2
    OBVIOUS
  <2>2. \A k1 \in DOMAIN groups : \A i \in WordOf(groups[k1], 16) :
           i + 16 * (Len(groups) - k1) \in 0 .. 31
    <3> SUFFICES ASSUME NEW k1 \in 1 .. 2, NEW i \in 0 .. 15
                 PROVE  i + 16 * (2 - k1) \in 0 .. 31
      BY <2>1 DEF WordOf, Positions
    <3>1. k1 = 1 \/ k1 = 2
      OBVIOUS
    <3> QED
      BY <3>1
  <2> HIDE DEF groups
  <2>3. ASSUME NEW y \in Limbs(groups) PROVE y \in 0 .. 31
    <3>1. PICK k1 \in DOMAIN groups :
             y \in {i + 16 * (Len(groups) - k1) : i \in WordOf(groups[k1], 16)}
      BY <2>3 DEF Limbs
    <3> QED
      BY <2>2, <3>1
  <2>4. Positions(32) = 0 .. 31
    BY DEF Positions
  <2> QED
    BY <2>3, <2>4 DEF CrcPolynomial, Word, groups
<1>2. Positions(32) \subseteq Nat /\ c \subseteq Nat /\ c \subseteq 0 .. 31 /\ Positions(32) = 0 .. 31
  BY DEF Positions, Word
<1>3. Shr(c, 1) \subseteq 0 .. 31
  <2>1. \A y \in Shr(c, 1) : y \in Nat /\ y + 1 \in 0 .. 31
    BY <1>2, ShiftMembers
  <2> QED
    BY <2>1
<1> QED
  BY <1>1, <1>2, <1>3 DEF CrcShift, Word, Xor

(* and eight of them are a chain. *)
LEMMA ShiftsInTurn ==
    ASSUME NEW c \in Word(32)
    PROVE  \E f \in [0 .. 8 -> Word(32)] :
              /\ f[0] = c
              /\ \A n \in 1 .. 8 : f[n] = CrcShift(f[n - 1], n)
              /\ Shifted8(c) = f[8]
<1> DEFINE S == Word(32)
           q == <<1, 2, 3, 4, 5, 6, 7, 8>>
           step == [k \in Nat |-> [u \in S |-> CrcShift(u, k)]]
           IsTurn(f) == f = [n \in 0 .. Len(q) |-> IF n = 0 THEN c ELSE CrcShift(f[n - 1], q[n])]
           f == CHOOSE f : IsTurn(f)
<1>1. Shifted8(c) = f[Len(q)]
  BY DEF Shifted8, InTurn
<1>2. Len(q) = 8
  OBVIOUS
<1>3. \A u, k, l : CrcShift(u, k) = CrcShift(u, l)
  BY DEF CrcShift
<1> HIDE DEF q
<1>4. step \in [Nat -> [S -> S]]
  BY CrcShiftIsWord
<1>5. \A k \in Nat, u \in S : step[k][u] = CrcShift(u, k)
  OBVIOUS
<1> HIDE DEF step, S
<1>6. c \in S /\ 8 \in Nat
  BY DEF S
<1>7. PICK e : e \in [0 .. 8 -> S] /\ Chain(e, c, step, 8)
  BY <1>4, <1>6, ChainExists
<1>8. \A n \in 0 .. 8 : n = 0 \/ (n \in 1 .. 8 /\ n - 1 \in 0 .. 8 /\ n \in Nat)
  OBVIOUS
<1>9. \A n \in 1 .. 8 : n \in 0 .. 8 /\ n # 0 /\ n \in Nat /\ n - 1 \in 0 .. 8
  OBVIOUS
<1>16. e \in [0 .. 8 -> S]
  BY <1>7
<1>10. IsTurn(e)
  <2>1. \A n \in 0 .. 8 : e[n] = IF n = 0 THEN c ELSE CrcShift(e[n - 1], q[n])
    <3>1. e[0] = c
      BY <1>7 DEF Chain
    <3>2. ASSUME NEW n \in 1 .. 8 PROVE e[n] = CrcShift(e[n - 1], q[n])
      <4>1. e[n] = step[n][e[n - 1]] /\ e[n - 1] \in S
        BY <1>7, <1>9 DEF Chain
      <4> QED
        BY <1>3, <1>5, <1>9, <4>1
    <3> QED
      BY <1>8, <3>1, <3>2
  <2> QED
    BY <1>2, <1>16, <2>1
<1>11. IsTurn(f)
  <2> HIDE DEF IsTurn
  <2> QED
    BY <1>10
<1> HIDE DEF f
<1>12. f[0] = c /\ \A n \in 1 .. 8 : f[n] = CrcShift(f[n - 1], n)
  <2>1. \A n \in 0 .. 8 : f[n] = IF n = 0 THEN c ELSE CrcShift(f[n - 1], q[n])
    BY <1>2, <1>11
  <2>2. f[0] = c
    BY <2>1
  <2> QED
    BY <1>3, <1>9, <2>1, <2>2
<1>13. Obeys(f, S, c, step, 8)
  BY <1>5, <1>9, <1>12 DEF Obeys
<1>14. \A n \in 0 .. 8 : f[n] \in S
  BY <1>4, <1>6, <1>13, LoopsAreChains
<1>15. f \in [0 .. 8 -> S]
  BY <1>2, <1>11, <1>14
<1> QED
  BY <1>1, <1>2, <1>12, <1>15 DEF S

(* The bits that are shifted out act alone on the result. *)
LEMMA LowBitsAct ==
    ASSUME NEW x \in Word(32)
    PROVE  /\ Shifted8(x) = Xor(Shifted8(x \cap Positions(8)), Shr(x, 8))
           /\ Shifted8(x) \in Word(32)
<1> DEFINE low == x \cap Positions(8)
           high == x \ Positions(8)
<1>1. low \in Word(32) /\ high \in SUBSET Nat /\ x \in SUBSET Nat
  BY DEF Word, Positions
<1>2. PICK f \in [0 .. 8 -> Word(32)] : /\ f[0] = x
                                        /\ \A n \in 1 .. 8 : f[n] = CrcShift(f[n - 1], n)
                                        /\ Shifted8(x) = f[8]
  BY ShiftsInTurn
<1>3. PICK g \in [0 .. 8 -> Word(32)] : /\ g[0] = low
                                        /\ \A n \in 1 .. 8 : g[n] = CrcShift(g[n - 1], n)
                                        /\ Shifted8(low) = g[8]
  BY <1>1, ShiftsInTurn
<1> DEFINE T == {n \in Nat : n <= 8 => f[n] = Xor(g[n], Shr(high, n))}
<1>4. 0 \in T
  <2>1. Shr(high, 0) = high
    <3>1. \A y : y \in Shr(high, 0) <=> y \in high
      BY <1>1, ShiftMembers
    <3> QED
      BY <3>1
  <2>2. x = Xor(low, high)
    BY DEF Xor
  <2> QED
    BY <1>2, <1>3, <2>1, <2>2
<1>5. ASSUME NEW n \in Nat, n \in T
      PROVE  n + 1 \in T
  <2>1. SUFFICES ASSUME n + 1 <= 8 PROVE f[n + 1] = Xor(g[n + 1], Shr(high, n + 1))
    OBVIOUS
  <2>2. n + 1 \in 1 .. 8 /\ (n + 1) - 1 = n /\ n \in 0 .. 8 /\ n <= 8 /\ n < 8
    BY <2>1
  <2> DEFINE a == g[n]
             h == Shr(high, n)
  <2>3. f[n] = Xor(a, h) /\ a \in Word(32)
    BY <1>3, <1>5, <2>2
  <2>4. f[n + 1] = CrcShift(Xor(a, h), n + 1) /\ g[n + 1] = CrcShift(a, n + 1)
    BY <1>2, <1>3, <2>2, <2>3
  <2>5. h \in SUBSET Nat /\ 0 \notin h
    <3>1. \A y : y \in h <=> y \in Nat /\ y + n \in high
      BY <1>1, ShiftMembers
    <3>2. 0 + n = n /\ n \notin high
      BY <2>2 DEF Positions
    <3> HIDE DEF h, high
    <3> QED
      BY <3>1, <3>2
  <2>6. a \in SUBSET Nat
    BY <2>3 DEF Word, Positions
  <2>7. Shr(h, 1) = Shr(high, n + 1)
    <3>1. \A y : y \in Shr(h, 1) <=> y \in Nat /\ y + 1 \in h
      BY <2>5, ShiftMembers
    <3>2. \A y : y \in h <=> y \in Nat /\ y + n \in high
      BY <1>1, ShiftMembers
    <3>3. \A y : y \in Shr(high, n + 1) <=> y \in Nat /\ y + (n + 1) \in high
      BY <1>1, ShiftMembers
    <3>4. \A y \in Nat : y + 1 \in Nat /\ (y + 1) + n = y + (n + 1)
      OBVIOUS
    <3> HIDE DEF h, high
    <3> QED
      BY <3>1, <3>2, <3>3, <3>4
  <2> HIDE DEF a, h
  <2>8. Shr(Xor(a, h), 1) = Xor(Shr(a, 1), Shr(h, 1))
    <3>1. Xor(a, h) \in SUBSET Nat
      BY <2>5, <2>6 DEF Xor
    <3>2. \A y : /\ y \in Shr(Xor(a, h), 1) <=> y \in Nat /\ y + 1 \in Xor(a, h)
                 /\ y \in Shr(a, 1) <=> y \in Nat /\ y + 1 \in a
                 /\ y \in Shr(h, 1) <=> y \in Nat /\ y + 1 \in h
      BY <2>5, <2>6, <3>1, ShiftMembers
    <3> QED
      BY <3>2 DEF Xor
  <2>9. 0 \in Xor(a, h) <=> 0 \in a
    BY <2>5 DEF Xor
  <2>10. \A u, v, w : Xor(u, Xor(v, w)) = Xor(Xor(u, v), w)
    BY DEF Xor
  <2>11. CrcShift(Xor(a, h), n + 1) = Xor(CrcShift(a, n + 1), Shr(h, 1))
    BY <2>8, <2>9, <2>10 DEF CrcShift
  <2> QED
    BY <2>4, <2>7, <2>11
<1> HIDE DEF T
<1>6. 8 \in T
  BY <1>4, <1>5, Induction
<1>7. Shifted8(x) = Xor(Shifted8(low), Shr(high, 8))
  BY <1>2, <1>3, <1>6 DEF T
<1>8. Shr(high, 8) = Shr(x, 8)
  <2>1. \A y \in Nat : y + 8 \in high <=> y + 8 \in x
    BY DEF Positions
  <2>2. \A y : /\ y \in Shr(high, 8) <=> y \in Nat /\ y + 8 \in high
               /\ y \in Shr(x, 8) <=> y \in Nat /\ y + 8 \in x
    BY <1>1, ShiftMembers
  <2> HIDE DEF high
  <2> QED
    BY <2>1, <2>2
<1>9. Shifted8(x) \in Word(32)
  <2>1. 8 \in 0 .. 8
    OBVIOUS
  <2> QED
    BY <1>2, <2>1
<1> QED
  BY <1>7, <1>8, <1>9

(* A byte is the word of its value. *)
LEMMA ByteOfValue ==
    ASSUME NEW y \in Word(8)
    PROVE  Value(y) \in 0 .. 255 /\ WordOf(Value(y), 8) = y
<1> DEFINE b(i) == IF i \in y THEN 1 ELSE 0
<1>1. PICK f : SumsUp(f, y, 8) /\ Value(y) = f[8]
  BY ValueSums
<1>2. /\ 2^0 = 1 /\ 2^1 = 2 /\ 2^2 = 4 /\ 2^3 = 8 /\ 2^4 = 16 /\ 2^5 = 32 /\ 2^6 = 64 /\ 2^7 = 128
  OBVIOUS
<1>3. f[0] = 0
  BY <1>1 DEF SumsUp
<1>4. /\ f[1] = b(0) /\ f[2] = f[1] + 2 * b(1) /\ f[3] = f[2] + 4 * b(2) /\ f[4] = f[3] + 8 * b(3)
      /\ f[5] = f[4] + 16 * b(4) /\ f[6] = f[5] + 32 * b(5) /\ f[7] = f[6] + 64 * b(6)
      /\ f[8] = f[7] + 128 * b(7)
  <2>1. \A i \in 1 .. 8 : f[i] = f[i - 1] + Bit1(y, i - 1)
    BY <1>1 DEF SumsUp
  <2>2. /\ Bit1(y, 0) = b(0) /\ Bit1(y, 1) = 2 * b(1) /\ Bit1(y, 2) = 4 * b(2) /\ Bit1(y, 3) = 8 * b(3)
        /\ Bit1(y, 4) = 16 * b(4) /\ Bit1(y, 5) = 32 * b(5) /\ Bit1(y, 6) = 64 * b(6)
        /\ Bit1(y, 7) = 128 * b(7)
    BY <1>2 DEF Bit1
  <2>3. /\ f[1] = f[0] + Bit1(y, 0) /\ f[2] = f[1] + Bit1(y, 1) /\ f[3] = f[2] + Bit1(y, 2)
        /\ f[4] = f[3] + Bit1(y, 3) /\ f[5] = f[4] + Bit1(y, 4) /\ f[6] = f[5] + Bit1(y, 5)
        /\ f[7] = f[6] + Bit1(y, 6) /\ f[8] = f[7] + Bit1(y, 7)
    BY <2>1
  <2> QED
    BY <1>3, <2>2, <2>3
<1> DEFINE n == Value(y)
<1>5. n = b(0) + 2 * b(1) + 4 * b(2) + 8 * b(3) + 16 * b(4) + 32 * b(5) + 64 * b(6) + 128 * b(7)
  BY <1>1, <1>4
<1>6. \A i \in 0 .. 7 : b(i) \in 0 .. 1 /\ (b(i) = 1 <=> i \in y)
  OBVIOUS
<1> HIDE DEF n, b
<1>13. /\ b(0) \in 0 .. 1 /\ b(1) \in 0 .. 1 /\ b(2) \in 0 .. 1 /\ b(3) \in 0 .. 1
       /\ b(4) \in 0 .. 1 /\ b(5) \in 0 .. 1 /\ b(6) \in 0 .. 1 /\ b(7) \in 0 .. 1
  BY <1>6
<1>7. n \in 0 .. 255
  BY <1>5, <1>13
<1>20. n % 2 = b(0)
  BY <1>5, <1>13
<1>21. (n \div 2) % 2 = b(1)
  BY <1>5, <1>13
<1>22. (n \div 4) % 2 = b(2)
  BY <1>5, <1>13
<1>23. (n \div 8) % 2 = b(3)
  BY <1>5, <1>13
<1>24. (n \div 16) % 2 = b(4)
  BY <1>5, <1>13
<1>25. (n \div 32) % 2 = b(5)
  BY <1>5, <1>13
<1>26. (n \div 64) % 2 = b(6)
  BY <1>5, <1>13
<1>27. (n \div 128) % 2 = b(7)
  BY <1>5, <1>13
<1>9. \A i \in 0 .. 7 : (n \div 2^i) % 2 = b(i)
  <2> SUFFICES ASSUME NEW i \in 0 .. 7 PROVE (n \div 2^i) % 2 = b(i)
    OBVIOUS
  <2>1. n \div 1 = n
    BY <1>7
  <2>2. i = 0 \/ i = 1 \/ i = 2 \/ i = 3 \/ i = 4 \/ i = 5 \/ i = 6 \/ i = 7
    OBVIOUS
  <2>3. CASE i = 0
    BY <1>2, <1>20, <2>1, <2>3
  <2>4. CASE i = 1
    BY <1>2, <1>21, <2>1, <2>4
  <2>5. CASE i = 2
    BY <1>2, <1>22, <2>1, <2>5
  <2>6. CASE i = 3
    BY <1>2, <1>23, <2>1, <2>6
  <2>7. CASE i = 4
    BY <1>2, <1>24, <2>1, <2>7
  <2>8. CASE i = 5
    BY <1>2, <1>25, <2>1, <2>8
  <2>9. CASE i = 6
    BY <1>2, <1>26, <2>1, <2>9
  <2>10. CASE i = 7
    BY <1>2, <1>27, <2>1, <2>10
  <2> QED
    BY <2>2, <2>3, <2>4, <2>5, <2>6, <2>7, <2>8, <2>9, <2>10
<1>10. \A i \in Positions(8) : i \in 0 .. 7 /\ i < 31
  BY DEF Positions
<1>11. \A i \in Positions(8) : i < 31 /\ (n \div 2^i) % 2 = 1 <=> i \in y
  BY <1>6, <1>9, <1>10
<1>12. y \subseteq Positions(8)
  BY DEF Word
<1> QED
  BY <1>7, <1>11, <1>12 DEF WordOf, n

(* A step by the table is the eight shifts of a step bit by bit. *)
LEMMA TableStep ==
    ASSUME NEW c \in Word(32), NEW n
    PROVE  LET x == Xor(c, WordOf(n, 8))
           IN /\ x \in Word(32)
              /\ Shifted8(x) \in Word(32)
              /\ Xor(CrcTable[Value(x \cap Positions(8))], Shr(c, 8)) = Shifted8(x)
<1> DEFINE w == WordOf(n, 8)
           x == Xor(c, w)
           low == x \cap Positions(8)
<1>1. w \subseteq Positions(8)
  BY DEF WordOf
<1>2. Positions(8) = 0 .. 7 /\ Positions(32) = 0 .. 31
  BY DEF Positions
<1> HIDE DEF w
<1>3. x \in Word(32)
  <2>1. Positions(8) \subseteq Positions(32)
    BY <1>2
  <2> QED
    BY <1>1, <2>1 DEF Word, Xor
<1>4. low \in Word(8)
  BY DEF Word
<1>5. Shr(x, 8) = Shr(c, 8)
  <2>1. c \in SUBSET Nat /\ x \in SUBSET Nat
    BY <1>2, <1>3 DEF Word
  <2>2. \A y : /\ y \in Shr(x, 8) <=> y \in Nat /\ y + 8 \in x
               /\ y \in Shr(c, 8) <=> y \in Nat /\ y + 8 \in c
    BY <2>1, ShiftMembers
  <2>3. \A y \in Nat : y + 8 \notin w
    BY <1>1, <1>2
  <2>4. \A y \in Nat : y + 8 \in x <=> y + 8 \in c
    BY <2>3 DEF Xor
  <2> HIDE DEF x
  <2> QED
    BY <2>2, <2>4
<1> HIDE DEF x
<1>6. Shifted8(x) = Xor(Shifted8(low), Shr(x, 8)) /\ Shifted8(x) \in Word(32)
  BY <1>3, LowBitsAct
<1> HIDE DEF low
<1>7. CrcTable[Value(low)] = Shifted8(low)
  <2>1. Value(low) \in 0 .. 255 /\ WordOf(Value(low), 8) = low
    BY <1>4, ByteOfValue
  <2>2. \A v \in 0 .. 255 : CrcTable[v] = Shifted8(WordOf(v, 8))
    BY DEF CrcTable
  <2> QED
    BY <2>1, <2>2
<1>8. Xor(CrcTable[Value(low)], Shr(c, 8)) = Shifted8(x)
  BY <1>5, <1>6, <1>7
<1> QED
  BY <1>3, <1>6, <1>8 DEF x, w, low

(* So the two programs agree on every byte string. *)
LEMMA CrcsAgree ==
    ASSUME NEW bytes, Len(bytes) \in Nat
    PROVE  Crc32Bitwise(bytes) = Crc32ByTable(bytes)
<1> DEFINE N == Len(bytes)
           W == Word(32)
           ones == Positions(32)
           OneBit(c, k) == Shifted8(Xor(c, WordOf(bytes[k], 8)))
           OneRow(c, k) == Xor(CrcTable[Value(Xor(c, WordOf(bytes[k], 8)) \cap Positions(8))],
                               Shr(c, 8))
           BitS(c, k) == [u \in W |-> OneBit(u, k)][c]
           RowS(c, k) == [u \in W |-> OneRow(u, k)][c]
           ByBit(f) == f = [i \in 0 .. N |-> IF i = 0 THEN ones ELSE BitS(f[i - 1], i)]
           ByRow(f) == f = [i \in 0 .. N |-> IF i = 0 THEN ones ELSE RowS(f[i - 1], i)]
           f == CHOOSE f : ByBit(f)
           g == CHOOSE g : ByRow(g)
           step == [k \in Nat |-> [c \in W |-> OneBit(c, k)]]
<1>1. Crc32Bitwise(bytes) = Complement(f[N], 32)
  BY DEF Crc32Bitwise
<1>2. Crc32ByTable(bytes) = Complement(g[N], 32)
  BY DEF Crc32ByTable
<1>4. \A c \in W : \A k : OneBit(c, k) \in W /\ OneRow(c, k) = OneBit(c, k)
  BY TableStep
<1>5. ones \in W
  BY DEF Word
<1> HIDE DEF BitS, RowS, OneBit, OneRow, W, ones, N
<1>6. step \in [Nat -> [W -> W]]
  BY <1>4
<1>7. \A k \in Nat : \A c : BitS(c, k) = step[k][c] /\ RowS(c, k) = step[k][c]
  <2>1. ASSUME NEW k \in Nat
        PROVE  \A c : BitS(c, k) = step[k][c] /\ RowS(c, k) = step[k][c]
    <3>1. step[k] = [u \in W |-> OneBit(u, k)]
      OBVIOUS
    <3>2. [u \in W |-> OneRow(u, k)] = [u \in W |-> OneBit(u, k)]
      BY <1>4
    <3> QED
      BY <3>1, <3>2 DEF BitS, RowS
  <2> QED
    BY <2>1
<1> HIDE DEF step
<1>8. PICK e \in [0 .. N -> W] : Chain(e, ones, step, N)
  BY <1>5, <1>6, ChainExists DEF N
<1>9. /\ \A i \in 0 .. N : i = 0 \/ (i \in 1 .. N /\ i \in Nat /\ i - 1 \in 0 .. N)
      /\ \A i \in 1 .. N : i # 0 /\ i \in 0 .. N /\ i \in Nat /\ i - 1 \in 0 .. N
      /\ N \in Nat /\ N \in 0 .. N /\ N <= N /\ 0 \in 0 .. N
  BY DEF N
<1>10. /\ e[0] = ones
       /\ \A i \in 1 .. N : e[i] = BitS(e[i - 1], i) /\ e[i] = RowS(e[i - 1], i)
  <2>1. e[0] = ones /\ \A i \in 1 .. N : e[i] = step[i][e[i - 1]]
    BY <1>8 DEF Chain
  <2> QED
    BY <1>7, <1>9, <2>1
<1>11. ByBit(e) /\ ByRow(e)
  <2>1. \A i \in 0 .. N : /\ e[i] = IF i = 0 THEN ones ELSE BitS(e[i - 1], i)
                          /\ e[i] = IF i = 0 THEN ones ELSE RowS(e[i - 1], i)
    BY <1>9, <1>10
  <2> QED
    BY <2>1
<1>12. ByBit(f) /\ ByRow(g)
  <2> HIDE DEF ByBit, ByRow
  <2> QED
    BY <1>11
<1> HIDE DEF f, g
<1>13. /\ f[0] = ones /\ g[0] = ones
       /\ \A i \in 1 .. N : f[i] = step[i][f[i - 1]] /\ g[i] = step[i][g[i - 1]]
  <2>1. \A i \in 0 .. N : /\ f[i] = IF i = 0 THEN ones ELSE BitS(f[i - 1], i)
                          /\ g[i] = IF i = 0 THEN ones ELSE RowS(g[i - 1], i)
    BY <1>12
  <2>2. /\ f[0] = ones /\ g[0] = ones
        /\ \A i \in 1 .. N : f[i] = BitS(f[i - 1], i) /\ g[i] = RowS(g[i - 1], i)
    BY <1>9, <2>1
  <2> QED
    BY <1>7, <1>9, <2>2
<1> HIDE DEF ByBit, ByRow
<1>14. Obeys(f, W, ones, step, N) /\ Obeys(g, W, ones, step, N)
  BY <1>13 DEF Obeys
<1>15. Chain(f, ones, step, N) /\ Chain(g, ones, step, N)
  BY <1>5, <1>6, <1>9, <1>14, LoopsAreChains
<1>16. \A n \in Nat : n <= N /\ n <= N => f[n] = g[n]
  BY <1>9, <1>15, SameChain
<1>17. f[N] = g[N]
  BY <1>9, <1>16
<1> QED
  BY <1>1, <1>2, <1>17

-----------------------------------------------------------------------------
(* The lines of an image.                                                  *)
IsMatrix(m) ==
    /\ m.bits \in Nat /\ m.n \in Positive
    /\ m.k \in [(0 .. m.bits - 1) \X (0 .. m.bits - 1) -> 0 .. m.n]

(* A colour is three bytes. *)
LEMMA ColourIsPixel ==
    ASSUME NEW n \in Positive, NEW k \in 0 .. n
    PROVE  Colour(k, n) \in Seq(Nat) /\ Len(Colour(k, n)) = 3
<1> DEFINE side == IF 2 * k < n THEN k ELSE n - k
           c == (1020 * side + n) \div (2 * n)
<1>1. n \in Nat /\ n >= 1 /\ 2 * n \in Positive
  BY DEF Positive
<1>2. side \in Nat
  BY <1>1
<1> HIDE DEF side
<1>3. 1020 * side + n \in Nat
  BY <1>1, <1>2
<1>4. c \in Nat
  BY <1>1, <1>3, Quotient
<1>5. Colour(k, n) = IF 2 * k < n THEN <<c, c, 255>> ELSE <<255, c, c>>
  BY DEF Colour, side
<1> HIDE DEF c
<1> QED
  BY <1>4, <1>5

(* Every row of pixels shows a row of the matrix. *)
LEMMA CellOf ==
    ASSUME NEW s \in Positive, NEW b \in Nat, NEW y \in 1 .. b * s
    PROVE  (y - 1) \div s \in 0 .. b - 1
<1> DEFINE q == (y - 1) \div s
<1>1. s \in Nat /\ s >= 1 /\ b * s \in Nat /\ y - 1 \in Nat /\ y - 1 < b * s
  BY DEF Positive
<1>2. q \in Nat /\ q * s <= y - 1
  BY <1>1, Quotient
<1> HIDE DEF q
<1>3. ~ (b <= q)
  <2>1. SUFFICES ASSUME b <= q PROVE FALSE
    OBVIOUS
  <2>2. b * s <= q * s /\ q * s \in Nat
    BY <1>1, <1>2, <2>1, Products
  <2> QED
    BY <1>1, <1>2, <2>2
<1>4. q \in 0 .. b - 1
  BY <1>2, <1>3
<1> QED
  BY <1>4 DEF q

(* Pieces of one length, the last included. *)
ArePieces(f, n, c) == f \in [1 .. n -> Seq(Nat)] /\ \A i \in 1 .. n : Len(f[i]) = c

(* Pieces of one length stand at its multiples. *)
LEMMA EqualPieces ==
    ASSUME NEW n \in Nat, NEW c \in Nat, NEW f, ArePieces(f, n, c)
    PROVE  /\ FlattenSeq(f) \in Seq(Nat)
           /\ Len(FlattenSeq(f)) = n * c
           /\ \A i \in 1 .. n : Stands(f[i], FlattenSeq(f), (i - 1) * c)
<1> DEFINE Q == Seq(Nat)
<1>1. f \in Seq(Q) /\ Len(f) = n
  <2>1. f \in [1 .. n -> Q]
    BY DEF ArePieces
  <2> HIDE DEF Q
  <2> QED
    BY <2>1, Tabled
<1>2. \A i \in 1 .. Len(f) - 1 : Len(f[i]) = c
  BY <1>1 DEF ArePieces
<1>3. /\ FlattenSeq(f) \in Seq(Nat)
      /\ n = 0 => FlattenSeq(f) = <<>>
      /\ n # 0 => Len(FlattenSeq(f)) = (n - 1) * c + Len(f[n])
      /\ \A i \in 1 .. n : Stands(f[i], FlattenSeq(f), (i - 1) * c)
  BY <1>1, <1>2, PiecesStand
<1> DEFINE flat == FlattenSeq(f)
<1> HIDE DEF flat, Q
<1>4. Len(flat) = n * c
  <2>1. CASE n = 0
    <3>1. flat = <<>> /\ n * c = 0
      BY <1>3, <2>1 DEF flat
    <3> QED
      BY <3>1
  <2>2. CASE n # 0
    <3>1. n \in 1 .. n /\ (n - 1) * c + c = n * c
      BY <2>2
    <3> QED
      BY <1>3, <2>2, <3>1 DEF flat, ArePieces
  <2> QED
    BY <2>1, <2>2
<1> QED
  BY <1>3, <1>4 DEF flat

(* A scanline has three bytes for each pixel of its row. *)
LEMMA ScanlineIs ==
    ASSUME NEW m, IsMatrix(m), NEW s \in Positive, NEW y \in 1 .. m.bits * s
    PROVE  Scanline(m, y, s) \in Seq(Nat) /\ Len(Scanline(m, y, s)) = 3 * (m.bits * s)
<1> DEFINE n == m.bits * s
           f == [x \in 1 .. n |-> Colour(m.k[<<(y - 1) \div s, (x - 1) \div s>>], m.n)]
<1>1. n \in Nat
  BY DEF IsMatrix, Positive
<1>2. ASSUME NEW x \in 1 .. n
      PROVE  /\ Colour(m.k[<<(y - 1) \div s, (x - 1) \div s>>], m.n) \in Seq(Nat)
             /\ Len(Colour(m.k[<<(y - 1) \div s, (x - 1) \div s>>], m.n)) = 3
  <2>1. (y - 1) \div s \in 0 .. m.bits - 1 /\ (x - 1) \div s \in 0 .. m.bits - 1
    BY CellOf DEF IsMatrix
  <2> DEFINE i == (y - 1) \div s
             j == (x - 1) \div s
  <2> HIDE DEF i, j
  <2>2. m.k[<<i, j>>] \in 0 .. m.n /\ m.n \in Positive
    BY <2>1 DEF IsMatrix, i, j
  <2> QED
    BY <2>2, ColourIsPixel DEF i, j
<1>3. ArePieces(f, n, 3)
  BY <1>2 DEF ArePieces
<1>4. Scanline(m, y, s) = FlattenSeq(f)
  BY DEF Scanline
<1> HIDE DEF f
<1>5. FlattenSeq(f) \in Seq(Nat) /\ Len(FlattenSeq(f)) = n * 3
  BY <1>1, <1>3, EqualPieces
<1>6. n * 3 = 3 * n
  BY <1>1
<1> QED
  BY <1>4, <1>5, <1>6

(* The rows of the image data, each after a filter byte. *)
Filtered(m, s) == FlattenSeq([y \in 1 .. m.bits * s |-> <<0>> \o Scanline(m, y, s)])

(* Without their filter bytes they are the rows of the other format.       *)
LEMMA RowsComeBack ==
    ASSUME NEW m, IsMatrix(m), NEW s \in Positive
    PROVE  LET side == m.bits * s
               raw == Filtered(m, s)
               width == 1 + 3 * side
           IN /\ raw \in Seq(Nat)
              /\ Len(raw) = side * width
              /\ Unfiltered(raw, width) = FlattenSeq([y \in 1 .. side |-> Scanline(m, y, s)])
<1> DEFINE side == m.bits * s
           width == 1 + 3 * side
           f == [y \in 1 .. side |-> <<0>> \o Scanline(m, y, s)]
           raw == FlattenSeq(f)
           rows == Len(raw) \div width
<1>1. side \in Nat /\ width \in Positive /\ width \in Nat
  BY DEF IsMatrix, Positive
<1>2. ASSUME NEW y \in 1 .. side
      PROVE  /\ Scanline(m, y, s) \in Seq(Nat) /\ Len(Scanline(m, y, s)) = 3 * side
             /\ f[y] = <<0>> \o Scanline(m, y, s)
             /\ f[y] \in Seq(Nat) /\ Len(f[y]) = width
  <2>1. Scanline(m, y, s) \in Seq(Nat) /\ Len(Scanline(m, y, s)) = 3 * side
    BY ScanlineIs
  <2>2. <<0>> \in Seq(Nat) /\ Len(<<0>>) = 1
    OBVIOUS
  <2> QED
    BY <2>1, <2>2, LengthsAdd
<1>3. ArePieces(f, side, width)
  <2>1. f = [y \in 1 .. side |-> f[y]]
    OBVIOUS
  <2> HIDE DEF f
  <2> QED
    BY <1>2, <2>1 DEF ArePieces
<1> HIDE DEF f, side
<1>4. /\ raw \in Seq(Nat) /\ Len(raw) = side * width
      /\ \A y \in 1 .. side : Stands(f[y], raw, (y - 1) * width)
  <2> HIDE DEF width
  <2> QED
    BY <1>1, <1>3, EqualPieces
<1> HIDE DEF raw
<1>5. rows = side
  <2> HIDE DEF width
  <2> QED
    BY <1>1, <1>4, Divided
<1>6. ASSUME NEW y \in 1 .. side
      PROVE  SubSeq(raw, (y - 1) * width + 2, y * width) = Scanline(m, y, s)
  <2> DEFINE o == (y - 1) * width
             line == Scanline(m, y, s)
  <2>1. o \in Nat /\ y * width = o + width
    <3>1. y - 1 \in Nat /\ (y - 1) + 1 = y
      BY <1>1
    <3> HIDE DEF width
    <3>2. (y - 1) * width \in Nat /\ ((y - 1) + 1) * width = (y - 1) * width + width
      BY <1>1, <3>1
    <3> QED
      BY <3>1, <3>2
  <2>2. Stands(<<0>> \o line, raw, o) /\ line \in Seq(Nat) /\ Len(line) = 3 * side
    BY <1>2, <1>4
  <2> HIDE DEF o, line
  <2>3. Stands(line, raw, o + Len(<<0>>))
    <3>1. <<0>> \in Seq(Nat)
      OBVIOUS
    <3> QED
      BY <1>4, <2>1, <2>2, <3>1, PartsStand
  <2>4. o + 1 \in Nat /\ Len(<<0>>) = 1 /\ o + 1 + 1 = o + 2 /\ o + 1 + 3 * side = o + width
    BY <1>1, <2>1
  <2>5. SubSeq(raw, o + 1 + 1, o + 1 + Len(line)) = line
    BY <1>4, <2>2, <2>3, <2>4, ReadsWhatStands
  <2> QED
    BY <2>1, <2>2, <2>4, <2>5 DEF o, line
<1>7. Unfiltered(raw, width) = FlattenSeq([y \in 1 .. side |-> Scanline(m, y, s)])
  <2>1. [y \in 1 .. rows |-> SubSeq(raw, (y - 1) * width + 2, y * width)]
           = [y \in 1 .. side |-> Scanline(m, y, s)]
    BY <1>5, <1>6
  <2> QED
    BY <2>1 DEF Unfiltered
<1>8. Filtered(m, s) = raw
  BY DEF Filtered, raw, f, side
<1> QED
  BY <1>4, <1>7, <1>8 DEF side

(* A tuple of two parts. *)
JoinsTo(s, t, u) ==
    /\ Len(u) = Len(s) + Len(t)
    /\ \A i \in 1 .. Len(s) : u[i] = s[i]
    /\ \A i \in 1 .. Len(t) : u[Len(s) + i] = t[i]

(* Parts that join to a whole concatenate to it, *)
LEMMA JoinsAs ==
    ASSUME NEW s \in Seq(Nat), NEW t \in Seq(Nat), NEW u \in Seq(Nat), JoinsTo(s, t, u)
    PROVE  s \o t = u
<1> DEFINE n == Len(s)
           m == Len(t)
<1>3. n \in Nat /\ m \in Nat /\ Len(u) = n + m
      /\ (\A i \in 1 .. n : u[i] = s[i]) /\ \A i \in 1 .. m : u[n + i] = t[i]
  BY LenProperties DEF JoinsTo
<1>1. /\ s \o t \in Seq(Nat) /\ Len(s \o t) = n + m
      /\ \A i \in 1 .. n + m : (s \o t)[i] = IF i <= n THEN s[i] ELSE t[i - n]
  BY ConcatProperties
<1> HIDE DEF n, m
<1>2. ASSUME NEW i \in 1 .. n + m PROVE (s \o t)[i] = u[i]
  <2>1. CASE i <= n
    <3>1. i \in 1 .. n
      BY <1>3, <2>1
    <3> QED
      BY <1>1, <1>3, <2>1, <3>1
  <2>2. CASE ~ (i <= n)
    <3>1. i - n \in 1 .. m /\ n + (i - n) = i
      BY <1>3, <2>2
    <3>2. u[n + (i - n)] = t[i - n]
      BY <1>3, <3>1
    <3> QED
      BY <1>1, <1>3, <2>2, <3>1, <3>2
  <2> QED
    BY <2>1, <2>2
<1> QED
  BY <1>1, <1>2, <1>3, SeqEqual

(* as do one byte and one, *)
LEMMA OneAndOne ==
    ASSUME NEW c \in Nat, NEW d \in Nat
    PROVE  <<c>> \o <<d>> = <<c, d>>
<1> DEFINE s == <<c>>
           t == <<d>>
           u == <<c, d>>
<1>1. /\ s \in Seq(Nat) /\ t \in Seq(Nat) /\ u \in Seq(Nat)
      /\ Len(s) = 1 /\ Len(t) = 1 /\ Len(u) = 2
      /\ s[1] = c /\ t[1] = d /\ u[1] = c /\ u[2] = d
  OBVIOUS
<1> HIDE DEF s, t, u
<1>2. JoinsTo(s, t, u)
  <2>1. \A i \in 1 .. 1 : i = 1 /\ 1 + i = 2
    OBVIOUS
  <2> QED
    BY <1>1, <2>1 DEF JoinsTo
<1>3. s \o t = u
  BY <1>1, <1>2, JoinsAs
<1> QED
  BY <1>3 DEF s, t, u

(* one and two, *)
LEMMA OneAndTwo ==
    ASSUME NEW b \in Nat, NEW c \in Nat, NEW d \in Nat
    PROVE  <<b>> \o <<c, d>> = <<b, c, d>>
<1> DEFINE s == <<b>>
           t == <<c, d>>
           u == <<b, c, d>>
<1>1. /\ s \in Seq(Nat) /\ t \in Seq(Nat) /\ u \in Seq(Nat)
      /\ Len(s) = 1 /\ Len(t) = 2 /\ Len(u) = 3
      /\ s[1] = b /\ t[1] = c /\ t[2] = d /\ u[1] = b /\ u[2] = c /\ u[3] = d
  OBVIOUS
<1> HIDE DEF s, t, u
<1>2. JoinsTo(s, t, u)
  <2>1. (\A i \in 1 .. 1 : i = 1) /\ \A i \in 1 .. 2 : (i = 1 /\ 1 + i = 2) \/ (i = 2 /\ 1 + i = 3)
    OBVIOUS
  <2> QED
    BY <1>1, <2>1 DEF JoinsTo
<1>3. s \o t = u
  BY <1>1, <1>2, JoinsAs
<1> QED
  BY <1>3 DEF s, t, u

(* and one and three. *)
LEMMA OneAndThree ==
    ASSUME NEW a \in Nat, NEW b \in Nat, NEW c \in Nat, NEW d \in Nat
    PROVE  <<a>> \o <<b, c, d>> = <<a, b, c, d>>
<1> DEFINE s == <<a>>
           t == <<b, c, d>>
           u == <<a, b, c, d>>
<1>1. /\ s \in Seq(Nat) /\ t \in Seq(Nat) /\ u \in Seq(Nat)
      /\ Len(s) = 1 /\ Len(t) = 3 /\ Len(u) = 4
      /\ s[1] = a /\ t[1] = b /\ t[2] = c /\ t[3] = d
      /\ u[1] = a /\ u[2] = b /\ u[3] = c /\ u[4] = d
  OBVIOUS
<1> HIDE DEF s, t, u
<1>2. JoinsTo(s, t, u)
  <2>1. /\ \A i \in 1 .. 1 : i = 1
        /\ \A i \in 1 .. 3 : (i = 1 /\ 1 + i = 2) \/ (i = 2 /\ 1 + i = 3) \/ (i = 3 /\ 1 + i = 4)
    OBVIOUS
  <2> QED
    BY <1>1, <2>1 DEF JoinsTo
<1>3. s \o t = u
  BY <1>1, <1>2, JoinsAs
<1> QED
  BY <1>3 DEF s, t, u

-----------------------------------------------------------------------------
(* The stored blocks of the image data.                                    *)
WrapsTo(f, v, s, M, N) ==
    f[0] = s /\ \A i \in 1 .. N : f[i] = (f[i - 1] + v[i]) % M

(* A sum that wraps around is computed, and is a number. *)
LEMMA SumsWrap ==
    ASSUME NEW N \in Nat, NEW s \in Nat, NEW M \in Positive, NEW v, \A i \in 1 .. N : v[i] \in Nat
    PROVE  /\ \E f \in [0 .. N -> Nat] : WrapsTo(f, v, s, M, N)
           /\ \A f : WrapsTo(f, v, s, M, N) => \A i \in 0 .. N : f[i] \in Nat
<1> DEFINE plus == [i \in Nat |-> [u \in Nat |-> IF i \in 1 .. N THEN (u + v[i]) % M ELSE 0]]
<1>1. \A i \in 1 .. N, u \in Nat : (u + v[i]) % M \in Nat
  <2>1. \A a \in Nat : a % M \in Nat
    BY DEF Positive
  <2>2. \A i \in 1 .. N, u \in Nat : u + v[i] \in Nat
    OBVIOUS
  <2> QED
    BY <2>1, <2>2
<1>2. plus \in [Nat -> [Nat -> Nat]]
  BY <1>1
<1>3. \A i \in 1 .. N, u \in Nat : plus[i][u] = (u + v[i]) % M
  OBVIOUS
<1> HIDE DEF plus
<1>4. \A i \in 1 .. N : i - 1 \in 0 .. N /\ i \in Nat
  OBVIOUS
<1>5. \E f \in [0 .. N -> Nat] : WrapsTo(f, v, s, M, N)
  <2>1. PICK e \in [0 .. N -> Nat] : Chain(e, s, plus, N)
    BY <1>2, ChainExists
  <2>2. e[0] = s /\ \A i \in 1 .. N : e[i] = plus[i][e[i - 1]]
    BY <2>1 DEF Chain
  <2>3. \A i \in 1 .. N : e[i - 1] \in Nat
    BY <1>4, <2>1
  <2>4. \A i \in 1 .. N : e[i] = (e[i - 1] + v[i]) % M
    BY <1>3, <2>2, <2>3
  <2>5. WrapsTo(e, v, s, M, N)
    BY <2>2, <2>4 DEF WrapsTo
  <2> QED
    BY <2>1, <2>5
<1>6. ASSUME NEW f, WrapsTo(f, v, s, M, N) PROVE \A i \in 0 .. N : f[i] \in Nat
  <2>1. f[0] = s /\ \A i \in 1 .. N : f[i] = (f[i - 1] + v[i]) % M
    BY <1>6 DEF WrapsTo
  <2>2. ASSUME NEW i \in 1 .. N, f[i - 1] \in Nat PROVE f[i] = plus[i][f[i - 1]]
    BY <1>3, <2>1, <2>2
  <2>3. Obeys(f, Nat, s, plus, N)
    BY <2>1, <2>2 DEF Obeys
  <2> QED
    BY <1>2, <2>3, LoopsAreChains
<1> QED
  BY <1>5, <1>6

SumFrom(N, s, M, v) ==
    CHOOSE g : g = [i \in 0 .. N |-> IF i = 0 THEN s ELSE (g[i - 1] + v[i]) % M]

(* So a loop over bytes that keeps such a sum bears a number. *)
LEMMA LoopWraps ==
    ASSUME NEW N \in Nat, NEW s \in Nat, NEW M \in Positive, NEW v, \A i \in 1 .. N : v[i] \in Nat
    PROVE  \A i \in 0 .. N : SumFrom(N, s, M, v)[i] \in Nat
<1> DEFINE f == SumFrom(N, s, M, v)
           IsSum(g) == g = [i \in 0 .. N |-> IF i = 0 THEN s ELSE (g[i - 1] + v[i]) % M]
<1>1. PICK e \in [0 .. N -> Nat] : WrapsTo(e, v, s, M, N)
  BY SumsWrap
<1>2. IsSum(e)
  <2>1. ASSUME NEW i \in 0 .. N
        PROVE  e[i] = IF i = 0 THEN s ELSE (e[i - 1] + v[i]) % M
    <3>1. CASE i = 0
      BY <1>1, <3>1 DEF WrapsTo
    <3>2. CASE i # 0
      <4>1. i \in 1 .. N
        BY <3>2
      <4> QED
        BY <1>1, <3>2, <4>1 DEF WrapsTo
    <3> QED
      BY <3>1, <3>2
  <2> QED
    BY <2>1
<1>3. f = CHOOSE g : IsSum(g)
  BY DEF SumFrom
<1> HIDE DEF f
<1>4. IsSum(f)
  <2> HIDE DEF IsSum
  <2> QED
    BY <1>2, <1>3
<1>5. \A i \in 0 .. N : f[i] = IF i = 0 THEN s ELSE (f[i - 1] + v[i]) % M
  BY <1>4
<1>6. WrapsTo(f, v, s, M, N)
  <2>1. 0 \in 0 .. N /\ \A i \in 1 .. N : i # 0 /\ i \in 0 .. N
    OBVIOUS
  <2>2. f[0] = s
    BY <1>5, <2>1
  <2>3. \A i \in 1 .. N : f[i] = (f[i - 1] + v[i]) % M
    BY <1>5, <2>1
  <2> QED
    BY <2>2, <2>3 DEF WrapsTo
<1>7. \A i \in 0 .. N : f[i] \in Nat
  BY <1>6, SumsWrap
<1> QED
  BY <1>7 DEF f

(* The other checksum is four bytes. *)
LEMMA AdlerIsFour ==
    ASSUME NEW raw \in Seq(Nat)
    PROVE  Adler32(raw) \in Seq(Nat) /\ Len(Adler32(raw)) = 4
<1> DEFINE N == Len(raw)
           M == 65521
           a == CHOOSE a : a = [i \in 0 .. N |-> IF i = 0 THEN 1 ELSE (a[i - 1] + raw[i]) % M]
           b == CHOOSE b : b = [i \in 0 .. N |-> IF i = 0 THEN 0 ELSE (b[i - 1] + a[i]) % M]
           high == b[N]
           low == a[N]
<1>1. N \in Nat /\ \A i \in 1 .. N : raw[i] \in Nat
  BY LenProperties, ElementOfSeq
<1>2. Adler32(raw) = <<high \div 256, high % 256, low \div 256, low % 256>>
  BY DEF Adler32
<1>3. M \in Positive /\ 0 \in Nat /\ 1 \in Nat
  BY DEF Positive
<1> HIDE DEF N, M
<1>4. \A i \in 0 .. N : a[i] \in Nat
  <2>1. a = SumFrom(N, 1, M, raw)
    BY DEF SumFrom
  <2> HIDE DEF a
  <2> QED
    BY <1>1, <1>3, <2>1, LoopWraps
<1>5. \A i \in 0 .. N : b[i] \in Nat
  <2>1. \A i \in 1 .. N : a[i] \in Nat
    <3> HIDE DEF a
    <3> QED
      BY <1>1, <1>4
  <2> HIDE DEF a
  <2>2. b = SumFrom(N, 0, M, a)
    BY DEF SumFrom
  <2> HIDE DEF b
  <2> QED
    BY <1>1, <1>3, <2>1, <2>2, LoopWraps
<1> HIDE DEF a, b
<1>6. high \in Nat /\ low \in Nat
  BY <1>1, <1>4, <1>5
<1> HIDE DEF high, low
<1>7. high \div 256 \in Nat /\ high % 256 \in Nat /\ low \div 256 \in Nat /\ low % 256 \in Nat
  BY <1>6
<1> QED
  BY <1>2, <1>7

(* Two bytes bear a size. *)
IsPair(s, n) == s \in Seq(Nat) /\ Len(s) = 2 /\ s[1] + 256 * s[2] = n

(* The two bytes of a size bear it. *)
LEMMA Le16Reads ==
    ASSUME NEW n \in Nat
    PROVE  IsPair(Le16(n), n)
<1> DEFINE a == n % 256
           b == n \div 256
           s == <<a, b>>
<1>1. a \in Nat /\ b \in Nat /\ n = b * 256 + a
  BY LastByte
<1>2. Le16(n) = s
  BY DEF Le16
<1> HIDE DEF a, b
<1>3. a \in Nat /\ b \in Nat /\ a + 256 * b = n
  BY <1>1
<1>4. s \in Seq(Nat) /\ Len(s) = 2 /\ s[1] = a /\ s[2] = b
  BY <1>3
<1> HIDE DEF s
<1>5. IsPair(s, n)
  BY <1>3, <1>4 DEF IsPair
<1> QED
  BY <1>2, <1>5

(* A flag and two pairs are five bytes. *)
LEMMA FlagAndPairs ==
    ASSUME NEW flag \in Nat, NEW s \in Seq(Nat), NEW t \in Seq(Nat), Len(s) = 2, Len(t) = 2
    PROVE  LET head == <<flag>> \o s \o t
           IN /\ head \in Seq(Nat) /\ Len(head) = 5
              /\ head[1] = flag /\ head[2] = s[1] /\ head[3] = s[2]
              /\ head[4] = t[1] /\ head[5] = t[2]
<1> DEFINE f == <<flag>>
           fs == f \o s
           head == fs \o t
<1>1. f \in Seq(Nat) /\ Len(f) = 1 /\ f[1] = flag
  OBVIOUS
<1> HIDE DEF f
<1>2. fs \in Seq(Nat) /\ Len(fs) = 3
      /\ \A i \in 1 .. 3 : fs[i] = IF i <= 1 THEN f[i] ELSE s[i - 1]
  <2>1. /\ fs \in Seq(Nat) /\ Len(fs) = Len(f) + Len(s)
        /\ \A i \in 1 .. Len(f) + Len(s) : fs[i] = IF i <= Len(f) THEN f[i] ELSE s[i - Len(f)]
    BY <1>1, ConcatProperties
  <2>2. Len(f) = 1 /\ Len(s) = 2 /\ 1 + 2 = 3
    BY <1>1
  <2> HIDE DEF fs
  <2> QED
    BY <2>1, <2>2
<1>3. fs[1] = flag /\ fs[2] = s[1] /\ fs[3] = s[2]
  BY <1>1, <1>2
<1> HIDE DEF fs
<1>4. head \in Seq(Nat) /\ Len(head) = 5
      /\ \A i \in 1 .. 5 : head[i] = IF i <= 3 THEN fs[i] ELSE t[i - 3]
  <2>1. /\ head \in Seq(Nat) /\ Len(head) = Len(fs) + Len(t)
        /\ \A i \in 1 .. Len(fs) + Len(t) : head[i] = IF i <= Len(fs) THEN fs[i] ELSE t[i - Len(fs)]
    BY <1>2, ConcatProperties
  <2>2. Len(fs) = 3 /\ Len(t) = 2 /\ 3 + 2 = 5
    BY <1>2
  <2> HIDE DEF head
  <2> QED
    BY <2>1, <2>2
<1> HIDE DEF head
<1>5. head[1] = fs[1] /\ head[2] = fs[2] /\ head[3] = fs[3] /\ head[4] = t[1] /\ head[5] = t[2]
  BY <1>4
<1> QED
  BY <1>3, <1>4, <1>5 DEF head, fs, f

Stored(flag, block) ==
    <<flag>> \o Le16(Len(block)) \o Le16(65535 - Len(block)) \o block

Fits16(n) == n <= 65535

(* The header of a stored block: its flag, its size and the complement. *)
IsHead(head, flag, n) ==
    /\ head \in Seq(Nat) /\ Len(head) = 5
    /\ head[1] = flag
    /\ head[2] + 256 * head[3] = n
    /\ n + head[4] + 256 * head[5] = 65535

HasHead(flag, block) ==
    \E head : IsHead(head, flag, Len(block)) /\ Stored(flag, block) = head \o block

(* A stored block is a header and its data, *)
LEMMA StoredHasHead ==
    ASSUME NEW flag \in Nat, NEW block \in Seq(Nat), Fits16(Len(block))
    PROVE  HasHead(flag, block)
<1> DEFINE n == Len(block)
           m == 65535 - n
           s == Le16(n)
           t == Le16(m)
           head == <<flag>> \o s \o t
<1>1. n \in Nat
  BY LenProperties
<1>2. Fits16(n)
  OBVIOUS
<1>3. Stored(flag, block) = head \o block
  BY DEF Stored
<1> HIDE DEF n
<1>4. m \in Nat /\ n + m = 65535
  BY <1>1, <1>2 DEF Fits16
<1> HIDE DEF m
<1>5. IsPair(s, n) /\ IsPair(t, m)
  <2>1. m \in Nat
    BY <1>4
  <2> QED
    BY <1>1, <2>1, Le16Reads
<1> HIDE DEF s, t
<1>6. s \in Seq(Nat) /\ Len(s) = 2 /\ t \in Seq(Nat) /\ Len(t) = 2
  BY <1>5 DEF IsPair
<1>7. /\ head \in Seq(Nat) /\ Len(head) = 5
      /\ head[1] = flag /\ head[2] = s[1] /\ head[3] = s[2]
      /\ head[4] = t[1] /\ head[5] = t[2]
  BY <1>6, FlagAndPairs
<1> HIDE DEF head
<1>8. head[2] + 256 * head[3] = n
  BY <1>5, <1>7 DEF IsPair
<1>9. head[4] + 256 * head[5] = m
  BY <1>5, <1>7 DEF IsPair
<1>10. head[4] \in Nat /\ head[5] \in Nat
  <2>1. 4 \in 1 .. 5 /\ 5 \in 1 .. 5
    OBVIOUS
  <2>2. head \in Seq(Nat) /\ Len(head) = 5
    BY <1>7
  <2> QED
    BY <2>1, <2>2, ElementOfSeq
<1>11. n + head[4] + 256 * head[5] = 65535
  <2> DEFINE x == head[4]
             y == head[5]
  <2> HIDE DEF x, y
  <2>1. x \in Nat /\ y \in Nat /\ x + 256 * y = m
    BY <1>9, <1>10 DEF x, y
  <2>2. n + x + 256 * y = 65535
    BY <1>1, <1>4, <2>1
  <2> QED
    BY <2>2 DEF x, y
<1>12. IsHead(head, flag, n)
  BY <1>7, <1>8, <1>11 DEF IsHead
<1> QED
  BY <1>3, <1>12 DEF HasHead, n

(* and has five bytes more than its data. *)
LEMMA StoredIsSeq ==
    ASSUME NEW flag \in Nat, NEW block \in Seq(Nat), Fits16(Len(block))
    PROVE  Stored(flag, block) \in Seq(Nat) /\ Len(Stored(flag, block)) = 5 + Len(block)
<1>1. PICK head : IsHead(head, flag, Len(block)) /\ Stored(flag, block) = head \o block
  <2>1. HasHead(flag, block)
    BY StoredHasHead
  <2> QED
    BY <2>1 DEF HasHead
<1>2. head \in Seq(Nat) /\ Len(head) = 5
  BY <1>1 DEF IsHead
<1>3. head \o block \in Seq(Nat) /\ Len(head \o block) = Len(head) + Len(block)
  BY <1>2, LengthsAdd
<1> QED
  BY <1>1, <1>2, <1>3

(* Where a block stands, its parts are read. *)
LEMMA StoredReads ==
    ASSUME NEW flag \in Nat, NEW block \in Seq(Nat), Fits16(Len(block)),
           NEW file \in Seq(Nat), NEW o \in Nat, Stands(Stored(flag, block), file, o)
    PROVE  /\ file[o + 1] = flag
           /\ StoredWhole(file, o)
           /\ StoredEnd(file, o) = o + 5 + Len(block)
           /\ StoredData(file, o) = block
<1> DEFINE n == Len(block)
<1>1. n \in Nat /\ Len(file) \in Nat
  BY LenProperties
<1>2. PICK head : IsHead(head, flag, n) /\ Stored(flag, block) = head \o block
  <2>1. HasHead(flag, block)
    BY StoredHasHead
  <2> QED
    BY <2>1 DEF HasHead
<1>3. /\ head \in Seq(Nat) /\ Len(head) = 5
      /\ head[1] = flag /\ head[2] + 256 * head[3] = n
      /\ n + head[4] + 256 * head[5] = 65535
  BY <1>2 DEF IsHead
<1>4. Stands(head \o block, file, o)
  BY <1>2
<1>5. Stands(head, file, o) /\ Stands(block, file, o + 5)
  <2>1. head \in Seq(Nat)
    BY <1>3
  <2>2. Stands(head, file, o) /\ Stands(block, file, o + Len(head))
    BY <1>4, <2>1, PartsStand
  <2>3. Len(head) = 5
    BY <1>3
  <2> QED
    BY <2>2, <2>3
<1> HIDE DEF n
<1>6. /\ file[o + 1] = head[1] /\ file[o + 2] = head[2] /\ file[o + 3] = head[3]
      /\ file[o + 4] = head[4] /\ file[o + 5] = head[5]
  <2>1. \A i \in 1 .. 5 : file[o + i] = head[i]
    <3>1. Stands(head, file, o)
      BY <1>5
    <3>2. Len(head) = 5
      BY <1>3
    <3> QED
      BY <3>1, <3>2 DEF Stands
  <2>2. 1 \in 1 .. 5 /\ 2 \in 1 .. 5 /\ 3 \in 1 .. 5 /\ 4 \in 1 .. 5 /\ 5 \in 1 .. 5
    OBVIOUS
  <2> QED
    BY <2>1, <2>2
<1>7. StoredSize(file, o) = n
  BY <1>3, <1>6 DEF StoredSize
<1>8. StoredEnd(file, o) = o + 5 + n
  BY <1>7 DEF StoredEnd
<1>9. o + 5 + n <= Len(file)
  BY <1>5 DEF Stands, n
<1>10. StoredWhole(file, o)
  <2>1. o + 5 <= Len(file)
    BY <1>1, <1>9
  <2>2. n + file[o + 4] + 256 * file[o + 5] = 65535
    BY <1>3, <1>6
  <2> QED
    BY <1>7, <1>8, <1>9, <2>1, <2>2 DEF StoredWhole
<1>11. StoredData(file, o) = block
  <2>1. o + 5 \in Nat /\ o + 5 + 1 = o + 6
    OBVIOUS
  <2>2. SubSeq(file, o + 5 + 1, o + 5 + n) = block
    BY <1>5, <2>1, ReadsWhatStands DEF n
  <2> QED
    BY <1>8, <2>1, <2>2 DEF StoredData
<1>12. file[o + 1] = flag
  BY <1>3, <1>6
<1> QED
  BY <1>8, <1>10, <1>11, <1>12 DEF n

(* Two slices in a row are one. *)
LEMMA SlicesJoin ==
    ASSUME NEW raw \in Seq(Nat), NEW a \in Nat, NEW b \in Nat, NEW c \in Nat,
           a <= b, b <= c, c <= Len(raw)
    PROVE  /\ SubSeq(raw, a + 1, b) \in Seq(Nat) /\ Len(SubSeq(raw, a + 1, b)) = b - a
           /\ SubSeq(raw, a + 1, b) \o SubSeq(raw, b + 1, c) = SubSeq(raw, a + 1, c)
<1>1. Len(raw) \in Nat /\ \A i \in 1 .. Len(raw) : raw[i] \in Nat
  BY LenProperties, ElementOfSeq
<1>2. ASSUME NEW x \in Nat, NEW y \in Nat, x <= y, y <= Len(raw)
      PROVE  /\ SubSeq(raw, x + 1, y) \in Seq(Nat)
             /\ Len(SubSeq(raw, x + 1, y)) = y - x
             /\ \A i \in 1 .. y - x : SubSeq(raw, x + 1, y)[i] = raw[x + i]
  <2>1. \A i \in x + 1 .. y : raw[i] \in Nat
    BY <1>1, <1>2
  <2> DEFINE s == SubSeq(raw, x + 1, y)
  <2>2. /\ s \in Seq(Nat)
        /\ Len(s) = IF x + 1 <= y THEN y - (x + 1) + 1 ELSE 0
        /\ \A i \in 1 .. y - (x + 1) + 1 : s[i] = raw[x + 1 + i - 1]
    BY <2>1, SubSeqProperties
  <2> HIDE DEF s
  <2>3. Len(s) = y - x
    BY <1>2, <2>2
  <2>4. \A i \in 1 .. y - x : i \in 1 .. y - (x + 1) + 1 /\ x + 1 + i - 1 = x + i
    BY <1>2
  <2>5. \A i \in 1 .. y - x : s[i] = raw[x + i]
    BY <2>2, <2>4
  <2> QED
    BY <2>2, <2>3, <2>5 DEF s
<1> DEFINE u == SubSeq(raw, a + 1, b)
           v == SubSeq(raw, b + 1, c)
           w == SubSeq(raw, a + 1, c)
<1>3. b <= Len(raw) /\ a <= c
  BY <1>1
<1>4. u \in Seq(Nat) /\ Len(u) = b - a /\ \A i \in 1 .. b - a : u[i] = raw[a + i]
  BY <1>2, <1>3
<1>5. v \in Seq(Nat) /\ Len(v) = c - b /\ \A i \in 1 .. c - b : v[i] = raw[b + i]
  BY <1>2
<1>6. w \in Seq(Nat) /\ Len(w) = c - a /\ \A i \in 1 .. c - a : w[i] = raw[a + i]
  BY <1>2, <1>3
<1> HIDE DEF u, v, w
<1>7. /\ u \o v \in Seq(Nat) /\ Len(u \o v) = (b - a) + (c - b)
      /\ \A i \in 1 .. (b - a) + (c - b) : (u \o v)[i] = IF i <= b - a THEN u[i] ELSE v[i - (b - a)]
  <2>1. /\ u \o v \in Seq(Nat) /\ Len(u \o v) = Len(u) + Len(v)
        /\ \A i \in 1 .. Len(u) + Len(v) : (u \o v)[i] = IF i <= Len(u) THEN u[i] ELSE v[i - Len(u)]
    BY <1>4, <1>5, ConcatProperties
  <2>2. Len(u) = b - a /\ Len(v) = c - b
    BY <1>4, <1>5
  <2> QED
    BY <2>1, <2>2
<1>8. ASSUME NEW i \in 1 .. c - a PROVE (u \o v)[i] = w[i]
  <2>1. i \in 1 .. (b - a) + (c - b)
    OBVIOUS
  <2>2. CASE i <= b - a
    <3>1. i \in 1 .. b - a
      BY <2>2
    <3> QED
      BY <1>4, <1>6, <1>7, <2>1, <2>2, <3>1
  <2>3. CASE ~ (i <= b - a)
    <3>1. i - (b - a) \in 1 .. c - b /\ b + (i - (b - a)) = a + i
      BY <2>3
    <3> QED
      BY <1>5, <1>6, <1>7, <2>1, <2>3, <3>1
  <2> QED
    BY <2>2, <2>3
<1>9. Len(u \o v) = c - a
  BY <1>7
<1>10. u \o v = w
  BY <1>6, <1>7, <1>8, <1>9, SeqEqual
<1> QED
  BY <1>4, <1>10 DEF u, v, w

(* The decoder goes from one stored block to the next. *)
LEMMA InflateGoes ==
    ASSUME NEW blocks \in Seq(Nat), NEW o \in Nat
    PROVE  InflatedFrom(blocks, o)
              = IF ~ StoredWhole(blocks, o) THEN Failed
                ELSE IF blocks[o + 1] # 1
                     THEN StoredData(blocks, o) \o InflatedFrom(blocks, StoredEnd(blocks, o))
                ELSE IF StoredEnd(blocks, o) = Len(blocks) THEN StoredData(blocks, o)
                ELSE Failed
<1> DEFINE N == Len(blocks)
           W(p) == StoredWhole(blocks, p)
           D(p) == StoredData(blocks, p)
           E(p) == StoredEnd(blocks, p)
           Solves(f) == f = [p \in Nat |-> IF ~ W(p) THEN Failed
                                           ELSE IF blocks[p + 1] # 1 THEN D(p) \o f[E(p)]
                                           ELSE IF E(p) = N THEN D(p)
                                           ELSE Failed]
           from == CHOOSE f : Solves(f)
           ends == {p \in Nat : ~ W(p) \/ blocks[p + 1] = 1}
           last == [p \in Nat |-> IF W(p) /\ E(p) = N THEN D(p) ELSE Failed]
           part == [p \in Nat |-> IF W(p) THEN D(p) ELSE Failed]
           next == [p \in Nat |-> E(p)]
           Q == Seq(Int)
<1>1. N \in Nat /\ \A i \in 1 .. N : blocks[i] \in Nat
  BY LenProperties, ElementOfSeq
<1>2. \A p \in Nat : InflatedFrom(blocks, p) = from[p]
  BY DEF InflatedFrom
<1>3. ASSUME NEW p \in Nat, W(p)
      PROVE  E(p) \in Nat /\ E(p) > p /\ p < N /\ D(p) \in Q
  <2>1. p + 5 <= N /\ E(p) <= N
    BY <1>3 DEF StoredWhole
  <2>2. p + 2 \in 1 .. N /\ p + 3 \in 1 .. N
    BY <1>1, <2>1
  <2>3. blocks[p + 2] \in Nat /\ blocks[p + 3] \in Nat
    BY <1>1, <2>2
  <2> DEFINE e == E(p)
             a == blocks[p + 2]
             b == blocks[p + 3]
  <2>4. e = p + 5 + (a + 256 * b) /\ a \in Nat /\ b \in Nat /\ p + 5 <= N
    BY <2>1, <2>3 DEF StoredEnd, StoredSize
  <2>5. e \in Nat /\ e > p /\ p + 5 <= e /\ p < N
    <3>1. N \in Nat
      BY <1>1
    <3> HIDE DEF e, a, b, N
    <3> QED
      BY <2>4, <3>1
  <2>6. D(p) = SubSeq(blocks, p + 6, e)
    BY DEF StoredData
  <2> HIDE DEF e, D
  <2>7. \A i \in p + 6 .. e : blocks[i] \in Int
    <3>1. e <= N
      BY <2>1 DEF e
    <3> QED
      BY <1>1, <2>5, <3>1
  <2>8. D(p) \in Seq(Int)
    BY <2>5, <2>6, <2>7, SubSeqProperties
  <2> QED
    BY <2>5, <2>8 DEF e
<1>4. Failed \in Q
  BY DEF Failed
<1> HIDE DEF N, W, D, E
<1>5. GoesOn(next, ends, N)
  <2> SUFFICES ASSUME NEW p \in Nat, p \notin ends
               PROVE  p < N /\ next[p] \in Nat /\ next[p] > p
    BY DEF GoesOn
  <2>1. W(p) /\ next[p] = E(p)
    OBVIOUS
  <2> HIDE DEF ends, next
  <2> QED
    BY <1>3, <2>1
<1>6. last \in [Nat -> Q] /\ part \in [Nat -> Q]
  <2> HIDE DEF Q
  <2> QED
    BY <1>3, <1>4
<1>7. \E f \in [Nat -> Q] : Loops(f, ends, last, part, next)
  <2>1. last \in [Nat -> Seq(Int)] /\ part \in [Nat -> Seq(Int)]
    BY <1>6
  <2>2. N \in Nat
    BY <1>1
  <2> HIDE DEF ends, last, part, next
  <2> QED
    BY <1>5, <2>1, <2>2, ReadersExist, Zenon
<1> HIDE DEF Q
<1>8. PICK f \in [Nat -> Q] : Loops(f, ends, last, part, next)
  <2> HIDE DEF ends, last, part, next
  <2> QED
    BY <1>7, Zenon
<1>9. \A p \in Nat : f[p] = IF ~ W(p) THEN Failed
                            ELSE IF blocks[p + 1] # 1 THEN D(p) \o f[E(p)]
                            ELSE IF E(p) = N THEN D(p)
                            ELSE Failed
  <2>1. \A p \in Nat : /\ p \in ends <=> ~ W(p) \/ blocks[p + 1] = 1
                       /\ last[p] = IF W(p) /\ E(p) = N THEN D(p) ELSE Failed
                       /\ W(p) => part[p] = D(p)
                       /\ next[p] = E(p)
    OBVIOUS
  <2> HIDE DEF ends, last, part, next
  <2> QED
    BY <1>8, <2>1 DEF Loops
<1>10. Solves(f)
  <2>1. f = [p \in Nat |-> f[p]]
    OBVIOUS
  <2> QED
    BY <1>9, <2>1
<1>11. Solves(from)
  <2> HIDE DEF Solves
  <2> QED
    BY <1>10
<1> HIDE DEF from
<1>12. from[o] = IF ~ W(o) THEN Failed
                 ELSE IF blocks[o + 1] # 1 THEN D(o) \o from[E(o)]
                 ELSE IF E(o) = N THEN D(o)
                 ELSE Failed
  BY <1>11
<1> HIDE DEF Solves
<1>13. CASE W(o)
  <2>1. from[E(o)] = InflatedFrom(blocks, E(o))
    BY <1>2, <1>3, <1>13
  <2> QED
    BY <1>2, <1>12, <2>1 DEF W, D, E, N
<1>14. CASE ~ W(o)
  BY <1>2, <1>12, <1>14 DEF W
<1> QED
  BY <1>13, <1>14

(* The size of a full block. *)
LEMMA MaxStoredIs ==
    /\ MaxStored \in Nat /\ MaxStored \in Positive /\ MaxStored >= 1
    /\ Fits16(MaxStored)
<1>1. MaxStored \in Nat /\ MaxStored >= 1 /\ MaxStored <= 65535
  BY MaxStoredAssumption
<1>2. MaxStored \in Positive
  <2>1. \A n \in Nat : n >= 1 => n \in Positive
    BY DEF Positive
  <2> QED
    BY <1>1, <2>1
<1>3. Fits16(MaxStored)
  BY <1>1 DEF Fits16
<1> QED
  BY <1>1, <1>2, <1>3

(* Every block but the last is full. *)
LEMMA BlockIs ==
    ASSUME NEW raw \in Seq(Nat), NEW count,
           count = (Len(raw) + MaxStored - 1) \div MaxStored, NEW i \in 1 .. count
    PROVE  LET o == (i - 1) * MaxStored
               e == IF i = count THEN Len(raw) ELSE o + MaxStored
               block == SubSeq(raw, o + 1, e)
               flag == IF i = count THEN 1 ELSE 0
           IN /\ o \in Nat /\ o < e /\ e <= Len(raw)
              /\ block \in Seq(Nat) /\ Len(block) = e - o /\ Len(block) <= MaxStored
              /\ StoredBlock(raw, i) = Stored(flag, block)
<1> DEFINE N == Len(raw)
           M == MaxStored
           o == (i - 1) * M
           e == IF i = count THEN N ELSE o + M
           block == SubSeq(raw, o + 1, e)
           flag == IF i = count THEN 1 ELSE 0
<1>1. N \in Nat /\ M \in Nat /\ M >= 1 /\ M \in Positive
  BY LenProperties, MaxStoredIs
<1> HIDE DEF M, N
<1>2. count \in Nat /\ count * M <= N + M - 1 /\ N + M - 1 < count * M + M
  <2>1. N + M - 1 \in Nat /\ count = (N + M - 1) \div M
    BY <1>1 DEF M, N
  <2> QED
    BY <1>1, <2>1, Quotient
<1>3. i \in Nat /\ i >= 1 /\ i <= count
  BY <1>2
<1>4. o \in Nat /\ i * M = o + M /\ i * M \in Nat
  <2>1. i - 1 \in Nat /\ (i - 1) + 1 = i
    BY <1>3
  <2>2. (i - 1) * M \in Nat /\ ((i - 1) + 1) * M = (i - 1) * M + M
    BY <1>1, <2>1
  <2> QED
    BY <1>1, <2>1, <2>2
<1> HIDE DEF o
<1>5. i * M <= count * M /\ count * M \in Nat
  BY <1>1, <1>2, <1>3, Products
<1>6. o < N
  BY <1>1, <1>2, <1>4, <1>5
<1>7. i # count => i * M < N
  <2>1. SUFFICES ASSUME i # count PROVE i * M < N
    OBVIOUS
  <2>2. i + 1 \in Nat /\ i + 1 <= count
    BY <1>2, <1>3, <2>1
  <2>3. (i + 1) * M <= count * M
    BY <1>1, <1>2, <2>2, Products
  <2>4. (i + 1) * M = i * M + M
    BY <1>1, <1>3
  <2> QED
    BY <1>1, <1>2, <1>4, <1>5, <2>3, <2>4
<1>8. i = count => N <= i * M
  BY <1>1, <1>2, <1>4
<1>9. IsLastBlock(i, N) <=> i = count
  <2>1. IsLastBlock(i, N) <=> i * M >= N
    BY DEF IsLastBlock, M
  <2> QED
    BY <1>1, <1>4, <1>7, <1>8, <2>1
<1>10. Min({i * M, N}) = e
  <2>1. CASE i = count
    <3>1. Min({N, i * M}) = N
      BY <1>1, <1>4, <1>8, <2>1, LesserOfTwo
    <3>2. {N, i * M} = {i * M, N}
      OBVIOUS
    <3> QED
      BY <2>1, <3>1, <3>2
  <2>2. CASE i # count
    <3>1. Min({i * M, N}) = i * M
      BY <1>1, <1>4, <1>7, <2>2, LesserOfTwo
    <3> QED
      BY <1>4, <2>2, <3>1
  <2> QED
    BY <2>1, <2>2
<1>11. o < e /\ e <= N /\ e <= o + M /\ e \in Nat
  BY <1>1, <1>4, <1>6, <1>7, <1>8
<1>12. StoredBlock(raw, i) = Stored(flag, block)
  <2> DEFINE b == SubSeq(raw, o + 1, Min({i * M, N}))
  <2>1. StoredBlock(raw, i) = <<IF IsLastBlock(i, N) THEN 1 ELSE 0>>
                                \o Le16(Len(b)) \o Le16(65535 - Len(b)) \o b
    BY DEF StoredBlock, M, N, o
  <2>2. b = block
    BY <1>10
  <2> HIDE DEF b, block
  <2>3. (IF IsLastBlock(i, N) THEN 1 ELSE 0) = flag
    BY <1>9
  <2> HIDE DEF flag
  <2> QED
    BY <2>1, <2>2, <2>3 DEF Stored
<1> HIDE DEF e
<1>13. block \in Seq(Nat) /\ Len(block) = e - o
  BY <1>4, <1>11, SlicesJoin DEF N
<1> HIDE DEF block
<1>14. Len(block) <= M
  BY <1>1, <1>4, <1>11, <1>13
<1>15. /\ o \in Nat /\ o < e /\ e <= N
       /\ block \in Seq(Nat) /\ Len(block) = e - o /\ Len(block) <= M
       /\ StoredBlock(raw, i) = Stored(flag, block)
  <2> HIDE DEF flag
  <2> QED
    BY <1>4, <1>11, <1>12, <1>13, <1>14
<1> QED
  BY <1>15 DEF block, e, o, M, N

(* The blocks bear all the data. *)
LEMMA BlocksInflate ==
    ASSUME NEW raw \in Seq(Nat), raw # <<>>, NEW count,
           count = (Len(raw) + MaxStored - 1) \div MaxStored
    PROVE  LET blocks == FlattenSeq([i \in 1 .. count |-> StoredBlock(raw, i)])
           IN blocks \in Seq(Nat) /\ InflatedFrom(blocks, 0) = raw
<1> DEFINE N == Len(raw)
           M == MaxStored
           c == 5 + M
           f == [i \in 1 .. count |-> StoredBlock(raw, i)]
           blocks == FlattenSeq(f)
           o(i) == (i - 1) * M
           e(i) == IF i = count THEN N ELSE o(i) + M
           block(i) == SubSeq(raw, o(i) + 1, e(i))
           flag(i) == IF i = count THEN 1 ELSE 0
           at(i) == (i - 1) * c
<1>1. N \in Nat /\ N >= 1 /\ M \in Nat /\ M >= 1 /\ M \in Positive /\ Fits16(M)
  <2>1. N \in Nat /\ N # 0
    BY LenProperties, EmptySeq
  <2> HIDE DEF N
  <2> QED
    BY <2>1, MaxStoredIs
<1>2. count \in Nat /\ count >= 1
  <2> HIDE DEF N, M
  <2>1. N + M - 1 \in Nat
    BY <1>1
  <2>2. count \in Nat /\ N + M - 1 < count * M + M
    BY <1>1, <2>1, Quotient DEF N, M
  <2>3. count # 0
    BY <1>1, <2>2
  <2> QED
    BY <2>2, <2>3
<1>3. ASSUME NEW i \in 1 .. count
      PROVE  /\ o(i) \in Nat /\ o(i) < e(i) /\ e(i) <= N
             /\ block(i) \in Seq(Nat) /\ Len(block(i)) = e(i) - o(i) /\ Len(block(i)) <= M
             /\ f[i] = Stored(flag(i), block(i))
  <2>1. f[i] = StoredBlock(raw, i)
    OBVIOUS
  <2> HIDE DEF f
  <2> QED
    BY <2>1, BlockIs
<1> HIDE DEF f, N, M
<1>4. ASSUME NEW i \in 1 .. count
      PROVE  /\ flag(i) \in Nat /\ Fits16(Len(block(i)))
             /\ f[i] \in Seq(Nat) /\ Len(f[i]) = 5 + Len(block(i))
             /\ i # count => Len(f[i]) = c
  <2> HIDE DEF block
  <2>1. flag(i) \in Nat
    OBVIOUS
  <2>2. Len(block(i)) \in Nat /\ block(i) \in Seq(Nat) /\ Fits16(Len(block(i)))
    <3> DEFINE k == Len(block(i))
    <3>1. block(i) \in Seq(Nat) /\ k <= M
      BY <1>3
    <3>2. k \in Nat
      BY <3>1, LenProperties
    <3> HIDE DEF k
    <3>3. Fits16(k)
      BY <1>1, <3>1, <3>2 DEF Fits16
    <3> QED
      BY <3>1, <3>2, <3>3 DEF k
  <2> HIDE DEF flag
  <2>3. f[i] \in Seq(Nat) /\ Len(f[i]) = 5 + Len(block(i))
    BY <1>3, <2>1, <2>2, StoredIsSeq
  <2>4. i # count => Len(block(i)) = M
    <3> HIDE DEF o
    <3> QED
      BY <1>1, <1>3
  <2> QED
    BY <2>1, <2>2, <2>3, <2>4
<1>5. f \in Seq(Seq(Nat)) /\ Len(f) = count
  <2> DEFINE Q == Seq(Nat)
  <2>1. f \in [1 .. count -> Q]
    <3>1. f = [i \in 1 .. count |-> f[i]]
      BY DEF f
    <3> HIDE DEF Q
    <3>2. \A i \in 1 .. count : f[i] \in Q
      BY <1>4 DEF Q
    <3> QED
      BY <3>1, <3>2
  <2> HIDE DEF Q
  <2> QED
    BY <1>2, <2>1, Tabled DEF Q
<1>6. c \in Nat /\ \A i \in 1 .. Len(f) - 1 : Len(f[i]) = c
  <2>1. c \in Nat
    BY <1>1
  <2>2. \A i \in 1 .. count - 1 : i \in 1 .. count /\ i # count
    BY <1>2
  <2> HIDE DEF c
  <2> QED
    BY <1>4, <1>5, <2>1, <2>2
<1>7. /\ blocks \in Seq(Nat)
      /\ Len(blocks) = at(count) + Len(f[count])
      /\ \A i \in 1 .. count : Stands(f[i], blocks, at(i))
  <2> HIDE DEF c
  <2>1. count # 0
    BY <1>2
  <2> QED
    BY <1>5, <1>6, <2>1, PiecesStand
<1>8. ASSUME NEW i \in 1 .. count PROVE at(i) \in Nat
  <2>1. i - 1 \in Nat
    BY <1>2
  <2> HIDE DEF c
  <2> QED
    BY <1>6, <2>1
<1>9. /\ \A i \in 1 .. count : i # count => i + 1 \in 1 .. count
      /\ count \in 1 .. count
  BY <1>2
<1>10. ASSUME NEW i \in 1 .. count, i # count
       PROVE  at(i + 1) = at(i) + c /\ o(i + 1) = e(i)
  <2>1. i - 1 \in Nat /\ (i + 1) - 1 = (i - 1) + 1
    BY <1>2
  <2>2. ((i - 1) + 1) * c = (i - 1) * c + c
    <3> HIDE DEF c
    <3> QED
      BY <1>6, <2>1
  <2>3. ((i - 1) + 1) * M = (i - 1) * M + M
    BY <1>1, <2>1
  <2> HIDE DEF c
  <2> QED
    BY <1>10, <2>1, <2>2, <2>3
<1>11. ASSUME NEW i \in 1 .. count
       PROVE  /\ blocks[at(i) + 1] = flag(i)
              /\ StoredWhole(blocks, at(i))
              /\ StoredEnd(blocks, at(i)) = at(i) + 5 + Len(block(i))
              /\ StoredData(blocks, at(i)) = block(i)
  <2> DEFINE b == block(i)
             g == flag(i)
             p == at(i)
  <2>1. /\ g \in Nat /\ b \in Seq(Nat) /\ Fits16(Len(b)) /\ p \in Nat
        /\ blocks \in Seq(Nat) /\ Stands(Stored(g, b), blocks, p)
    BY <1>3, <1>4, <1>7, <1>8
  <2> HIDE DEF b, g, p, blocks
  <2>2. /\ blocks[p + 1] = g /\ StoredWhole(blocks, p)
        /\ StoredEnd(blocks, p) = p + 5 + Len(b) /\ StoredData(blocks, p) = b
    BY <2>1, StoredReads
  <2> QED
    BY <2>2 DEF b, g, p
<1> HIDE DEF blocks
<1> DEFINE Rest(i) == InflatedFrom(blocks, at(i)) = SubSeq(raw, o(i) + 1, N)
           T == {k \in Nat : k < count => Rest(count - k)}
<1>12. Rest(count)
  <2>1. /\ StoredWhole(blocks, at(count)) /\ blocks[at(count) + 1] = 1
        /\ StoredData(blocks, at(count)) = block(count)
    BY <1>9, <1>11
  <2>2. StoredEnd(blocks, at(count)) = Len(blocks)
    <3> DEFINE n == Len(block(count))
               p == at(count)
    <3>1. n \in Nat /\ p \in Nat
      BY <1>3, <1>8, <1>9, LenProperties
    <3>2. StoredEnd(blocks, p) = p + 5 + n /\ Len(blocks) = p + (5 + n)
      <4>1. StoredEnd(blocks, p) = p + 5 + n
        BY <1>9, <1>11
      <4>2. Len(f[count]) = 5 + n
        <5> HIDE DEF block
        <5> QED
          BY <1>4, <1>9
      <4> HIDE DEF n, p
      <4>3. Len(blocks) = p + (5 + n)
        BY <1>7, <4>2 DEF p
      <4> QED
        BY <4>1, <4>3
    <3> HIDE DEF n, p
    <3>3. StoredEnd(blocks, p) = Len(blocks)
      BY <3>1, <3>2
    <3> QED
      BY <3>3 DEF p
  <2> DEFINE p == at(count)
  <2>3. InflatedFrom(blocks, p) = StoredData(blocks, p)
    <3>1. p \in Nat /\ StoredWhole(blocks, p) /\ blocks[p + 1] = 1 /\ StoredEnd(blocks, p) = Len(blocks)
      BY <1>8, <1>9, <2>1, <2>2
    <3> HIDE DEF p
    <3> QED
      BY <1>7, <3>1, InflateGoes
  <2>4. block(count) = SubSeq(raw, o(count) + 1, N)
    OBVIOUS
  <2> QED
    BY <2>1, <2>3, <2>4
<1>13. ASSUME NEW i \in 1 .. count, i # count, Rest(i + 1)
       PROVE  Rest(i)
  <2>1. i + 1 \in 1 .. count
    BY <1>9, <1>13
  <2> DEFINE p == at(i)
             b == block(i)
  <2>2. /\ StoredWhole(blocks, p) /\ blocks[p + 1] # 1
        /\ StoredData(blocks, p) = b /\ StoredEnd(blocks, p) = p + 5 + Len(b) /\ p \in Nat
    <3>1. p \in Nat
      BY <1>8
    <3>2. flag(i) # 1
      BY <1>13
    <3>3. /\ blocks[p + 1] = flag(i) /\ StoredWhole(blocks, p)
          /\ StoredEnd(blocks, p) = p + 5 + Len(b) /\ StoredData(blocks, p) = b
      BY <1>11
    <3> HIDE DEF p, b, flag
    <3> QED
      BY <3>1, <3>2, <3>3
  <2>3. StoredEnd(blocks, p) = at(i + 1)
    <3>1. Len(b) = M
      <4>1. Len(f[i]) = c /\ Len(f[i]) = 5 + Len(b) /\ Len(b) \in Nat
        BY <1>3, <1>4, <1>13, LenProperties
      <4> HIDE DEF b
      <4> QED
        BY <1>1, <4>1
    <3>2. at(i + 1) = p + c
      BY <1>10, <1>13
    <3> HIDE DEF p, b, at
    <3> QED
      BY <1>1, <2>2, <3>1, <3>2
  <2>4. InflatedFrom(blocks, p) = b \o InflatedFrom(blocks, at(i + 1))
    <3> HIDE DEF p, b, at
    <3> QED
      BY <1>7, <2>2, <2>3, InflateGoes
  <2>5. b \o SubSeq(raw, e(i) + 1, N) = SubSeq(raw, o(i) + 1, N)
    <3> DEFINE x == o(i)
               y == e(i)
    <3>1. x \in Nat /\ x < y /\ y <= N /\ y \in Nat
      BY <1>1, <1>3
    <3>2. b = SubSeq(raw, x + 1, y)
      OBVIOUS
    <3> HIDE DEF x, y, b
    <3>3. x <= y /\ N <= Len(raw)
      BY <1>1, <3>1 DEF N
    <3>4. b \o SubSeq(raw, y + 1, N) = SubSeq(raw, x + 1, N)
      BY <1>1, <3>1, <3>2, <3>3, SlicesJoin
    <3> QED
      BY <3>4 DEF x, y
  <2>6. o(i + 1) = e(i)
    BY <1>10, <1>13
  <2>7. InflatedFrom(blocks, at(i + 1)) = SubSeq(raw, o(i + 1) + 1, N)
    BY <1>13
  <2> HIDE DEF b, o, e, at
  <2> QED
    BY <2>4, <2>5, <2>6, <2>7 DEF p
<1> HIDE DEF Rest
<1>14. 0 \in T
  <2>1. count - 0 = count
    BY <1>2
  <2> QED
    BY <1>12, <2>1
<1>15. ASSUME NEW k \in Nat, k \in T PROVE k + 1 \in T
  <2>1. SUFFICES ASSUME k + 1 < count PROVE Rest(count - (k + 1))
    OBVIOUS
  <2> DEFINE i == count - (k + 1)
  <2>2. k < count /\ i \in 1 .. count /\ i # count /\ i + 1 = count - k
    BY <1>2, <2>1
  <2>3. Rest(i + 1)
    BY <1>15, <2>2
  <2> HIDE DEF i
  <2>4. Rest(i)
    BY <1>13, <2>2, <2>3
  <2> QED
    BY <2>4 DEF i
<1> HIDE DEF T
<1>16. count - 1 \in T
  <2>1. count - 1 \in Nat
    BY <1>2
  <2> QED
    BY <1>14, <1>15, <2>1, Induction
<1>17. Rest(1)
  <2>1. count - 1 < count /\ count - (count - 1) = 1
    BY <1>2
  <2> QED
    BY <1>16, <2>1 DEF T
<1>18. at(1) = 0 /\ o(1) = 0
  <2>1. 1 - 1 = 0 /\ 0 * c = 0 /\ 0 * M = 0
    BY <1>1
  <2> QED
    BY <2>1
<1>19. SubSeq(raw, 0 + 1, N) = raw
  <2>1. Stands(raw, raw, 0) /\ 0 + N = N
    BY <1>1, WholeStands
  <2> QED
    BY <2>1, ReadsWhatStands DEF N
<1>20. InflatedFrom(blocks, 0) = raw
  <2> HIDE DEF at, o
  <2> QED
    BY <1>17, <1>18, <1>19 DEF Rest
<1>21. blocks \in Seq(Nat)
  BY <1>7
<1>22. blocks = FlattenSeq([i \in 1 .. count |-> StoredBlock(raw, i)])
  BY DEF blocks, f
<1> HIDE DEF o, e, block, flag, at, c
<1> QED
  BY <1>20, <1>21, <1>22

(* Concatenation is associative. *)
LEMMA JoinsInline ==
    ASSUME NEW a \in Seq(Nat), NEW b \in Seq(Nat), NEW c \in Seq(Nat)
    PROVE  a \o b \o c = a \o (b \o c)
  BY ConcatAssociative

(* The compressed image data bears the image data, the empty one included. *)
LEMMA ZlibComesBack ==
    ASSUME NEW raw \in Seq(Nat)
    PROVE  LET z == ZlibStored(raw)
           IN /\ z \in Seq(Nat)
              /\ InflatedFrom(SubSeq(z, 3, Len(z) - 4), 0) = raw
<1> DEFINE z == ZlibStored(raw)
           count == (Len(raw) + MaxStored - 1) \div MaxStored
           start == <<120, 1>>
           empty == IF raw = <<>> THEN <<1, 0, 0, 255, 255>> ELSE <<>>
           flat == FlattenSeq([i \in 1 .. count |-> StoredBlock(raw, i)])
           sum == Adler32(raw)
           blocks == empty \o flat
<1>1. z = start \o empty \o flat \o sum
  BY DEF ZlibStored
<1>2. start \in Seq(Nat) /\ Len(start) = 2 /\ empty \in Seq(Nat)
  OBVIOUS
<1>3. sum \in Seq(Nat) /\ Len(sum) = 4
  BY AdlerIsFour
<1>4. blocks \in Seq(Nat) /\ flat \in Seq(Nat) /\ InflatedFrom(blocks, 0) = raw
  <2>1. CASE raw = <<>>
    <3>1. count = 0
      <4>1. Len(raw) = 0 /\ MaxStored \in Positive /\ MaxStored \in Nat
        BY <2>1, MaxStoredIs
      <4> DEFINE M == MaxStored
                 q == (0 + M - 1) \div M
      <4>2. 0 + M - 1 \in Nat /\ 0 + M - 1 < M
        BY <4>1 DEF Positive
      <4>3. q \in Nat /\ q * M <= 0 + M - 1
        BY <4>1, <4>2, Quotient
      <4>4. count = q
        BY <4>1
      <4> HIDE DEF q, M
      <4>5. ~ (1 <= q)
        <5>1. SUFFICES ASSUME 1 <= q PROVE FALSE
          OBVIOUS
        <5>2. M \in Nat
          BY <4>1 DEF M
        <5>3. 1 * M <= q * M /\ q * M \in Nat
          BY <4>3, <5>1, <5>2, Products
        <5> QED
          BY <4>2, <4>3, <5>2, <5>3
      <4>6. q = 0
        BY <4>3, <4>5
      <4> HIDE DEF count
      <4> QED
        BY <4>4, <4>6
    <3>2. flat = <<>>
      <4> DEFINE f == [i \in 1 .. 0 |-> StoredBlock(raw, i)]
      <4>1. flat = FlattenSeq(f)
        BY <3>1
      <4>2. f \in [1 .. 0 -> Seq(Nat)] /\ \A i \in 1 .. 0 : Len(f[i]) = 0
        OBVIOUS
      <4> HIDE DEF f, flat
      <4>3. FlattenSeq(f) \in Seq(Nat) /\ Len(FlattenSeq(f)) = 0 * 0
        BY <4>2, EqualPieces DEF ArePieces
      <4> QED
        BY <4>1, <4>3, EmptySeq
    <3>3. empty = <<1, 0, 0, 255, 255>>
      BY <2>1
    <3> DEFINE s == <<1, 0, 0, 255, 255>>
    <3>4. /\ s \in Seq(Nat) /\ Len(s) = 5
          /\ s[1] = 1 /\ s[2] = 0 /\ s[3] = 0 /\ s[4] = 255 /\ s[5] = 255
          /\ SubSeq(s, 6, 5) = <<>>
      OBVIOUS
    <3> HIDE DEF s, flat, empty
    <3>5. blocks = s
      <4>1. s \o <<>> = s
        BY <3>4, ConcatEmptySeq
      <4> QED
        BY <3>2, <3>3, <4>1 DEF s
    <3>6. 0 + 1 = 1 /\ 0 + 2 = 2 /\ 0 + 3 = 3 /\ 0 + 4 = 4 /\ 0 + 5 = 5 /\ 0 + 6 = 6
          /\ 0 + 256 * 0 = 0 /\ 0 + 255 + 256 * 255 = 65535 /\ 5 + 0 = 5 /\ 5 <= 5 /\ 0 \in Nat
      OBVIOUS
    <3>7. StoredSize(s, 0) = 0
      BY <3>4, <3>6 DEF StoredSize
    <3>8. StoredEnd(s, 0) = 5
      BY <3>6, <3>7 DEF StoredEnd
    <3>9. StoredWhole(s, 0)
      BY <3>4, <3>6, <3>7, <3>8 DEF StoredWhole
    <3>10. StoredData(s, 0) = <<>>
      BY <3>4, <3>6, <3>8 DEF StoredData
    <3>11. InflatedFrom(s, 0) = <<>>
      <4>1. s \in Seq(Nat) /\ 0 \in Nat
        BY <3>4
      <4>2. InflatedFrom(s, 0)
              = IF ~ StoredWhole(s, 0) THEN Failed
                ELSE IF s[0 + 1] # 1 THEN StoredData(s, 0) \o InflatedFrom(s, StoredEnd(s, 0))
                ELSE IF StoredEnd(s, 0) = Len(s) THEN StoredData(s, 0)
                ELSE Failed
        BY <4>1, InflateGoes
      <4>3. s[0 + 1] = 1 /\ StoredEnd(s, 0) = Len(s)
        BY <3>4, <3>8
      <4> QED
        BY <3>9, <3>10, <4>2, <4>3
    <3>12. flat \in Seq(Nat)
      BY <3>2
    <3> QED
      BY <2>1, <3>4, <3>5, <3>11, <3>12
  <2>2. CASE raw # <<>>
    <3>1. flat \in Seq(Nat) /\ InflatedFrom(flat, 0) = raw
      BY <2>2, BlocksInflate
    <3>2. empty = <<>>
      BY <2>2
    <3> HIDE DEF empty, flat
    <3>3. blocks = flat
      BY <3>1, <3>2, ConcatEmptySeq
    <3> QED
      BY <3>1, <3>3
  <2> QED
    BY <2>1, <2>2
<1> HIDE DEF start, empty, flat, sum
<1>5. start \o empty \o flat = start \o blocks
  <2>1. flat \in Seq(Nat)
    BY <1>4
  <2>2. start \in Seq(Nat)
    BY <1>2
  <2>3. empty \in Seq(Nat)
    BY <1>2
  <2>4. (start \o empty) \o flat = start \o (empty \o flat)
    BY <2>1, <2>2, <2>3, JoinsInline
  <2> QED
    BY <2>4
<1> DEFINE n == Len(blocks)
<1>6. /\ start \o blocks \in Seq(Nat) /\ Len(start \o blocks) = 2 + n /\ n \in Nat
  <2>1. start \in Seq(Nat) /\ Len(start) = 2 /\ blocks \in Seq(Nat)
    BY <1>2, <1>4
  <2> HIDE DEF start, blocks
  <2> QED
    BY <2>1, LengthsAdd
<1>7. z = (start \o blocks) \o sum
  BY <1>1, <1>5
<1>8. z \in Seq(Nat) /\ Len(z) = 2 + n + 4
  <2> DEFINE a == start \o blocks
  <2> HIDE DEF a, z
  <2>1. a \in Seq(Nat) /\ Len(a) = 2 + n /\ z = a \o sum
    BY <1>6, <1>7 DEF a
  <2>2. z \in Seq(Nat) /\ Len(z) = Len(a) + Len(sum)
    BY <1>3, <2>1, LengthsAdd
  <2> QED
    BY <1>3, <2>1, <2>2
<1>9. Stands(blocks, z, 2)
  <2> DEFINE a == start \o blocks
  <2>1. Stands(a \o sum, z, 0) /\ a \in Seq(Nat)
    BY <1>6, <1>7, <1>8, WholeStands
  <2> HIDE DEF z
  <2>2. Stands(start \o blocks, z, 0)
    <3> HIDE DEF a
    <3>1. Stands(a, z, 0)
      BY <1>3, <1>8, <2>1, PartsStand
    <3> QED
      BY <3>1 DEF a
  <2>3. Stands(blocks, z, 0 + 2)
    <3> HIDE DEF blocks
    <3> QED
      BY <1>2, <1>4, <1>8, <2>2, PartsStand
  <2> QED
    BY <2>3
<1> HIDE DEF z
<1>10. SubSeq(z, 2 + 1, 2 + n) = blocks
  BY <1>4, <1>8, <1>9, ReadsWhatStands
<1>11. Len(z) - 4 = 2 + n /\ 2 + 1 = 3
  BY <1>6, <1>8
<1> QED
  BY <1>4, <1>8, <1>10, <1>11 DEF z

-----------------------------------------------------------------------------
(* The chunks of a file.                                                   *)
LEMMA Tags ==
    /\ Tag.IHDR \in Seq(Nat) /\ Len(Tag.IHDR) = 4 /\ Tag.IDAT \in Seq(Nat) /\ Len(Tag.IDAT) = 4
    /\ Tag.IEND \in Seq(Nat) /\ Len(Tag.IEND) = 4 /\ Tag.tEXt \in Seq(Nat) /\ Len(Tag.tEXt) = 4
    /\ Tag.IHDR # Tag.IEND /\ Tag.IDAT # Tag.IEND /\ Tag.tEXt # Tag.IEND
    /\ Tag.IHDR # Tag.tEXt /\ Tag.IDAT # Tag.tEXt
  BY DEF Tag

Passes(kind, data, file, o) ==
    /\ o + 12 + Len(data) \in Nat
    /\ kind = Tag.IEND => WalkFrom(file, o) = <<o>>
    /\ kind # Tag.IEND => WalkFrom(file, o) = <<o>> \o WalkFrom(file, o + 12 + Len(data))
    /\ TypeAt(file, o) = kind
    /\ DataAt(file, o) = data
    /\ Chunk(file, o) = [type |-> kind, data |-> data]
    /\ ChunkIsWhole(file, o)

(* The walk goes over a chunk to the next. *)
LEMMA WalkOver ==
    ASSUME NEW kind \in Seq(Nat), Len(kind) = 4, NEW data \in Seq(Nat), FitsInU32(Len(data)),
           NEW file \in Seq(Nat), NEW o \in Nat, Stands(PngChunk(kind, data), file, o)
    PROVE  Passes(kind, data, file, o)
<1> DEFINE n == Len(data)
<1> HIDE DEF n
<1>1. n \in Nat /\ Len(file) \in Nat
  BY LenProperties DEF n
<1>2. /\ o + 12 + n <= Len(file)
      /\ Uint32At(file, o) = n
      /\ TypeAt(file, o) = kind
      /\ DataAt(file, o) = data
      /\ SubSeq(file, o + 5, o + 8 + n) = kind \o data
      /\ SubSeq(file, o + 8 + n + 1, o + 8 + n + 4) = WordBytes(Crc32Bitwise(kind \o data))
  <2>1. IsRead(kind, data, file, o)
    BY ChunkReads
  <2> QED
    BY <2>1 DEF IsRead, n
<1>3. ~ (o + 8 > Len(file)) /\ o + 12 + n \in Nat
  BY <1>1, <1>2 DEF n
<1>4. WalkFrom(file, o) = IF TypeAt(file, o) = Tag.IEND THEN <<o>>
                          ELSE <<o>> \o WalkFrom(file, o + 12 + Uint32At(file, o))
  BY <1>3, WalkGoes
<1>5. ChunkIsWhole(file, o)
  <2>1. Crc32Bitwise(kind \o data) = Crc32ByTable(kind \o data)
    <3>1. kind \o data \in Seq(Nat)
      BY LengthsAdd
    <3>2. Len(kind \o data) \in Nat
      BY <3>1, LenProperties
    <3> QED
      BY <3>2, CrcsAgree
  <2>2. o + 8 + n + 4 <= Len(file)
    BY <1>1, <1>2 DEF n
  <2> QED
    BY <1>2, <2>1, <2>2 DEF ChunkIsWhole, n
<1> QED
  BY <1>2, <1>3, <1>4, <1>5 DEF n, Chunk, Passes

(* A text has as many bytes as it has characters. *)
LEMMA Latin1Is ==
    ASSUME NEW text \in Seq(Nat)
    PROVE  Latin1(text) \in Seq(Nat) /\ Len(Latin1(text)) = Len(text) /\ Len(text) \in Nat
<1> DEFINE n == Len(text)
<1>1. n \in Nat /\ DOMAIN text = 1 .. n /\ \A i \in 1 .. n : text[i] \in Nat
  BY LenProperties, ElementOfSeq
<1>2. \A a \in Nat : a % 256 \in Nat
  OBVIOUS
<1> HIDE DEF n
<1>3. Latin1(text) \in [1 .. n -> Nat]
  BY <1>1, <1>2 DEF Latin1
<1> QED
  BY <1>1, <1>3, Tabled DEF n

(* The keyword is ASCII and has no zero. *)
LEMMA KeywordIs ==
    /\ Keyword \in Seq(Nat) /\ Len(Keyword) = 8 /\ Latin1(Keyword) = Keyword
    /\ \A i \in 1 .. 8 : Keyword[i] # 0
<1>1. Keyword \in Seq(Nat) /\ Len(Keyword) = 8 /\ DOMAIN Keyword = 1 .. 8
  BY DEF Keyword
<1>2. \A i \in 1 .. 8 : Keyword[i] \in 1 .. 255
  <2> SUFFICES ASSUME NEW i \in 1 .. 8 PROVE Keyword[i] \in 1 .. 255
    OBVIOUS
  <2>1. i = 1 \/ i = 2 \/ i = 3 \/ i = 4 \/ i = 5 \/ i = 6 \/ i = 7 \/ i = 8
    OBVIOUS
  <2> QED
    BY <2>1 DEF Keyword
<1>3. \A a \in 1 .. 255 : a % 256 = a /\ a # 0
  OBVIOUS
<1>4. Latin1(Keyword) = [i \in 1 .. 8 |-> Keyword[i]]
  <2>1. Latin1(Keyword) = [i \in 1 .. 8 |-> Keyword[i] % 256]
    BY <1>1 DEF Latin1
  <2>2. \A i \in 1 .. 8 : Keyword[i] % 256 = Keyword[i]
    BY <1>2, <1>3
  <2> QED
    BY <2>1, <2>2
<1>5. Keyword = [i \in 1 .. 8 |-> Keyword[i]]
  BY <1>1
<1> QED
  BY <1>1, <1>2, <1>3, <1>4, <1>5

(* What the text chunk of the Export Center holds. *)
Payload(text) == Keyword \o <<0>> \o Latin1(text)

(* The chunk the Export Center makes is one the other program could have made. *)
LEMMA TextChunkIs ==
    ASSUME NEW text \in Seq(Nat), FitsInU32(Len(Keyword) + 1 + Len(text))
    PROVE  /\ Payload(text) \in Seq(Nat)
           /\ FitsInU32(Len(Payload(text)))
           /\ TextChunk(Keyword, text) = PngChunk(Tag.tEXt, Payload(text))
<1> DEFINE k == Tag.tEXt
           w == Keyword
           z == <<0>>
           t == Latin1(text)
           data == w \o z \o t
           body == k \o w \o z \o t
           size == Be32(Len(data))
           crc == WordBytes(Crc32ByTable(body))
<1>1. /\ k \in Seq(Nat) /\ Len(k) = 4 /\ w \in Seq(Nat) /\ Len(w) = 8
      /\ z \in Seq(Nat) /\ Len(z) = 1 /\ t \in Seq(Nat) /\ Len(t) = Len(text) /\ Len(text) \in Nat
      /\ Latin1(w) = w
  BY Tags, KeywordIs, Latin1Is
<1> HIDE DEF k, w, z, t
<1>2. /\ w \o z \in Seq(Nat) /\ Len(w \o z) = 9 /\ k \o w \in Seq(Nat)
      /\ k \o w \o z = k \o (w \o z)
  <2>1. w \o z \in Seq(Nat) /\ Len(w \o z) = Len(w) + Len(z)
    BY <1>1, LengthsAdd
  <2>2. k \o w \in Seq(Nat)
    BY <1>1, LengthsAdd
  <2>3. k \o w \o z = k \o (w \o z)
    <3>1. k \in Seq(Nat) /\ w \in Seq(Nat) /\ z \in Seq(Nat)
      BY <1>1
    <3> QED
      BY <3>1, JoinsInline
  <2> QED
    BY <1>1, <2>1, <2>2, <2>3
<1>3. data \in Seq(Nat) /\ Len(data) = 9 + Len(text)
  <2> DEFINE wz == w \o z
  <2>1. wz \in Seq(Nat) /\ Len(wz) = 9 /\ t \in Seq(Nat) /\ Len(t) = Len(text)
    BY <1>1, <1>2
  <2>2. data = wz \o t
    OBVIOUS
  <2> HIDE DEF wz, data
  <2>3. wz \o t \in Seq(Nat) /\ Len(wz \o t) = Len(wz) + Len(t)
    BY <2>1, LengthsAdd
  <2> QED
    BY <2>1, <2>2, <2>3
<1>4. body = k \o data
  <2> DEFINE wz == w \o z
  <2>1. wz \in Seq(Nat) /\ body = k \o wz \o t
    BY <1>2
  <2>2. data = wz \o t
    OBVIOUS
  <2> HIDE DEF wz, data, body
  <2>3. k \in Seq(Nat) /\ wz \in Seq(Nat) /\ t \in Seq(Nat)
    BY <1>1, <2>1
  <2>4. k \o wz \o t = k \o (wz \o t)
    BY <2>3, JoinsInline
  <2> QED
    BY <2>1, <2>2, <2>4
<1> HIDE DEF body, data
<1>5. body \in Seq(Nat) /\ Len(body) = 4 + Len(data) /\ Len(data) \in Nat
  <2>1. k \o data \in Seq(Nat) /\ Len(k \o data) = Len(k) + Len(data) /\ Len(data) \in Nat
    BY <1>1, <1>3, LengthsAdd
  <2> QED
    BY <1>1, <1>4, <2>1
<1>6. FitsInU32(Len(data))
  <2>1. Len(data) = Len(Keyword) + 1 + Len(text)
    BY <1>1, <1>3 DEF w
  <2> QED
    BY <2>1
<1>7. size \in Seq(Nat) /\ Len(body) - 4 = Len(data)
  BY <1>5, <1>6, Be32Reads
<1> HIDE DEF size
<1>8. size \o k \o data = size \o body
  <2>1. size \in Seq(Nat) /\ k \in Seq(Nat) /\ data \in Seq(Nat)
    BY <1>1, <1>3, <1>7
  <2>2. size \o k \o data = size \o (k \o data)
    BY <2>1, JoinsInline
  <2> QED
    BY <1>4, <2>2
<1>9. Crc32ByTable(body) = Crc32Bitwise(k \o data)
  <2>1. Len(body) \in Nat
    BY <1>5
  <2> QED
    BY <1>4, <2>1, CrcsAgree
<1>10. TextChunk(Keyword, text) = size \o body \o crc
  <2>1. TextChunk(Keyword, text)
           = LET b == k \o Latin1(w) \o z \o t
             IN Be32(Len(b) - 4) \o b \o WordBytes(Crc32ByTable(b))
    BY DEF TextChunk, k, w, z, t
  <2>2. TextChunk(Keyword, text) = Be32(Len(body) - 4) \o body \o crc
    BY <1>1, <2>1 DEF body
  <2> QED
    BY <1>7, <2>2 DEF size
<1>11. PngChunk(Tag.tEXt, data) = size \o k \o data \o WordBytes(Crc32Bitwise(k \o data))
  BY DEF PngChunk, k, size
<1>12. Payload(text) = data
  BY DEF Payload, data, w, z, t
<1> QED
  BY <1>3, <1>6, <1>8, <1>9, <1>10, <1>11, <1>12

(* The text is what follows the first zero. *)
LEMMA PayloadReads ==
    ASSUME NEW text \in Seq(Nat), NEW file, NEW o,
           TypeAt(file, o) = Tag.tEXt, DataAt(file, o) = Payload(text)
    PROVE  PayloadAt(file, o, Keyword) = {Latin1(text)}
<1> DEFINE w == Keyword
           z == <<0>>
           t == Latin1(text)
           wz == w \o z
           data == Payload(text)
           nuls == {i \in DOMAIN data : data[i] = 0}
<1>1. /\ w \in Seq(Nat) /\ Len(w) = 8 /\ z \in Seq(Nat) /\ Len(z) = 1 /\ z[1] = 0
      /\ t \in Seq(Nat) /\ Len(t) \in Nat /\ \A i \in 1 .. 8 : w[i] # 0
  BY KeywordIs, Latin1Is
<1>2. data = wz \o t
  BY DEF Payload
<1> HIDE DEF w, z, t, data
<1>3. wz \in Seq(Nat) /\ Len(wz) = 9
  <2>1. wz \in Seq(Nat) /\ Len(wz) = Len(w) + Len(z)
    BY <1>1, LengthsAdd
  <2> HIDE DEF wz
  <2> QED
    BY <1>1, <2>1
<1>4. data \in Seq(Nat) /\ Len(data) = 9 + Len(t)
  <2> HIDE DEF wz
  <2>1. wz \in Seq(Nat) /\ Len(wz) = 9 /\ t \in Seq(Nat)
    BY <1>1, <1>3
  <2>2. wz \o t \in Seq(Nat) /\ Len(wz \o t) = Len(wz) + Len(t)
    BY <2>1, LengthsAdd
  <2> QED
    BY <1>2, <2>1, <2>2
<1>5. Stands(wz, data, 0) /\ Stands(t, data, 9)
  <2>1. Stands(wz \o t, data, 0)
    BY <1>2, <1>4, WholeStands
  <2> HIDE DEF wz
  <2>2. Stands(wz, data, 0) /\ Stands(t, data, 0 + Len(wz))
    BY <1>1, <1>3, <1>4, <2>1, PartsStand
  <2> QED
    BY <1>3, <2>2
<1>6. Stands(w, data, 0) /\ Stands(z, data, 8)
  <2>1. Stands(w, data, 0) /\ Stands(z, data, 0 + Len(w))
    BY <1>1, <1>4, <1>5, PartsStand
  <2> QED
    BY <1>1, <2>1
<1> HIDE DEF wz
<1>7. DOMAIN data = 1 .. Len(data) /\ Len(data) \in Nat
  BY <1>4
<1>8. data[9] = 0
  <2>1. 8 + 1 = 9 /\ 1 \in 1 .. Len(z)
    BY <1>1
  <2>2. data[8 + 1] = z[1]
    BY <1>6, <2>1 DEF Stands
  <2> QED
    BY <1>1, <2>1, <2>2
<1>9. \A i \in 1 .. 8 : data[i] # 0
  <2>1. \A i \in 1 .. 8 : 0 + i = i
    OBVIOUS
  <2>2. \A i \in 1 .. 8 : data[0 + i] = w[i]
    BY <1>1, <1>6 DEF Stands
  <2> QED
    BY <1>1, <2>1, <2>2
<1>10. Min(nuls) = 9 /\ nuls # {}
  <2>1. nuls \in SUBSET Nat /\ 9 \in nuls
    <3>1. 9 \in 1 .. Len(data) /\ 1 .. Len(data) \subseteq Nat
      <4> DEFINE a == Len(data)
                 b == Len(t)
      <4>1. a = 9 + b /\ b \in Nat
        BY <1>1, <1>4
      <4> HIDE DEF a, b
      <4>2. a \in Nat /\ 9 <= a
        BY <4>1
      <4>3. 9 \in 1 .. a /\ 1 .. a \subseteq Nat
        BY <4>2
      <4> QED
        BY <4>3 DEF a
    <3> QED
      BY <1>7, <1>8, <3>1
  <2>2. \A i \in nuls : i >= 9
    BY <1>7, <1>9
  <2> HIDE DEF nuls
  <2>3. Min(nuls) \in nuls /\ \A i \in nuls : Min(nuls) <= i
    BY <2>1, Least
  <2> DEFINE m == Min(nuls)
  <2>4. m >= 9 /\ m <= 9 /\ m \in Nat
    BY <2>1, <2>2, <2>3
  <2> HIDE DEF m
  <2>5. m = 9
    BY <2>4
  <2> QED
    BY <2>1, <2>5 DEF m
<1>11. SubSeq(data, 1, 8) = w
  <2>1. SubSeq(data, 0 + 1, 0 + Len(w)) = w
    BY <1>1, <1>4, <1>6, ReadsWhatStands
  <2>2. 0 + 1 = 1 /\ 0 + Len(w) = 8
    BY <1>1
  <2> QED
    BY <2>1, <2>2
<1>12. SubSeq(data, 10, Len(data)) = t
  <2>1. SubSeq(data, 9 + 1, 9 + Len(t)) = t
    BY <1>1, <1>4, <1>5, ReadsWhatStands
  <2> QED
    BY <1>4, <2>1
<1> HIDE DEF nuls
<1>13. PayloadAt(file, o, Keyword)
          = IF TypeAt(file, o) = Tag.tEXt /\ nuls # {} /\ SubSeq(data, 1, Min(nuls) - 1) = w
            THEN {SubSeq(data, Min(nuls) + 1, Len(data))} ELSE {}
  <2>1. DataAt(file, o) = data
    BY DEF data
  <2> QED
    BY <2>1 DEF PayloadAt, nuls, w
<1>14. Min(nuls) - 1 = 8 /\ Min(nuls) + 1 = 10
  BY <1>10
<1>15. PayloadAt(file, o, Keyword) = {t}
  BY <1>10, <1>11, <1>12, <1>13, <1>14
<1> QED
  BY <1>15 DEF t

(* No other chunk has a payload. *)
LEMMA OtherChunks ==
    ASSUME NEW file, NEW o, TypeAt(file, o) # Tag.tEXt
    PROVE  PayloadAt(file, o, Keyword) = {}
  BY DEF PayloadAt

-----------------------------------------------------------------------------
(* The file of an image, up to its end, and with a text.                   *)
Opening(h, d) == Signature \o PngChunk(Tag.IHDR, h) \o PngChunk(Tag.IDAT, d)
Ending == PngChunk(Tag.IEND, <<>>)

AreParts(h, d) ==
    h \in Seq(Nat) /\ Len(h) = 13 /\ d \in Seq(Nat) /\ FitsInU32(Len(d))

(* The last chunk has no data. *)
LEMMA EndingIs ==
    /\ Ending \in Seq(Nat) /\ Len(Ending) = 12
    /\ <<>> \in Seq(Nat) /\ Len(<<>>) = 0 /\ FitsInU32(0) /\ FitsInU32(13)
<1>1. <<>> \in Seq(Nat) /\ Len(<<>>) = 0 /\ FitsInU32(0) /\ FitsInU32(13)
  BY DEF FitsInU32
<1>2. Ending \in Seq(Nat) /\ Len(Ending) = 12 + 0
  <2> DEFINE e == <<>>
             k == Tag.IEND
  <2>1. e \in Seq(Nat) /\ Len(e) = 0 /\ FitsInU32(Len(e))
    BY <1>1
  <2>2. k \in Seq(Nat) /\ Len(k) = 4
    BY Tags
  <2>3. Ending = PngChunk(k, e)
    BY DEF Ending
  <2> HIDE DEF e, k
  <2>4. PngChunk(k, e) \in Seq(Nat) /\ Len(PngChunk(k, e)) = 12 + Len(e)
    BY <2>1, <2>2, ChunkIsSeq
  <2> QED
    BY <2>1, <2>3, <2>4
<1> QED
  BY <1>1, <1>2

(* The front of a file is its signature and two chunks. *)
LEMMA FrontIs ==
    ASSUME NEW h, NEW d, AreParts(h, d)
    PROVE  /\ Signature \in Seq(Nat) /\ Len(Signature) = 8
           /\ Opening(h, d) \in Seq(Nat) /\ Len(Opening(h, d)) = 45 + Len(d) /\ Len(d) \in Nat
           /\ \A file \in Seq(Nat) : Stands(Opening(h, d), file, 0) =>
                 /\ Stands(Signature, file, 0)
                 /\ Stands(PngChunk(Tag.IHDR, h), file, 8)
                 /\ Stands(PngChunk(Tag.IDAT, d), file, 33)
<1> DEFINE s == Signature
           a == PngChunk(Tag.IHDR, h)
           b == PngChunk(Tag.IDAT, d)
           sa == s \o a
<1>1. s \in Seq(Nat) /\ Len(s) = 8
  BY DEF Signature
<1>2. a \in Seq(Nat) /\ Len(a) = 25
  <2>1. FitsInU32(Len(h)) /\ h \in Seq(Nat) /\ Len(h) = 13
    BY EndingIs DEF AreParts
  <2>2. a \in Seq(Nat) /\ Len(a) = 12 + Len(h)
    BY <2>1, Tags, ChunkIsSeq
  <2> HIDE DEF a
  <2> QED
    BY <2>1, <2>2
<1>3. b \in Seq(Nat) /\ Len(b) = 12 + Len(d) /\ Len(d) \in Nat
  BY Tags, ChunkIsSeq, LenProperties DEF AreParts
<1>4. Opening(h, d) = sa \o b
  BY DEF Opening
<1> HIDE DEF s, a, b
<1>5. sa \in Seq(Nat) /\ Len(sa) = 33
  <2>1. sa \in Seq(Nat) /\ Len(sa) = Len(s) + Len(a)
    BY <1>1, <1>2, LengthsAdd
  <2> HIDE DEF sa
  <2> QED
    BY <1>1, <1>2, <2>1
<1>6. sa \o b \in Seq(Nat) /\ Len(sa \o b) = 33 + (12 + Len(d))
  <2> HIDE DEF sa
  <2>1. sa \o b \in Seq(Nat) /\ Len(sa \o b) = Len(sa) + Len(b)
    BY <1>3, <1>5, LengthsAdd
  <2> QED
    BY <1>3, <1>5, <2>1
<1>7. ASSUME NEW file \in Seq(Nat), Stands(sa \o b, file, 0)
      PROVE  Stands(s, file, 0) /\ Stands(a, file, 8) /\ Stands(b, file, 33)
  <2>1. Stands(sa, file, 0) /\ Stands(b, file, 0 + Len(sa))
    <3> HIDE DEF sa
    <3> QED
      BY <1>3, <1>5, <1>7, PartsStand
  <2>2. Stands(s, file, 0) /\ Stands(a, file, 0 + Len(s))
    BY <1>1, <1>2, <2>1, PartsStand
  <2> HIDE DEF sa
  <2> QED
    BY <1>1, <1>5, <2>1, <2>2
<1>8. Len(sa \o b) = 45 + Len(d)
  BY <1>3, <1>6
<1> HIDE DEF sa
<1> QED
  BY <1>1, <1>3, <1>4, <1>6, <1>7, <1>8 DEF s, a, b

(* How the walk takes the front of a file with header h and image data d. *)
Opens(h, d, file) ==
    /\ WalkFrom(file, 8) = <<8>> \o (<<33>> \o WalkFrom(file, 45 + Len(d)))
    /\ SubSeq(file, 1, 8) = Signature
    /\ TypeAt(file, 8) = Tag.IHDR /\ TypeAt(file, 33) = Tag.IDAT
    /\ ChunkIsWhole(file, 8) /\ ChunkIsWhole(file, 33)
    /\ Chunk(file, 8) = [type |-> Tag.IHDR, data |-> h]
    /\ Chunk(file, 33) = [type |-> Tag.IDAT, data |-> d]

(* The walk goes over the front of a file *)
LEMMA WalkFront ==
    ASSUME NEW h, NEW d, AreParts(h, d),
           NEW file \in Seq(Nat), Stands(Opening(h, d), file, 0)
    PROVE  Opens(h, d, file)
<1>1. /\ Stands(Signature, file, 0)
      /\ Stands(PngChunk(Tag.IHDR, h), file, 8)
      /\ Stands(PngChunk(Tag.IDAT, d), file, 33)
      /\ Signature \in Seq(Nat) /\ Len(Signature) = 8 /\ Len(d) \in Nat
  BY FrontIs
<1>2. h \in Seq(Nat) /\ Len(h) = 13 /\ FitsInU32(Len(h)) /\ d \in Seq(Nat) /\ FitsInU32(Len(d))
  BY EndingIs DEF AreParts
<1>3. Passes(Tag.IHDR, h, file, 8)
  BY <1>1, <1>2, Tags, WalkOver
<1>4. Passes(Tag.IDAT, d, file, 33)
  BY <1>1, <1>2, Tags, WalkOver
<1>5. 8 + 12 + Len(h) = 33 /\ 33 + 12 + Len(d) = 45 + Len(d)
  BY <1>1, <1>2
<1>6. SubSeq(file, 1, 8) = Signature
  <2>1. SubSeq(file, 0 + 1, 0 + Len(Signature)) = Signature
    BY <1>1, ReadsWhatStands
  <2> QED
    BY <1>1, <2>1
<1>7. /\ WalkFrom(file, 8) = <<8>> \o WalkFrom(file, 33)
      /\ TypeAt(file, 8) = Tag.IHDR /\ ChunkIsWhole(file, 8)
      /\ Chunk(file, 8) = [type |-> Tag.IHDR, data |-> h]
  BY <1>3, <1>5, Tags DEF Passes
<1>8. /\ WalkFrom(file, 33) = <<33>> \o WalkFrom(file, 45 + Len(d))
      /\ TypeAt(file, 33) = Tag.IDAT /\ ChunkIsWhole(file, 33)
      /\ Chunk(file, 33) = [type |-> Tag.IDAT, data |-> d]
  BY <1>4, <1>5, Tags DEF Passes
<1> QED
  BY <1>6, <1>7, <1>8 DEF Opens

(* and ends at the last chunk. *)
LEMMA WalkEnding ==
    ASSUME NEW file \in Seq(Nat), NEW o \in Nat, Stands(Ending, file, o)
    PROVE  /\ WalkFrom(file, o) = <<o>>
           /\ TypeAt(file, o) = Tag.IEND
           /\ ChunkIsWhole(file, o)
           /\ Chunk(file, o) = [type |-> Tag.IEND, data |-> <<>>]
<1>1. Stands(PngChunk(Tag.IEND, <<>>), file, o)
  BY DEF Ending
<1>2. <<>> \in Seq(Nat) /\ FitsInU32(Len(<<>>))
  BY EndingIs
<1>3. Passes(Tag.IEND, <<>>, file, o)
  BY <1>1, <1>2, Tags, WalkOver
<1> QED
  BY <1>3 DEF Passes

(* A file without a text. *)
LEMMA PlainIs ==
    ASSUME NEW h, NEW d, AreParts(h, d)
    PROVE  LET png == Opening(h, d) \o Ending
               q == 45 + Len(d)
           IN /\ png \in Seq(Nat) /\ Len(png) = q + 12 /\ q \in Nat
              /\ Stands(Opening(h, d), png, 0) /\ Stands(Ending, png, q)
              /\ WalkFrom(png, 8) = <<8, 33, q>>
              /\ TypeAt(png, 8) = Tag.IHDR /\ TypeAt(png, 33) = Tag.IDAT /\ TypeAt(png, q) = Tag.IEND
              /\ Chunk(png, 8) = [type |-> Tag.IHDR, data |-> h]
              /\ Chunk(png, 33) = [type |-> Tag.IDAT, data |-> d]
              /\ Chunk(png, q) = [type |-> Tag.IEND, data |-> <<>>]
<1> DEFINE a == Opening(h, d)
           q == 45 + Len(d)
           png == a \o Ending
<1>1. a \in Seq(Nat) /\ Len(a) = q /\ q \in Nat /\ Ending \in Seq(Nat) /\ Len(Ending) = 12
  BY FrontIs, EndingIs
<1> HIDE DEF a, q
<1>2. png \in Seq(Nat) /\ Len(png) = q + 12
  <2>1. png \in Seq(Nat) /\ Len(png) = Len(a) + Len(Ending)
    BY <1>1, LengthsAdd
  <2> HIDE DEF png
  <2> QED
    BY <1>1, <2>1
<1>3. Stands(a, png, 0) /\ Stands(Ending, png, q)
  <2>1. Stands(a \o Ending, png, 0)
    BY <1>2, WholeStands
  <2> HIDE DEF png
  <2>2. Stands(a, png, 0) /\ Stands(Ending, png, 0 + Len(a))
    BY <1>1, <1>2, <2>1, PartsStand
  <2> QED
    BY <1>1, <2>2
<1> HIDE DEF png
<1>4. /\ WalkFrom(png, 8) = <<8>> \o (<<33>> \o WalkFrom(png, q))
      /\ TypeAt(png, 8) = Tag.IHDR /\ TypeAt(png, 33) = Tag.IDAT
      /\ Chunk(png, 8) = [type |-> Tag.IHDR, data |-> h]
      /\ Chunk(png, 33) = [type |-> Tag.IDAT, data |-> d]
  <2>1. Opens(h, d, png)
    BY <1>2, <1>3, WalkFront DEF a
  <2> QED
    BY <2>1 DEF Opens, q
<1>5. /\ WalkFrom(png, q) = <<q>> /\ TypeAt(png, q) = Tag.IEND
      /\ Chunk(png, q) = [type |-> Tag.IEND, data |-> <<>>]
  BY <1>1, <1>2, <1>3, WalkEnding
<1>6. <<8>> \o (<<33>> \o <<q>>) = <<8, 33, q>>
  <2>1. 8 \in Nat /\ 33 \in Nat
    OBVIOUS
  <2>2. <<33>> \o <<q>> = <<33, q>>
    BY <1>1, <2>1, OneAndOne
  <2>3. <<8>> \o <<33, q>> = <<8, 33, q>>
    BY <1>1, <2>1, OneAndTwo
  <2> QED
    BY <2>2, <2>3
<1>7. WalkFrom(png, 8) = <<8, 33, q>>
  BY <1>4, <1>5, <1>6
<1> QED
  BY <1>1, <1>2, <1>3, <1>4, <1>5, <1>7 DEF png, a, q

(* The text chunk goes between the front and the last chunk. *)
LEMMA EmbedIs ==
    ASSUME NEW h, NEW d, AreParts(h, d), NEW text
    PROVE  EmbedPngMetadata(Opening(h, d) \o Ending, text)
              = Opening(h, d) \o TextChunk(Keyword, text) \o Ending
<1> DEFINE a == Opening(h, d)
           q == 45 + Len(d)
           png == a \o Ending
           walk == WalkFrom(png, 8)
<1>1. /\ png \in Seq(Nat) /\ Len(png) = q + 12 /\ q \in Nat
      /\ Stands(a, png, 0) /\ Stands(Ending, png, q)
      /\ walk = <<8, 33, q>>
      /\ TypeAt(png, q) = Tag.IEND
  BY PlainIs
<1>2. a \in Seq(Nat) /\ Len(a) = q /\ Len(d) \in Nat
  BY FrontIs
<1>3. SubSeq(png, 1, 8) = Signature
  <2> HIDE DEF png
  <2> QED
    BY <1>1, WalkFront DEF Opens
<1>4. q >= 8
  BY <1>2
<1> HIDE DEF a, q, png, walk
<1>5. Ending \in Seq(Nat) /\ Len(Ending) = 12
  BY EndingIs
<1>6. Min({8, Len(png)}) = 8
  <2>1. Len(png) \in Nat /\ 8 <= Len(png) /\ 8 \in Nat
    BY <1>1, <1>4
  <2> QED
    BY <2>1, LesserOfTwo
<1>7. Last(walk) = q /\ walk # <<>>
  <2>1. Len(walk) = 3 /\ walk[3] = q /\ Len(<<>>) = 0
    BY <1>1
  <2> QED
    BY <2>1 DEF Last
<1>8. SubSeq(png, 1, q) = a
  <2>1. SubSeq(png, 0 + 1, 0 + Len(a)) = a
    BY <1>1, <1>2, ReadsWhatStands
  <2>2. 0 + Len(a) = q
    BY <1>1, <1>2
  <2> QED
    BY <2>1, <2>2
<1>9. SubSeq(png, q + 1, Len(png)) = Ending
  <2>1. SubSeq(png, q + 1, q + Len(Ending)) = Ending
    BY <1>1, <1>5, ReadsWhatStands
  <2> QED
    BY <1>1, <1>5, <2>1
<1>10. EmbedPngMetadata(png, text)
          = IF \/ SubSeq(png, 1, Min({8, Len(png)})) # Signature
               \/ walk = <<>>
               \/ TypeAt(png, Last(walk)) # Tag.IEND
            THEN Failed
            ELSE SubSeq(png, 1, Last(walk)) \o TextChunk(Keyword, text)
                   \o SubSeq(png, Last(walk) + 1, Len(png))
  BY DEF EmbedPngMetadata, walk
<1>11. EmbedPngMetadata(png, text) = a \o TextChunk(Keyword, text) \o Ending
  BY <1>1, <1>3, <1>6, <1>7, <1>8, <1>9, <1>10
<1> QED
  BY <1>11 DEF png, a

(* A file with a text. *)
IsStamped(h, d, t) ==
    LET file == Opening(h, d) \o PngChunk(Tag.tEXt, t) \o Ending
        q == 45 + Len(d)
        r == q + 12 + Len(t)
    IN /\ file \in Seq(Nat) /\ Len(file) = r + 12 /\ q \in Nat /\ r \in Nat
       /\ Stands(Opening(h, d), file, 0)
       /\ WalkFrom(file, 8) = <<8, 33, q, r>>
       /\ ChunkIsWhole(file, 8) /\ ChunkIsWhole(file, 33)
       /\ ChunkIsWhole(file, q) /\ ChunkIsWhole(file, r)
       /\ TypeAt(file, 8) = Tag.IHDR /\ TypeAt(file, 33) = Tag.IDAT
       /\ TypeAt(file, q) = Tag.tEXt /\ TypeAt(file, r) = Tag.IEND
       /\ DataAt(file, q) = t
       /\ Chunk(file, 8) = [type |-> Tag.IHDR, data |-> h]
       /\ Chunk(file, 33) = [type |-> Tag.IDAT, data |-> d]
       /\ Chunk(file, q) = [type |-> Tag.tEXt, data |-> t]
       /\ Chunk(file, r) = [type |-> Tag.IEND, data |-> <<>>]

(* The chunks of that file. *)
LEMMA StampedIs ==
    ASSUME NEW h, NEW d, AreParts(h, d), NEW t \in Seq(Nat), FitsInU32(Len(t))
    PROVE  IsStamped(h, d, t)
<1> DEFINE a == Opening(h, d)
           b == PngChunk(Tag.tEXt, t)
           ab == a \o b
           q == 45 + Len(d)
           r == q + 12 + Len(t)
           file == ab \o Ending
<1>1. /\ a \in Seq(Nat) /\ Len(a) = q /\ q \in Nat /\ Ending \in Seq(Nat) /\ Len(Ending) = 12
      /\ Len(t) \in Nat
  BY FrontIs, EndingIs, LenProperties
<1>2. b \in Seq(Nat) /\ Len(b) = 12 + Len(t)
  BY Tags, ChunkIsSeq
<1> HIDE DEF a, b, q
<1>3. r \in Nat
  BY <1>1
<1>4. ab \in Seq(Nat) /\ Len(ab) = r
  <2>1. ab \in Seq(Nat) /\ Len(ab) = Len(a) + Len(b)
    BY <1>1, <1>2, LengthsAdd
  <2> HIDE DEF ab
  <2> QED
    BY <1>1, <1>2, <2>1
<1>5. file \in Seq(Nat) /\ Len(file) = r + 12
  <2>1. file \in Seq(Nat) /\ Len(file) = Len(ab) + Len(Ending)
    <3> HIDE DEF ab
    <3> QED
      BY <1>1, <1>4, LengthsAdd
  <2> HIDE DEF file, ab
  <2> QED
    BY <1>1, <1>4, <2>1
<1>6. Stands(a, file, 0) /\ Stands(b, file, q) /\ Stands(Ending, file, r)
  <2>1. Stands(ab \o Ending, file, 0)
    BY <1>5, WholeStands
  <2> HIDE DEF file
  <2>2. Stands(ab, file, 0) /\ Stands(Ending, file, 0 + Len(ab))
    <3> HIDE DEF ab
    <3> QED
      BY <1>1, <1>4, <1>5, <2>1, PartsStand
  <2>3. Stands(a, file, 0) /\ Stands(b, file, 0 + Len(a))
    BY <1>1, <1>2, <1>5, <2>2, PartsStand
  <2>4. 0 + Len(ab) = r /\ 0 + Len(a) = q
    <3> HIDE DEF ab, r
    <3> QED
      BY <1>1, <1>3, <1>4
  <2> HIDE DEF ab, r
  <2> QED
    BY <2>2, <2>3, <2>4
<1> HIDE DEF file, ab, r
<1>7. /\ WalkFrom(file, 8) = <<8>> \o (<<33>> \o WalkFrom(file, q))
      /\ TypeAt(file, 8) = Tag.IHDR /\ TypeAt(file, 33) = Tag.IDAT
      /\ ChunkIsWhole(file, 8) /\ ChunkIsWhole(file, 33)
      /\ Chunk(file, 8) = [type |-> Tag.IHDR, data |-> h]
      /\ Chunk(file, 33) = [type |-> Tag.IDAT, data |-> d]
  <2>1. Opens(h, d, file)
    BY <1>5, <1>6, WalkFront DEF a
  <2> QED
    BY <2>1 DEF Opens, q
<1>8. /\ WalkFrom(file, q) = <<q>> \o WalkFrom(file, q + 12 + Len(t))
      /\ TypeAt(file, q) = Tag.tEXt /\ DataAt(file, q) = t
      /\ ChunkIsWhole(file, q)
      /\ Chunk(file, q) = [type |-> Tag.tEXt, data |-> t]
  <2>1. Stands(PngChunk(Tag.tEXt, t), file, q)
    BY <1>6 DEF b
  <2>2. Passes(Tag.tEXt, t, file, q)
    BY <1>1, <1>5, <2>1, Tags, WalkOver
  <2> QED
    BY <2>2, Tags DEF Passes
<1>9. /\ WalkFrom(file, r) = <<r>> /\ TypeAt(file, r) = Tag.IEND
      /\ ChunkIsWhole(file, r)
      /\ Chunk(file, r) = [type |-> Tag.IEND, data |-> <<>>]
  BY <1>3, <1>5, <1>6, WalkEnding
<1>10. <<8>> \o (<<33>> \o (<<q>> \o <<r>>)) = <<8, 33, q, r>>
  <2>1. 8 \in Nat /\ 33 \in Nat
    OBVIOUS
  <2>2. <<q>> \o <<r>> = <<q, r>>
    BY <1>1, <1>3, OneAndOne
  <2>3. <<33>> \o <<q, r>> = <<33, q, r>>
    BY <1>1, <1>3, <2>1, OneAndTwo
  <2>4. <<8>> \o <<33, q, r>> = <<8, 33, q, r>>
    BY <1>1, <1>3, <2>1, OneAndThree
  <2> QED
    BY <2>2, <2>3, <2>4
<1>11. WalkFrom(file, 8) = <<8, 33, q, r>>
  BY <1>7, <1>8, <1>9, <1>10 DEF r
<1>12. file = a \o b \o Ending
  BY DEF file, ab
<1> QED
  BY <1>1, <1>3, <1>5, <1>6, <1>7, <1>8, <1>9, <1>11, <1>12 DEF a, b, q, r, IsStamped

-----------------------------------------------------------------------------
(* A report's image, stamped by the Export Center.                         *)
LEMMA ScaleIs ==
    ASSUME NEW scale \in 0 .. 2
    PROVE  Max({scale, 1}) \in 1 .. 2
<1> DEFINE S == {scale, 1}
<1>1. \E x \in S : \A y \in S : x >= y
  <2>1. CASE scale >= 1
    <3>1. \A y \in S : scale >= y
      BY <2>1
    <3> QED
      BY <3>1
  <2>2. CASE ~ (scale >= 1)
    <3>1. \A y \in S : 1 >= y
      BY <2>2
    <3> QED
      BY <3>1
  <2> QED
    BY <2>1, <2>2
<1>2. Max(S) = CHOOSE x \in S : \A y \in S : x >= y
  BY DEF Max
<1>3. Max(S) \in S /\ \A y \in S : Max(S) >= y
  <2> HIDE DEF S
  <2> QED
    BY <1>1, <1>2
<1>4. Max(S) \in 0 .. 2 /\ Max(S) >= 1
  <2> DEFINE x == Max(S)
  <2> HIDE DEF x
  <2>1. x \in S /\ \A y \in S : x >= y
    BY <1>3 DEF x
  <2>2. x \in 0 .. 2 /\ x >= 1
    BY <2>1
  <2> QED
    BY <2>2 DEF x
<1> QED
  BY <1>4

(* The header holds the side twice, *)
Header(side) == Be32(side) \o Be32(side) \o <<8, 2, 0, 0, 0>>

(* in thirteen bytes, *)
LEMMA HeaderIs ==
    ASSUME NEW side \in Nat, FitsInU32(side)
    PROVE  Header(side) \in Seq(Nat) /\ Len(Header(side)) = 13
<1> DEFINE a == Be32(side)
           z == <<8, 2, 0, 0, 0>>
           aa == a \o a
<1>1. a \in Seq(Nat) /\ Len(a) = 4
  BY Be32Reads
<1>2. z \in Seq(Nat) /\ Len(z) = 5
  OBVIOUS
<1>3. Header(side) = aa \o z
  BY DEF Header
<1> HIDE DEF a, z
<1>4. aa \in Seq(Nat) /\ Len(aa) = Len(a) + Len(a)
  BY <1>1, LengthsAdd
<1> HIDE DEF aa
<1>5. aa \o z \in Seq(Nat) /\ Len(aa \o z) = Len(aa) + Len(z)
  BY <1>2, <1>4, LengthsAdd
<1> QED
  BY <1>1, <1>2, <1>3, <1>4, <1>5

(* where the program of the other language finds it.                       *)
LEMMA HeaderReads ==
    ASSUME NEW side \in Nat, FitsInU32(side), NEW file \in Seq(Nat), NEW o \in Nat,
           Stands(PngChunk(Tag.IHDR, Header(side)), file, o)
    PROVE  Uint32At(file, o + 8) = side /\ Uint32At(file, o + 12) = side
<1> DEFINE h == Header(side)
           n == Be32(Len(h))
           k == Tag.IHDR
           crc == WordBytes(Crc32Bitwise(k \o h))
           a == Be32(side)
           z == <<8, 2, 0, 0, 0>>
           aa == a \o a
           nk == n \o k
           nkh == nk \o h
<1>1. h \in Seq(Nat) /\ Len(h) = 13
  BY HeaderIs
<1>2. n \in Seq(Nat) /\ Len(n) = 4
  <2>1. FitsInU32(13) /\ 13 \in Nat
    BY EndingIs
  <2>2. n = Be32(13)
    BY <1>1
  <2> HIDE DEF n
  <2> QED
    BY <2>1, <2>2, Be32Reads
<1>3. k \in Seq(Nat) /\ Len(k) = 4
  BY Tags
<1>4. crc \in Seq(Nat)
  BY CrcIsFour
<1>5. a \in Seq(Nat) /\ Len(a) = 4
      /\ ((a[1] * 256 + a[2]) * 256 + a[3]) * 256 + a[4] = side
  BY Be32Reads
<1>6. z \in Seq(Nat)
  OBVIOUS
<1>7. PngChunk(k, h) = nkh \o crc /\ h = aa \o z
  BY DEF PngChunk, Header
<1>8. Stands(PngChunk(k, h), file, o)
  OBVIOUS
<1> HIDE DEF h, n, k, crc, a, z
<1>9. nk \in Seq(Nat) /\ Len(nk) = 8
  <2>1. nk \in Seq(Nat) /\ Len(nk) = Len(n) + Len(k)
    BY <1>2, <1>3, LengthsAdd
  <2> HIDE DEF nk
  <2> QED
    BY <1>2, <1>3, <2>1
<1>10. nkh \in Seq(Nat)
  BY <1>1, <1>9, LengthsAdd
<1>11. aa \in Seq(Nat)
  BY <1>5, LengthsAdd
<1>12. Stands(nkh, file, o)
  <2>1. Stands(nkh \o crc, file, o)
    BY <1>7, <1>8
  <2> HIDE DEF nkh
  <2> QED
    BY <1>4, <1>10, <2>1, PartsStand
<1>13. Stands(h, file, o + 8)
  <2> HIDE DEF nk
  <2>1. Stands(h, file, o + Len(nk))
    BY <1>1, <1>9, <1>12, PartsStand
  <2> QED
    BY <1>9, <2>1
<1>14. o + 8 \in Nat /\ (o + 8) + 4 = o + 12
  OBVIOUS
<1>15. Stands(aa, file, o + 8)
  <2>1. Stands(aa \o z, file, o + 8)
    BY <1>7, <1>13
  <2> HIDE DEF aa
  <2> QED
    BY <1>6, <1>11, <1>14, <2>1, PartsStand
<1>16. Stands(a, file, o + 8) /\ Stands(a, file, o + 12)
  <2>1. Stands(a, file, o + 8) /\ Stands(a, file, o + 8 + Len(a))
    BY <1>5, <1>14, <1>15, PartsStand
  <2> QED
    BY <1>5, <1>14, <2>1
<1>17. ASSUME NEW p \in Nat, Stands(a, file, p) PROVE Uint32At(file, p) = side
  <2>1. \A i \in 1 .. 4 : file[p + i] = a[i]
    <3>1. Len(a) = 4
      BY <1>5
    <3> QED
      BY <1>17, <3>1 DEF Stands
  <2>2. 1 \in 1 .. 4 /\ 2 \in 1 .. 4 /\ 3 \in 1 .. 4 /\ 4 \in 1 .. 4
    OBVIOUS
  <2>3. file[p + 1] = a[1] /\ file[p + 2] = a[2] /\ file[p + 3] = a[3] /\ file[p + 4] = a[4]
    BY <2>1, <2>2
  <2>4. Uint32At(file, p) = ((a[1] * 256 + a[2]) * 256 + a[3]) * 256 + a[4]
    BY <2>3 DEF Uint32At
  <2> QED
    BY <1>5, <2>4
<1>18. o + 12 \in Nat
  OBVIOUS
<1> QED
  BY <1>14, <1>16, <1>17, <1>18

(* The third of four is removed. *)
LEMMA ThirdRemoved ==
    ASSUME NEW S, NEW s \in Seq(S), Len(s) = 4, NEW t \in Seq(S), Len(t) = 3,
           t[1] = s[1], t[2] = s[2], t[3] = s[4]
    PROVE  RemoveAt(s, 3) = t
<1> DEFINE u == SubSeq(s, 1, 2)
           v == SubSeq(s, 4, 4)
<1>1. RemoveAt(s, 3) = u \o v
  BY DEF RemoveAt
<1>2. \A i \in 1 .. 4 : s[i] \in S
  BY ElementOfSeq
<1>3. u \in Seq(S) /\ Len(u) = 2 /\ u[1] = s[1] /\ u[2] = s[2]
  <2>1. \A i \in 1 .. 2 : s[i] \in S
    BY <1>2
  <2>2. /\ u \in Seq(S)
        /\ Len(u) = IF 1 <= 2 THEN 2 - 1 + 1 ELSE 0
        /\ \A i \in 1 .. 2 - 1 + 1 : u[i] = s[1 + i - 1]
    BY <2>1, SubSeqProperties
  <2> HIDE DEF u
  <2>3. 1 \in 1 .. 2 - 1 + 1 /\ 2 \in 1 .. 2 - 1 + 1 /\ 1 + 1 - 1 = 1 /\ 1 + 2 - 1 = 2
    OBVIOUS
  <2>4. u[1] = s[1] /\ u[2] = s[2]
    BY <2>2, <2>3
  <2> QED
    BY <2>2, <2>4
<1>4. v \in Seq(S) /\ Len(v) = 1 /\ v[1] = s[4]
  <2>1. \A i \in 4 .. 4 : s[i] \in S
    BY <1>2
  <2>2. /\ v \in Seq(S)
        /\ Len(v) = IF 4 <= 4 THEN 4 - 4 + 1 ELSE 0
        /\ \A i \in 1 .. 4 - 4 + 1 : v[i] = s[4 + i - 1]
    BY <2>1, SubSeqProperties
  <2> HIDE DEF v
  <2>3. 1 \in 1 .. 4 - 4 + 1 /\ 4 + 1 - 1 = 4
    OBVIOUS
  <2>4. v[1] = s[4]
    BY <2>2, <2>3
  <2> QED
    BY <2>2, <2>4
<1> HIDE DEF u, v
<1>5. /\ u \o v \in Seq(S) /\ Len(u \o v) = Len(u) + Len(v)
      /\ \A i \in 1 .. Len(u) + Len(v) : (u \o v)[i] = IF i <= Len(u) THEN u[i] ELSE v[i - Len(u)]
  BY <1>3, <1>4, ConcatProperties
<1>6. /\ Len(u \o v) = 3
      /\ \A i \in 1 .. 3 : (u \o v)[i] = IF i <= 2 THEN u[i] ELSE v[i - 2]
  BY <1>3, <1>4, <1>5
<1>7. (u \o v)[1] = u[1] /\ (u \o v)[2] = u[2] /\ (u \o v)[3] = v[1]
  BY <1>6
<1>8. \A i \in 1 .. 3 : (u \o v)[i] = t[i]
  <2>1. \A i \in 1 .. 3 : i = 1 \/ i = 2 \/ i = 3
    OBVIOUS
  <2> QED
    BY <1>3, <1>4, <1>7, <2>1
<1>9. u \o v = t
  BY <1>5, <1>6, <1>8, SeqEqual
<1> QED
  BY <1>1, <1>9

(* The image data of a matrix, and its file. *)
IsImage(m, scale, s, side, d) ==
    /\ IsMatrix(m) /\ s \in Positive /\ side = m.bits * s /\ side \in Nat /\ FitsInU32(side)
    /\ AreParts(Header(side), d)
    /\ d = ZlibStored(Filtered(m, s))
    /\ MatrixToPng(m, scale) = Opening(Header(side), d) \o Ending
    /\ MatrixToPpm(m, scale) = FlattenSeq([y \in 1 .. side |-> Scanline(m, y, s)])

(* The file of each image of the run is such a file. *)
LEMMA ImageIs ==
    ASSUME NEW m \in Images, NEW scale \in 0 .. 2
    PROVE  LET s == Max({scale, 1})
           IN IsImage(m, scale, s, m.bits * s, ImageData(m, s))
<1> DEFINE s == Max({scale, 1})
           side == m.bits * s
           d == ImageData(m, s)
<1>1. MatrixToPng(m, scale) = Opening(Header(side), d) \o Ending
  BY DEF MatrixToPng, Opening, Header, Ending
<1>2. MatrixToPpm(m, scale) = FlattenSeq([y \in 1 .. side |-> Scanline(m, y, s)])
  BY DEF MatrixToPpm
<1>3. s \in 1 .. 2
  BY ScaleIs
<1>4. d = ZlibStored(Filtered(m, s))
  BY DEF ImageData, Filtered
<1> HIDE DEF s
<1>5. IsMatrix(m) /\ FitsInU32(side) /\ FitsInU32(Len(d))
  BY <1>3, PngAssumption DEF IsMatrix, Positive
<1>6. s \in Positive /\ s \in Nat
  BY <1>3 DEF Positive
<1>7. side \in Nat
  BY <1>5, <1>6 DEF IsMatrix
<1> HIDE DEF d, side
<1>8. d \in Seq(Nat)
  <2>1. Filtered(m, s) \in Seq(Nat)
    BY <1>5, <1>6, RowsComeBack
  <2> QED
    BY <1>4, <2>1, ZlibComesBack
<1>9. AreParts(Header(side), d)
  BY <1>5, <1>7, <1>8, HeaderIs DEF AreParts
<1>10. side = m.bits * s
  BY DEF side
<1>11. IsImage(m, scale, s, side, d)
  BY <1>1, <1>2, <1>4, <1>5, <1>6, <1>7, <1>9, <1>10 DEF IsImage
<1> QED
  BY <1>11 DEF side, d, s

(* The chunks of a file of three, and of the same file with a fourth.      *)
LEMMA PlainChunks ==
    ASSUME NEW h, NEW d, AreParts(h, d)
    PROVE  LET png == Opening(h, d) \o Ending
           IN /\ ReadPngTextChunk(png, Keyword) = Failed
              /\ ChunksOf(png) = <<[type |-> Tag.IHDR, data |-> h], [type |-> Tag.IDAT, data |-> d],
                                   [type |-> Tag.IEND, data |-> <<>>]>>
<1> DEFINE png == Opening(h, d) \o Ending
           q == 45 + Len(d)
           walk == WalkFrom(png, 8)
           a == [type |-> Tag.IHDR, data |-> h]
           b == [type |-> Tag.IDAT, data |-> d]
           e == [type |-> Tag.IEND, data |-> <<>>]
           hits == {i \in DOMAIN walk : PayloadAt(png, walk[i], Keyword) # {}}
<1>1. /\ walk = <<8, 33, q>>
      /\ TypeAt(png, 8) = Tag.IHDR /\ TypeAt(png, 33) = Tag.IDAT /\ TypeAt(png, q) = Tag.IEND
      /\ Chunk(png, 8) = a /\ Chunk(png, 33) = b /\ Chunk(png, q) = e
  BY PlainIs
<1> HIDE DEF png, q, a, b, e
<1>2. DOMAIN walk = 1 .. 3 /\ walk[1] = 8 /\ walk[2] = 33 /\ walk[3] = q
  <2> HIDE DEF walk
  <2> QED
    BY <1>1
<1>3. ReadPngTextChunk(png, Keyword)
         = IF hits = {} THEN Failed
           ELSE CHOOSE text \in PayloadAt(png, walk[Min(hits)], Keyword) : TRUE
  BY DEF ReadPngTextChunk
<1>4. ChunksOf(png) = [k \in DOMAIN walk |-> Chunk(png, walk[k])]
  BY DEF ChunksOf
<1> HIDE DEF walk
<1>5. hits = {}
  <2>1. /\ PayloadAt(png, 8, Keyword) = {} /\ PayloadAt(png, 33, Keyword) = {}
        /\ PayloadAt(png, q, Keyword) = {}
    <3>1. Tag.IEND # Tag.tEXt
      BY DEF Tag
    <3> QED
      BY <1>1, <3>1, Tags, OtherChunks
  <2>2. \A i \in 1 .. 3 : i = 1 \/ i = 2 \/ i = 3
    OBVIOUS
  <2> QED
    BY <1>2, <2>1, <2>2
<1>6. ChunksOf(png) = <<a, b, e>>
  <2> DEFINE c == [k \in 1 .. 3 |-> Chunk(png, walk[k])]
             S == {a, b, e}
             t == <<a, b, e>>
  <2>1. c[1] = a /\ c[2] = b /\ c[3] = e
    BY <1>1, <1>2
  <2>2. ChunksOf(png) = c
    BY <1>2, <1>4
  <2>3. \A i \in 1 .. 3 : i = 1 \/ i = 2 \/ i = 3
    OBVIOUS
  <2>4. c \in [1 .. 3 -> S]
    <3>1. \A k \in 1 .. 3 : Chunk(png, walk[k]) \in S
      BY <1>1, <1>2, <2>3
    <3> HIDE DEF S
    <3> QED
      BY <3>1
  <2>5. t \in Seq(S) /\ Len(t) = 3 /\ t[1] = a /\ t[2] = b /\ t[3] = e
    OBVIOUS
  <2> HIDE DEF c, S, t
  <2>6. c \in Seq(S) /\ Len(c) = 3
    BY <2>4, Tabled
  <2>7. \A i \in 1 .. 3 : c[i] = t[i]
    BY <2>1, <2>3, <2>5
  <2>8. c = t
    BY <2>5, <2>6, <2>7, SeqEqual
  <2> QED
    BY <2>2, <2>8 DEF t
<1> QED
  BY <1>3, <1>5, <1>6 DEF png, a, b, e

(* The text is found in the third chunk, and nothing else is changed. *)
LEMMA StampedChunks ==
    ASSUME NEW h, NEW d, AreParts(h, d), NEW text \in Texts
    PROVE  LET file == Opening(h, d) \o TextChunk(Keyword, text) \o Ending
               walk == WalkFrom(file, 8)
           IN /\ file \in Seq(Nat)
              /\ Stands(Opening(h, d), file, 0)
              /\ \A k \in DOMAIN walk : ChunkIsWhole(file, walk[k])
              /\ walk[Len(walk)] + 12 = Len(file)
              /\ walk[2] = 33 /\ Chunk(file, 33).data = d
              /\ ReadPngTextChunk(file, Keyword) = Latin1(text)
              /\ DOMAIN ChunksOf(file) = 1 .. 4
              /\ ChunksOf(file)[3].type = Tag.tEXt
              /\ RemoveAt(ChunksOf(file), 3)
                   = <<[type |-> Tag.IHDR, data |-> h], [type |-> Tag.IDAT, data |-> d],
                       [type |-> Tag.IEND, data |-> <<>>]>>
<1> DEFINE t == Payload(text)
           file == Opening(h, d) \o TextChunk(Keyword, text) \o Ending
           q == 45 + Len(d)
           r == q + 12 + Len(t)
           walk == WalkFrom(file, 8)
           a == [type |-> Tag.IHDR, data |-> h]
           b == [type |-> Tag.IDAT, data |-> d]
           x == [type |-> Tag.tEXt, data |-> t]
           e == [type |-> Tag.IEND, data |-> <<>>]
           hits == {i \in DOMAIN walk : PayloadAt(file, walk[i], Keyword) # {}}
<1>1. text \in Seq(Nat) /\ FitsInU32(Len(Keyword) + 1 + Len(text))
  BY PngAssumption
<1>2. t \in Seq(Nat) /\ FitsInU32(Len(t)) /\ TextChunk(Keyword, text) = PngChunk(Tag.tEXt, t)
  BY <1>1, TextChunkIs
<1>3. file = Opening(h, d) \o PngChunk(Tag.tEXt, t) \o Ending
  BY <1>2
<1> HIDE DEF file
<1>4. /\ file \in Seq(Nat) /\ Len(file) = r + 12
      /\ Stands(Opening(h, d), file, 0)
      /\ walk = <<8, 33, q, r>>
      /\ ChunkIsWhole(file, 8) /\ ChunkIsWhole(file, 33)
      /\ ChunkIsWhole(file, q) /\ ChunkIsWhole(file, r)
      /\ TypeAt(file, 8) = Tag.IHDR /\ TypeAt(file, 33) = Tag.IDAT
      /\ TypeAt(file, q) = Tag.tEXt /\ TypeAt(file, r) = Tag.IEND
      /\ DataAt(file, q) = t
      /\ Chunk(file, 8) = a /\ Chunk(file, 33) = b /\ Chunk(file, q) = x /\ Chunk(file, r) = e
  <2> DEFINE stamped == Opening(h, d) \o PngChunk(Tag.tEXt, t) \o Ending
             found == WalkFrom(stamped, 8)
  <2> HIDE DEF t
  <2>1. /\ stamped \in Seq(Nat) /\ Len(stamped) = r + 12
        /\ Stands(Opening(h, d), stamped, 0)
        /\ found = <<8, 33, q, r>>
        /\ ChunkIsWhole(stamped, 8) /\ ChunkIsWhole(stamped, 33)
        /\ ChunkIsWhole(stamped, q) /\ ChunkIsWhole(stamped, r)
        /\ TypeAt(stamped, 8) = Tag.IHDR /\ TypeAt(stamped, 33) = Tag.IDAT
        /\ TypeAt(stamped, q) = Tag.tEXt /\ TypeAt(stamped, r) = Tag.IEND
        /\ DataAt(stamped, q) = t
        /\ Chunk(stamped, 8) = a /\ Chunk(stamped, 33) = b /\ Chunk(stamped, q) = x /\ Chunk(stamped, r) = e
    <3>1. IsStamped(h, d, t)
      BY <1>2, StampedIs
    <3> QED
      BY <3>1 DEF IsStamped
  <2>2. file = stamped
    BY <1>3
  <2> HIDE DEF stamped, q, r, a, b, x, e
  <2> QED
    BY <2>1, <2>2
<1>5. b.data = d /\ x.type = Tag.tEXt
  OBVIOUS
<1>6. PayloadAt(file, q, Keyword) = {Latin1(text)}
  BY <1>1, <1>4, PayloadReads
<1> HIDE DEF q, r, t, a, b, x, e
<1>7. /\ DOMAIN walk = 1 .. 4 /\ Len(walk) = 4
      /\ walk[1] = 8 /\ walk[2] = 33 /\ walk[3] = q /\ walk[4] = r
  <2> HIDE DEF walk
  <2> QED
    BY <1>4
<1>8. ReadPngTextChunk(file, Keyword)
         = IF hits = {} THEN Failed
           ELSE CHOOSE found \in PayloadAt(file, walk[Min(hits)], Keyword) : TRUE
  BY DEF ReadPngTextChunk
<1>9. ChunksOf(file) = [k \in DOMAIN walk |-> Chunk(file, walk[k])]
  BY DEF ChunksOf
<1> HIDE DEF walk
<1>10. \A i \in 1 .. 4 : i = 1 \/ i = 2 \/ i = 3 \/ i = 4
  OBVIOUS
<1>11. \A k \in DOMAIN walk : ChunkIsWhole(file, walk[k])
  BY <1>4, <1>7, <1>10
<1>12. walk[Len(walk)] + 12 = Len(file)
  BY <1>4, <1>7
<1>13. hits = {3}
  <2>1. /\ PayloadAt(file, 8, Keyword) = {} /\ PayloadAt(file, 33, Keyword) = {}
        /\ PayloadAt(file, r, Keyword) = {}
    <3>1. Tag.IEND # Tag.tEXt
      BY DEF Tag
    <3> QED
      BY <1>4, <3>1, Tags, OtherChunks
  <2>2. PayloadAt(file, q, Keyword) # {}
    BY <1>6
  <2>3. 3 \in 1 .. 4
    OBVIOUS
  <2> QED
    BY <1>7, <1>10, <2>1, <2>2, <2>3
<1>14. ReadPngTextChunk(file, Keyword) = Latin1(text)
  <2>1. {3} \in SUBSET Nat /\ {3} # {}
    OBVIOUS
  <2>2. Min({3}) = 3
    <3>1. Min({3}) \in {3}
      BY <2>1, Least
    <3> QED
      BY <3>1
  <2>3. ReadPngTextChunk(file, Keyword) = CHOOSE found \in {Latin1(text)} : TRUE
    <3>1. hits # {}
      BY <1>13
    <3>2. PayloadAt(file, walk[Min(hits)], Keyword) = {Latin1(text)}
      BY <1>6, <1>7, <1>13, <2>2
    <3> HIDE DEF hits
    <3> QED
      BY <1>8, <3>1, <3>2
  <2> QED
    BY <2>3
<1> DEFINE c == [k \in 1 .. 4 |-> Chunk(file, walk[k])]
           S == {a, b, x, e}
           u == <<a, b, e>>
<1>15. ChunksOf(file) = c
  BY <1>7, <1>9
<1>16. c[1] = a /\ c[2] = b /\ c[3] = x /\ c[4] = e /\ DOMAIN c = 1 .. 4
  BY <1>4, <1>7
<1>17. c \in [1 .. 4 -> S]
  <2>1. \A k \in 1 .. 4 : Chunk(file, walk[k]) \in S
    BY <1>4, <1>7, <1>10
  <2> HIDE DEF S
  <2> QED
    BY <2>1
<1>18. u \in Seq(S) /\ Len(u) = 3 /\ u[1] = a /\ u[2] = b /\ u[3] = e
  OBVIOUS
<1> HIDE DEF c, S, u
<1>19. c \in Seq(S) /\ Len(c) = 4
  BY <1>17, Tabled
<1>20. RemoveAt(c, 3) = u
  BY <1>16, <1>18, <1>19, ThirdRemoved
<1>21. /\ DOMAIN ChunksOf(file) = 1 .. 4 /\ ChunksOf(file)[3].type = Tag.tEXt
       /\ RemoveAt(ChunksOf(file), 3) = <<a, b, e>>
  BY <1>5, <1>15, <1>16, <1>20 DEF u
<1>22. walk[2] = 33 /\ Chunk(file, 33).data = d
  BY <1>4, <1>5, <1>7
<1> QED
  BY <1>4, <1>11, <1>12, <1>14, <1>21, <1>22 DEF file, walk, a, b, e

(* The image of a call that stamps one. *)
ComesBack(m, scale, text, png, stamped) ==
    LET walk == WalkFrom(stamped, 8)
        chunks == ChunksOf(stamped)
        width == Uint32At(stamped, 16)
        height == Uint32At(stamped, 20)
    IN /\ \A k \in DOMAIN walk : ChunkIsWhole(stamped, walk[k])
       /\ walk[Len(walk)] + 12 = Len(stamped)
       /\ ReadPngTextChunk(stamped, Keyword) = Latin1(text)
       /\ ReadPngTextChunk(png, Keyword) = Failed
       /\ \E k \in DOMAIN chunks : chunks[k].type = Tag.tEXt /\ RemoveAt(chunks, k) = ChunksOf(png)
       /\ width = m.bits * Max({scale, 1}) /\ height = width
       /\ Len(Pixels(stamped)) = height * (1 + 3 * width)
       /\ Unfiltered(Pixels(stamped), 1 + 3 * width) = MatrixToPpm(m, scale)

(* Whatever the image, the scale and the text, all of it comes back. *)
LEMMA StampComesBack ==
    ASSUME NEW m \in Images, NEW scale \in 0 .. 2, NEW text \in Texts
    PROVE  ComesBack(m, scale, text, MatrixToPng(m, scale),
                     EmbedPngMetadata(MatrixToPng(m, scale), text))
<1> DEFINE s == Max({scale, 1})
           side == m.bits * s
           d == ImageData(m, s)
           h == Header(side)
           png == MatrixToPng(m, scale)
           file == EmbedPngMetadata(png, text)
           walk == WalkFrom(file, 8)
           raw == Filtered(m, s)
<1>1. IsImage(m, scale, s, side, d)
  BY ImageIs
<1> HIDE DEF s, side, d, h
<1>2. /\ IsMatrix(m) /\ s \in Positive /\ side = m.bits * s /\ side \in Nat /\ FitsInU32(side)
      /\ AreParts(h, d)
      /\ d = ZlibStored(raw)
      /\ png = Opening(h, d) \o Ending
      /\ MatrixToPpm(m, scale) = FlattenSeq([y \in 1 .. side |-> Scanline(m, y, s)])
  BY <1>1 DEF IsImage, h
<1> HIDE DEF png, raw
<1>3. file = Opening(h, d) \o TextChunk(Keyword, text) \o Ending
  BY <1>2, EmbedIs
<1> HIDE DEF file
<1>4. /\ file \in Seq(Nat)
      /\ Stands(Opening(h, d), file, 0)
      /\ \A k \in DOMAIN walk : ChunkIsWhole(file, walk[k])
      /\ walk[Len(walk)] + 12 = Len(file)
      /\ walk[2] = 33 /\ Chunk(file, 33).data = d
      /\ ReadPngTextChunk(file, Keyword) = Latin1(text)
      /\ DOMAIN ChunksOf(file) = 1 .. 4
      /\ ChunksOf(file)[3].type = Tag.tEXt
      /\ RemoveAt(ChunksOf(file), 3)
           = <<[type |-> Tag.IHDR, data |-> h], [type |-> Tag.IDAT, data |-> d],
               [type |-> Tag.IEND, data |-> <<>>]>>
  BY <1>2, <1>3, StampedChunks
<1>5. /\ ReadPngTextChunk(png, Keyword) = Failed
      /\ ChunksOf(png) = <<[type |-> Tag.IHDR, data |-> h], [type |-> Tag.IDAT, data |-> d],
                           [type |-> Tag.IEND, data |-> <<>>]>>
  BY <1>2, PlainChunks
<1>6. \E k \in DOMAIN ChunksOf(file) :
         ChunksOf(file)[k].type = Tag.tEXt /\ RemoveAt(ChunksOf(file), k) = ChunksOf(png)
  <2>1. 3 \in DOMAIN ChunksOf(file)
    BY <1>4
  <2>2. RemoveAt(ChunksOf(file), 3) = ChunksOf(png)
    BY <1>4, <1>5
  <2> QED
    BY <1>4, <2>1, <2>2
<1>7. Uint32At(file, 16) = side /\ Uint32At(file, 20) = side
  <2>1. Stands(PngChunk(Tag.IHDR, h), file, 8)
    BY <1>2, <1>4, FrontIs
  <2>2. Uint32At(file, 8 + 8) = side /\ Uint32At(file, 8 + 12) = side
    BY <1>2, <1>4, <2>1, HeaderReads DEF h
  <2>3. 8 + 8 = 16 /\ 8 + 12 = 20
    OBVIOUS
  <2> QED
    BY <2>2, <2>3
<1>8. /\ raw \in Seq(Nat)
      /\ Len(raw) = side * (1 + 3 * side)
      /\ Unfiltered(raw, 1 + 3 * side) = FlattenSeq([y \in 1 .. side |-> Scanline(m, y, s)])
  BY <1>2, RowsComeBack DEF raw
<1>9. Pixels(file) = raw
  <2>1. Pixels(file) = InflatedFrom(SubSeq(Chunk(file, walk[2]).data, 3,
                                           Len(Chunk(file, walk[2]).data) - 4), 0)
    BY DEF Pixels
  <2>2. Chunk(file, walk[2]).data = d
    BY <1>4
  <2>3. InflatedFrom(SubSeq(d, 3, Len(d) - 4), 0) = raw
    BY <1>2, <1>8, ZlibComesBack
  <2> QED
    BY <2>1, <2>2, <2>3
<1>10. side = m.bits * Max({scale, 1})
  BY <1>2 DEF s
<1>11. Unfiltered(Pixels(file), 1 + 3 * side) = MatrixToPpm(m, scale)
  BY <1>2, <1>8, <1>9
<1>12. Len(Pixels(file)) = side * (1 + 3 * side)
  BY <1>8, <1>9
<1>13. ComesBack(m, scale, text, png, file)
  BY <1>4, <1>5, <1>6, <1>7, <1>10, <1>11, <1>12 DEF ComesBack
<1> QED
  BY <1>13 DEF png, file

(* A call answered by the programs that handle PNG files. *)
PngAnswered ==
    \/ call = None
    \/ \E bytes \in ByteStrings :
          call = [op |-> "checksum", rust |-> Crc32Bitwise(bytes), page |-> Crc32ByTable(bytes),
                  adler |-> Adler32(bytes), bytes |-> bytes]
    \/ \E m \in Images, scale \in 0 .. 2, text \in Texts :
          call = [op |-> "png", image |-> m, scale |-> scale, text |-> text,
                  png |-> MatrixToPng(m, scale),
                  stamped |-> EmbedPngMetadata(MatrixToPng(m, scale), text)]

(* The invariant of the calls implies the property. *)
LEMMA PngAnswersAreTrue == PngAnswered => PngRoundTrip
<1>1. CASE call = None
  BY <1>1 DEF PngRoundTrip, None
<1>2. ASSUME NEW bytes \in ByteStrings,
             call = [op |-> "checksum", rust |-> Crc32Bitwise(bytes), page |-> Crc32ByTable(bytes),
                     adler |-> Adler32(bytes), bytes |-> bytes]
      PROVE  PngRoundTrip
  <2>1. call.op = "checksum" /\ call.rust = Crc32Bitwise(bytes) /\ call.page = Crc32ByTable(bytes)
    BY <1>2
  <2>2. Crc32Bitwise(bytes) = Crc32ByTable(bytes)
    <3>1. bytes \in Seq(0 .. 255)
      BY PngAssumption
    <3>2. Len(bytes) \in Nat
      BY <3>1, LenProperties
    <3> QED
      BY <3>2, CrcsAgree
  <2> QED
    BY <2>1, <2>2 DEF PngRoundTrip
<1>3. ASSUME NEW m \in Images, NEW scale \in 0 .. 2, NEW text \in Texts,
             call = [op |-> "png", image |-> m, scale |-> scale, text |-> text,
                     png |-> MatrixToPng(m, scale),
                     stamped |-> EmbedPngMetadata(MatrixToPng(m, scale), text)]
      PROVE  PngRoundTrip
  <2> DEFINE png == MatrixToPng(m, scale)
             file == EmbedPngMetadata(png, text)
  <2>1. ComesBack(m, scale, text, png, file)
    BY StampComesBack
  <2> HIDE DEF png, file
  <2>2. /\ call.op = "png" /\ call.image = m /\ call.scale = scale /\ call.text = text
        /\ call.png = png /\ call.stamped = file
    BY <1>3 DEF png, file
  <2>3. ComesBack(call.image, call.scale, call.text, call.png, call.stamped)
    BY <2>1, <2>2
  <2>4. call.op # "checksum"
    BY <2>2
  <2> QED
    BY <2>3, <2>4 DEF PngRoundTrip, ComesBack
<1> QED
  BY <1>1, <1>2, <1>3 DEF PngAnswered

(* A report's image stamped by the Export Center decodes, chunk by chunk   *)
(* and pixel by pixel, to what was written, and both programs compute the  *)
(* same CRC, whatever the image, the text and the size of a stored block.  *)
THEOREM PngComesBack == PngSpec => []PngRoundTrip
<1>1. PngInit => PngAnswered
  BY DEF PngInit, PngAnswered
<1>2. PngAnswered /\ [PngNext]_call => PngAnswered'
  <2> SUFFICES ASSUME PngAnswered, [PngNext]_call
               PROVE  PngAnswered'
    OBVIOUS
  <2>1. ASSUME NEW bytes \in ByteStrings, Checks(bytes)
        PROVE  PngAnswered'
    BY <2>1 DEF Checks, PngAnswered
  <2>2. ASSUME NEW m \in Images, NEW scale \in 0 .. 2, NEW text \in Texts, Stamps(m, scale, text)
        PROVE  PngAnswered'
    BY <2>2 DEF Stamps, PngAnswered
  <2>3. CASE UNCHANGED call
    BY <2>3 DEF PngAnswered
  <2> QED
    BY <2>1, <2>2, <2>3 DEF PngNext
<1> QED
  BY <1>1, <1>2, PngAnswersAreTrue, PTL DEF PngSpec

-----------------------------------------------------------------------------
(* The Comparison Lab. *)
USE LabAssumption

Canonical == {InitialOf[input] : input \in Inputs}
Entries == [start : Canonical, colour : 0 .. Colours - 1]

TypeOK ==
    /\ entries \in Seq(Entries)
    /\ runs \in Nat
    /\ pending \subseteq [id : Nat, input : Inputs, seen : Seq(Entries)]
    /\ busy \in BOOLEAN /\ error \in BOOLEAN
    /\ shown \subseteq Canonical

NoneTwice(list) == \A i, j \in DOMAIN list : list[i].start = list[j].start => i = j

IInv == TypeOK /\ ListIsWhatCameBack

(* A list that gets one more entry. *)
LEMMA OneMore ==
    ASSUME NEW list \in Seq(Entries), NEW entry \in Entries
    PROVE  /\ Append(list, entry) \in Seq(Entries)
           /\ StartsOf(Append(list, entry)) = StartsOf(list) \cup {entry.start}
           /\ NoneTwice(list) /\ entry.start \notin StartsOf(list) => NoneTwice(Append(list, entry))
<1> DEFINE longer == Append(list, entry)
           n == Len(list)
<1>1. /\ longer \in Seq(Entries) /\ Len(longer) = n + 1 /\ n \in Nat
      /\ \A i \in 1 .. n : longer[i] = list[i]
      /\ longer[n + 1] = entry
  BY AppendProperties, LenProperties
<1>2. DOMAIN longer = 1 .. n + 1 /\ DOMAIN list = 1 .. n
  BY <1>1, LenProperties
<1>3. 1 .. n + 1 = (1 .. n) \cup {n + 1} /\ n + 1 \notin 1 .. n
  BY <1>1
<1> HIDE DEF longer, n
<1>4. StartsOf(longer) = StartsOf(list) \cup {entry.start}
  <2>1. \A i \in DOMAIN longer : longer[i].start \in StartsOf(list) \cup {entry.start}
    BY <1>1, <1>2, <1>3 DEF StartsOf
  <2>2. \A i \in DOMAIN list : list[i].start \in StartsOf(longer)
    BY <1>1, <1>2, <1>3 DEF StartsOf
  <2>3. entry.start \in StartsOf(longer)
    BY <1>1, <1>2, <1>3 DEF StartsOf
  <2> QED
    BY <2>1, <2>2, <2>3 DEF StartsOf
<1>5. ASSUME NoneTwice(list), entry.start \notin StartsOf(list)
      PROVE  NoneTwice(longer)
  <2>1. \A i \in 1 .. n : longer[i].start \in StartsOf(list)
    BY <1>1, <1>2 DEF StartsOf
  <2> QED
    BY <1>1, <1>2, <1>3, <1>5, <2>1 DEF NoneTwice
<1> QED
  BY <1>1, <1>4, <1>5 DEF longer

(* Joining keeps every initial state and lists none twice. *)
LEMMA ListedOnce ==
    ASSUME NEW list \in Seq(Entries), NEW run, run.input \in Inputs, NoneTwice(list)
    PROVE  /\ Listed(run, list) \in Seq(Entries)
           /\ NoneTwice(Listed(run, list))
           /\ StartsOf(Listed(run, list)) = StartsOf(list) \cup {InitialOf[run.input]}
<1> DEFINE start == InitialOf[run.input]
           entry == Entry(start, Len(list) % Colours)
<1>1. CASE start \in StartsOf(list)
  BY <1>1 DEF Listed
<1>2. CASE start \notin StartsOf(list)
  <2>1. Len(list) \in Nat /\ Len(list) % Colours \in 0 .. Colours - 1
    BY LenProperties
  <2>2. entry \in Entries /\ entry.start = start
    BY <2>1 DEF Entry, Entries, Canonical
  <2>3. Listed(run, list) = Append(list, entry)
    BY <1>2 DEF Listed
  <2> HIDE DEF entry
  <2> QED
    BY <1>2, <2>2, <2>3, OneMore
<1> QED
  BY <1>1, <1>2

(* A filter takes away the entries of one initial state and no other. *)
LEMMA FilteredList ==
    ASSUME NEW start, NEW list \in Seq(Entries), NoneTwice(list)
    PROVE  /\ Without(start, list) \in Seq(Entries)
           /\ NoneTwice(Without(start, list))
           /\ StartsOf(Without(start, list)) = StartsOf(list) \ {start}
<1> DEFINE N == Len(list)
           Kept(f) == f = [n \in 0 .. N |->
                             IF n = 0 THEN <<>>
                             ELSE IF list[n].start = start THEN f[n - 1] ELSE Append(f[n - 1], list[n])]
           kept == CHOOSE f : Kept(f)
<1>1. N \in Nat /\ DOMAIN list = 1 .. N /\ \A n \in 1 .. N : list[n] \in Entries
  BY LenProperties, ElementOfSeq
<1>2. Without(start, list) = kept[N]
  BY DEF Without
<1> HIDE DEF N
<1>3. \E f : Kept(f)
  <2> DEFINE step == [n \in Nat |-> [t \in Seq(Entries) |->
                        IF n \in 1 .. N /\ list[n].start # start THEN Append(t, list[n]) ELSE t]]
  <2>1. step \in [Nat -> [Seq(Entries) -> Seq(Entries)]]
    BY <1>1, AppendProperties
  <2>2. <<>> \in Seq(Entries)
    OBVIOUS
  <2>3. PICK f \in [0 .. N -> Seq(Entries)] : Chain(f, <<>>, step, N)
    <3> HIDE DEF step, Kept
    <3> QED
      BY <1>1, <2>1, <2>2, ChainExists
  <2>4. ASSUME NEW n \in 1 .. N
        PROVE  f[n] = IF list[n].start = start THEN f[n - 1] ELSE Append(f[n - 1], list[n])
    <3>1. n \in Nat /\ n - 1 \in 0 .. N
      BY <1>1
    <3>4. f[n - 1] \in Seq(Entries)
      BY <3>1
    <3>2. f[n] = step[n][f[n - 1]]
      BY <2>3 DEF Chain
    <3>3. step[n][f[n - 1]] = IF list[n].start # start THEN Append(f[n - 1], list[n]) ELSE f[n - 1]
      BY <3>1, <3>4
    <3> HIDE DEF step
    <3> QED
      BY <3>2, <3>3
  <2>5. Kept(f)
    <3>1. \A n \in 0 .. N : n = 0 \/ n \in 1 .. N
      BY <1>1
    <3> QED
      BY <2>3, <2>4, <3>1 DEF Chain
  <2> QED
    BY <2>5
<1>4. Kept(kept)
  BY <1>3
<1> HIDE DEF kept
<1>5. kept[0] = <<>>
  BY <1>1, <1>4
<1>6. ASSUME NEW n \in 1 .. N
      PROVE  kept[n] = IF list[n].start = start THEN kept[n - 1] ELSE Append(kept[n - 1], list[n])
  <2>1. n \in 0 .. N /\ n # 0
    BY <1>1
  <2> QED
    BY <1>4, <2>1
<1> HIDE DEF Kept
<1> DEFINE Ahead(n) == {list[i].start : i \in 1 .. n}
           Good(n) == /\ kept[n] \in Seq(Entries)
                      /\ NoneTwice(kept[n])
                      /\ StartsOf(kept[n]) = Ahead(n) \ {start}
           T == {n \in Nat : n <= N => Good(n)}
<1>7. 0 \in T
  <2>1. StartsOf(<<>>) = {} /\ NoneTwice(<<>>) /\ <<>> \in Seq(Entries)
    BY DEF StartsOf, NoneTwice
  <2>2. Ahead(0) = {}
    OBVIOUS
  <2> QED
    BY <1>5, <2>1, <2>2
<1>8. ASSUME NEW n \in Nat, n \in T
      PROVE  n + 1 \in T
  <2>1. SUFFICES ASSUME n + 1 <= N PROVE Good(n + 1)
    OBVIOUS
  <2>2. n + 1 \in 1 .. N /\ n <= N /\ (n + 1) - 1 = n
    BY <1>1, <2>1
  <2>3. Good(n)
    BY <1>8, <2>2
  <2>4. list[n + 1] \in Entries
    BY <1>1, <2>2
  <2>5. Ahead(n + 1) = Ahead(n) \cup {list[n + 1].start}
    <3>1. 1 .. n + 1 = (1 .. n) \cup {n + 1}
      OBVIOUS
    <3> QED
      BY <3>1
  <2>6. list[n + 1].start \notin Ahead(n)
    <3>1. \A i \in 1 .. n : i \in 1 .. N /\ i # n + 1
      BY <1>1, <2>2
    <3> QED
      BY <1>1, <2>2, <3>1 DEF NoneTwice
  <2> HIDE DEF Ahead
  <2>7. CASE list[n + 1].start = start
    <3>1. kept[n + 1] = kept[n]
      BY <1>6, <2>2, <2>7
    <3> QED
      BY <2>3, <2>5, <2>6, <2>7, <3>1
  <2>8. CASE list[n + 1].start # start
    <3>1. kept[n + 1] = Append(kept[n], list[n + 1])
      BY <1>6, <2>2, <2>8
    <3>2. list[n + 1].start \notin StartsOf(kept[n])
      BY <2>3, <2>6
    <3>3. /\ kept[n + 1] \in Seq(Entries)
          /\ StartsOf(kept[n + 1]) = StartsOf(kept[n]) \cup {list[n + 1].start}
          /\ NoneTwice(kept[n + 1])
      BY <2>3, <2>4, <3>1, <3>2, OneMore
    <3> QED
      BY <2>3, <2>5, <2>8, <3>3
  <2> QED
    BY <2>7, <2>8
<1>9. Nat \subseteq T
  <2> HIDE DEF T
  <2> QED
    BY <1>7, <1>8, Induction
<1>10. Good(N)
  <2> HIDE DEF Good
  <2>1. N \in T /\ N <= N
    BY <1>1, <1>9
  <2> QED
    BY <2>1
<1>11. Ahead(N) = StartsOf(list)
  BY <1>1 DEF StartsOf, N
<1> HIDE DEF Ahead
<1> QED
  BY <1>2, <1>10, <1>11

-----------------------------------------------------------------------------
LEMMA InitInv == Init => IInv
<1> SUFFICES ASSUME Init PROVE IInv
  OBVIOUS
<1>1. StartsOf(<<>>) = {} /\ <<>> \in Seq(Entries) /\ DOMAIN <<>> = {}
  BY DEF StartsOf
<1>2. TypeOK
  BY <1>1 DEF Init, TypeOK
<1>3. ListIsWhatCameBack
  BY <1>1 DEF Init, ListIsWhatCameBack
<1> QED
  BY <1>2, <1>3 DEF IInv

LEMMA NextInv == IInv /\ [Next]_vars => IInv'
<1> SUFFICES ASSUME IInv, [Next]_vars
             PROVE  IInv'
  OBVIOUS
<1>1. /\ entries \in Seq(Entries) /\ NoneTwice(entries) /\ StartsOf(entries) = shown
      /\ runs \in Nat /\ busy \in BOOLEAN /\ error \in BOOLEAN /\ shown \subseteq Canonical
      /\ pending \subseteq [id : Nat, input : Inputs, seen : Seq(Entries)]
  BY DEF IInv, TypeOK, ListIsWhatCameBack, NoneTwice
<1>2. /\ entries' \in Seq(Entries) /\ NoneTwice(entries') /\ StartsOf(entries') = shown'
      /\ runs' \in Nat /\ busy' \in BOOLEAN /\ error' \in BOOLEAN /\ shown' \subseteq Canonical
      /\ pending' \subseteq [id : Nat, input : Inputs, seen : Seq(Entries)]
  <2>1. ASSUME NEW key \in {"button", "enter"}, NEW input \in Inputs \cup {Blank}, AddRun(key, input)
        PROVE  <1>2!:
    <3>1. Run(runs + 1, input) \in [id : Nat, input : Inputs, seen : Seq(Entries)]
      BY <1>1, <2>1 DEF AddRun, Run
    <3>2. entries' = entries /\ shown' = shown
      BY <2>1 DEF AddRun
    <3>3. /\ runs' \in Nat /\ busy' \in BOOLEAN /\ error' \in BOOLEAN
          /\ pending' \subseteq [id : Nat, input : Inputs, seen : Seq(Entries)]
      <4>1. runs' = runs + 1 /\ busy' = TRUE /\ error' = FALSE
            /\ pending' = pending \cup {Run(runs + 1, input)}
        BY <2>1 DEF AddRun
      <4>2. runs' \in Nat
        BY <1>1, <4>1
      <4>3. pending' \subseteq [id : Nat, input : Inputs, seen : Seq(Entries)]
        BY <1>1, <3>1, <4>1
      <4> QED
        BY <4>1, <4>2, <4>3
    <3> QED
      BY <1>1, <3>2, <3>3
  <2>2. ASSUME NEW run \in pending, Reply(run)
        PROVE  <1>2!:
    <3>1. run.input \in Inputs /\ InitialOf[run.input] \in Canonical
      BY <1>1 DEF Canonical
    <3>2. /\ Listed(run, entries) \in Seq(Entries)
          /\ NoneTwice(Listed(run, entries))
          /\ StartsOf(Listed(run, entries)) = StartsOf(entries) \cup {InitialOf[run.input]}
      BY <1>1, <3>1, ListedOnce
    <3> QED
      BY <1>1, <2>2, <3>1, <3>2 DEF Reply, Settle
  <2>3. ASSUME NEW run \in pending, Fail(run)
        PROVE  <1>2!:
    BY <1>1, <2>3 DEF Fail, Settle
  <2>4. ASSUME NEW start \in StartsOf(entries), RemoveEntry(start)
        PROVE  <1>2!:
    <3>1. /\ Without(start, entries) \in Seq(Entries)
          /\ NoneTwice(Without(start, entries))
          /\ StartsOf(Without(start, entries)) = StartsOf(entries) \ {start}
      BY <1>1, FilteredList
    <3> QED
      BY <1>1, <2>4, <3>1 DEF RemoveEntry
  <2>5. CASE UNCHANGED vars
    BY <1>1, <2>5 DEF vars
  <2> QED
    BY <2>1, <2>2, <2>3, <2>4, <2>5 DEF Next
<1> QED
  BY <1>2 DEF IInv, TypeOK, ListIsWhatCameBack, NoneTwice

(* Every list is a list of entries with canonical initial states and the   *)
(* palette's colours, and a run that is away remembers such a list.        *)
THEOREM TypeCorrect == Spec => []TypeOK
<1>1. IInv => TypeOK
  BY DEF IInv
<1> QED
  BY InitInv, NextInv, <1>1, PTL DEF Spec

(* However replies and removals cross each other, what is listed is what   *)
(* came back and was not removed since, each initial state once.           *)
THEOREM ListIsTrue == Spec => []ListIsWhatCameBack
<1>1. IInv => ListIsWhatCameBack
  BY DEF IInv
<1> QED
  BY InitInv, NextInv, <1>1, PTL DEF Spec
=============================================================================
