------------------------ MODULE ResearchSessionProofs ------------------------
(***************************************************************************)
(* Proofs about the research session, for any number of overlapping runs,  *)
(* ranges of any length and every order of replies, failures and resets.   *)
(*                                                                         *)
(* They assume that nobody types the largest exact number: a range that    *)
(* ends there repeats its last run for ever (BulkIsBounded is refuted).    *)
(***************************************************************************)
EXTENDS ResearchSession, SequenceTheorems, TLAPS

AllResults == [by : Nat, system : SystemIds, state : Nat]
Ranges == [by : Nat, to : Nat, state : Nat, system : SystemIds, yielding : BOOLEAN,
           batch : Seq(AllResults)]

Typed ==
    /\ selected \in SystemIds /\ controller \in SystemIds
    /\ starts \in Nat
    /\ pending \in SUBSET AllResults
    /\ loaded \in Seq(AllResults) /\ overlay \in Seq(AllResults)
    /\ dropped \in SUBSET AllResults
    /\ range \in Ranges \cup {None}

(* What was loaded is drawn, in a batch, or dropped, each result once. *)
Whole(l, o, b, d) ==
    /\ IsInjective(l) /\ IsInjective(o) /\ IsInjective(b)
    /\ ToSet(o) \cap ToSet(b) = {}
    /\ (ToSet(o) \cup ToSet(b)) \cap d = {}
    /\ ToSet(l) = ToSet(o) \cup ToSet(b) \cup d

(* Results of one range are neighbours, in the order of their states. *)
Blocks(o) ==
    \A i, j \in DOMAIN o : i < j /\ o[i].by = o[j].by => o[j].state - o[i].state = j - i

(* A batch holds the runs of a range up to the one that comes next. *)
RunUpTo(b, by, next) ==
    \A k \in DOMAIN b : b[k].by = by /\ b[k].state = next - 1 - Len(b) + k

(* Who may still load a result has a number no result bears. *)
Numbered ==
    /\ \A r \in pending \cup ToSet(loaded) : r.by <= starts
    /\ \A r \in pending : \A q \in ToSet(loaded) : r.by # q.by
    /\ \A r, q \in pending : r.by = q.by => r = q

NextOf(g) == IF g.yielding THEN g.state + 1 ELSE g.state

RangeOK ==
    range # None =>
        /\ range.by <= starts
        /\ range.state <= range.to /\ range.to < LargestExact
        /\ RunUpTo(range.batch, range.by, NextOf(range))
        /\ \A q \in ToSet(loaded) : q.by = range.by => q \in ToSet(range.batch)
        /\ \A r \in pending : r.by # range.by

IInv ==
    /\ Typed
    /\ Whole(loaded, overlay, Batch, dropped)
    /\ Blocks(overlay)
    /\ Numbered
    /\ RangeOK

-----------------------------------------------------------------------------
LEMMA SeqFacts ==
    ASSUME NEW S, NEW s \in Seq(S)
    PROVE  /\ Len(s) \in Nat /\ DOMAIN s = 1 .. Len(s) /\ \A i \in DOMAIN s : s[i] \in S
           /\ ToSet(s) \subseteq S
  BY LenProperties DEF ToSet

LEMMA EmptySequence ==
    /\ ToSet(<<>>) = {} /\ IsInjective(<<>>) /\ DOMAIN <<>> = {} /\ Len(<<>>) = 0
    /\ \A S : <<>> \in Seq(S)
  BY DEF ToSet, IsInjective

LEMMA Joined ==
    ASSUME NEW S, NEW s \in Seq(S), NEW t \in Seq(S)
    PROVE  /\ s \o t \in Seq(S)
           /\ DOMAIN (s \o t) = 1 .. Len(s) + Len(t)
           /\ \A i \in 1 .. Len(s) : (s \o t)[i] = s[i]
           /\ \A i \in 1 .. Len(t) : (s \o t)[Len(s) + i] = t[i]
           /\ ToSet(s \o t) = ToSet(s) \cup ToSet(t)
           /\ IsInjective(s \o t) <=>
                /\ IsInjective(s) /\ IsInjective(t) /\ ToSet(s) \cap ToSet(t) = {}
  <1> DEFINE u == s \o t
             m == Len(s)
             n == Len(t)
  <1>1. /\ m \in Nat /\ n \in Nat /\ DOMAIN s = 1 .. m /\ DOMAIN t = 1 .. n
        /\ u \in Seq(S) /\ Len(u) = m + n /\ DOMAIN u = 1 .. m + n
        /\ \A i \in 1 .. m + n : u[i] = IF i <= m THEN s[i] ELSE t[i - m]
    BY LenProperties, ConcatProperties
  <1> HIDE DEF u, m, n
  <1>2. (\A i \in 1 .. m : u[i] = s[i]) /\ (\A i \in 1 .. n : u[m + i] = t[i])
    <2>1. \A i \in 1 .. m : i \in 1 .. m + n /\ i <= m
      BY <1>1
    <2>2. \A i \in 1 .. n : m + i \in 1 .. m + n /\ ~(m + i <= m) /\ (m + i) - m = i
      BY <1>1
    <2>3. QED
      BY <1>1, <2>1, <2>2
  <1>3. \A i \in 1 .. m + n : i \in 1 .. m \/ \E k \in 1 .. n : i = m + k
    <2>1. SUFFICES ASSUME NEW i \in 1 .. m + n, i \notin 1 .. m PROVE \E k \in 1 .. n : i = m + k
      OBVIOUS
    <2>2. i - m \in 1 .. n /\ i = m + (i - m)
      BY <1>1, <2>1
    <2>3. QED
      BY <2>2
  <1>4. ToSet(u) = ToSet(s) \cup ToSet(t)
    <2>1. ToSet(u) \subseteq ToSet(s) \cup ToSet(t)
      <3>1. SUFFICES ASSUME NEW i \in 1 .. m + n PROVE u[i] \in ToSet(s) \cup ToSet(t)
        BY <1>1 DEF ToSet
      <3>2. CASE i \in 1 .. m
        BY <1>1, <1>2, <3>2 DEF ToSet
      <3>3. CASE \E k \in 1 .. n : i = m + k
        BY <1>1, <1>2, <3>3 DEF ToSet
      <3>4. QED
        BY <1>3, <3>2, <3>3
    <2>2. ToSet(s) \subseteq ToSet(u)
      <3>1. \A i \in 1 .. m : i \in 1 .. m + n
        BY <1>1
      <3>2. QED
        BY <1>1, <1>2, <3>1 DEF ToSet
    <2>3. ToSet(t) \subseteq ToSet(u)
      <3>1. SUFFICES ASSUME NEW i \in 1 .. n PROVE t[i] \in ToSet(u)
        BY <1>1 DEF ToSet
      <3>2. m + i \in 1 .. m + n
        BY <1>1
      <3>3. u[m + i] \in ToSet(u)
        BY <1>1, <3>2 DEF ToSet
      <3>4. QED
        BY <1>2, <3>3
    <2>4. QED
      BY <2>1, <2>2, <2>3
  <1>5. ASSUME IsInjective(s), IsInjective(t), ToSet(s) \cap ToSet(t) = {} PROVE IsInjective(u)
    <2>1. SUFFICES ASSUME NEW i \in 1 .. m + n, NEW j \in 1 .. m + n, u[i] = u[j] PROVE i = j
      BY <1>1 DEF IsInjective
    <2>2. CASE i \in 1 .. m /\ j \in 1 .. m
      BY <1>1, <1>2, <1>5, <2>1, <2>2 DEF IsInjective
    <2>3. CASE i \in 1 .. m /\ \E k \in 1 .. n : j = m + k
      BY <1>1, <1>2, <1>5, <2>1, <2>3 DEF ToSet
    <2>4. CASE j \in 1 .. m /\ \E k \in 1 .. n : i = m + k
      BY <1>1, <1>2, <1>5, <2>1, <2>4, ZenonT(40) DEF ToSet
    <2>5. CASE (\E k \in 1 .. n : i = m + k) /\ (\E k \in 1 .. n : j = m + k)
      <3>1. PICK k \in 1 .. n, l \in 1 .. n : i = m + k /\ j = m + l
        BY <2>5
      <3>2. t[k] = t[l]
        BY <1>2, <2>1, <3>1
      <3>3. k = l
        BY <1>1, <1>5, <3>2 DEF IsInjective
      <3>4. QED
        BY <3>1, <3>3
    <2>6. QED
      BY <1>3, <2>1, <2>2, <2>3, <2>4, <2>5
  <1>6. ASSUME IsInjective(u) PROVE IsInjective(s) /\ IsInjective(t) /\ ToSet(s) \cap ToSet(t) = {}
    <2>1. \A i \in 1 .. m : i \in 1 .. m + n
      BY <1>1
    <2>2. \A i \in 1 .. n : m + i \in 1 .. m + n /\ m + i \notin 1 .. m
      BY <1>1
    <2>3. IsInjective(s)
      BY <1>1, <1>2, <1>6, <2>1 DEF IsInjective
    <2>4. IsInjective(t)
      <3>1. SUFFICES ASSUME NEW i \in 1 .. n, NEW j \in 1 .. n, t[i] = t[j] PROVE i = j
        BY <1>1 DEF IsInjective
      <3>2. u[m + i] = u[m + j]
        BY <1>2, <3>1
      <3>3. m + i = m + j
        BY <1>1, <1>6, <2>2, <3>2 DEF IsInjective
      <3>4. QED
        BY <1>1, <3>3
    <2>5. ASSUME NEW i \in 1 .. m, NEW j \in 1 .. n, s[i] = t[j] PROVE FALSE
      <3>1. u[i] = u[m + j]
        BY <1>2, <2>5
      <3>2. i = m + j
        BY <1>1, <1>6, <2>1, <2>2, <3>1 DEF IsInjective
      <3>3. QED
        BY <2>2, <3>2
    <2>6. ToSet(s) \cap ToSet(t) = {}
      BY <1>1, <2>5 DEF ToSet
    <2>7. QED
      BY <2>3, <2>4, <2>6
  <1>7. QED
    BY <1>1, <1>2, <1>4, <1>5, <1>6 DEF u, m, n

LEMMA Singleton ==
    ASSUME NEW S, NEW e \in S
    PROVE  /\ <<e>> \in Seq(S) /\ ToSet(<<e>>) = {e} /\ IsInjective(<<e>>)
           /\ Len(<<e>>) = 1 /\ DOMAIN <<e>> = {1} /\ <<e>>[1] = e
  <1>1. <<e>> \in Seq(S) /\ Len(<<e>>) = 1 /\ DOMAIN <<e>> = {1} /\ <<e>>[1] = e
    OBVIOUS
  <1>2. QED
    BY <1>1 DEF ToSet, IsInjective

LEMMA Appended ==
    ASSUME NEW s \in Seq(AllResults), NEW e \in AllResults, IsInjective(s), e \notin ToSet(s)
    PROVE  /\ Append(s, e) = s \o <<e>>
           /\ ToSet(Append(s, e)) = ToSet(s) \cup {e} /\ IsInjective(Append(s, e))
  <1>1. Append(s, e) = s \o <<e>>
    OBVIOUS
  <1>2. <<e>> \in Seq(AllResults) /\ ToSet(<<e>>) = {e} /\ IsInjective(<<e>>)
    BY Singleton
  <1>3. ToSet(s) \cap ToSet(<<e>>) = {}
    BY <1>2
  <1>4. /\ ToSet(s \o <<e>>) = ToSet(s) \cup ToSet(<<e>>)
        /\ IsInjective(s \o <<e>>)
    BY <1>2, <1>3, Joined
  <1>5. QED
    BY <1>1, <1>2, <1>4

-----------------------------------------------------------------------------
(***************************************************************************)
(* Moves of results between what is loaded, drawn, in a batch and dropped. *)
(***************************************************************************)
LEMMA Shown ==
    ASSUME NEW l \in Seq(AllResults), NEW o \in Seq(AllResults), NEW b \in Seq(AllResults),
           NEW d, Whole(l, o, b, d)
    PROVE  Whole(l, o \o b, <<>>, d)
  BY Joined, EmptySequence DEF Whole

LEMMA LoadedIntoBatch ==
    ASSUME NEW l \in Seq(AllResults), NEW o \in Seq(AllResults), NEW b \in Seq(AllResults),
           NEW d, Whole(l, o, b, d), NEW r \in AllResults, r \notin ToSet(l)
    PROVE  Whole(Append(l, r), o, Append(b, r), d)
  <1>1. /\ IsInjective(l) /\ IsInjective(b) /\ r \notin ToSet(b)
        /\ ToSet(l) = ToSet(o) \cup ToSet(b) \cup d
    BY DEF Whole
  <1>2. ToSet(Append(l, r)) = ToSet(l) \cup {r} /\ IsInjective(Append(l, r))
    BY <1>1, Appended
  <1>3. ToSet(Append(b, r)) = ToSet(b) \cup {r} /\ IsInjective(Append(b, r))
    BY <1>1, Appended
  <1>4. QED
    BY <1>1, <1>2, <1>3 DEF Whole

LEMMA LoadedAndShown ==
    ASSUME NEW l \in Seq(AllResults), NEW o \in Seq(AllResults), NEW b \in Seq(AllResults),
           NEW d, Whole(l, o, b, d), NEW r \in AllResults, r \notin ToSet(l)
    PROVE  Whole(Append(l, r), o \o <<r>>, b, d)
  <1>1. /\ IsInjective(l) /\ IsInjective(o) /\ r \notin ToSet(o)
        /\ ToSet(l) = ToSet(o) \cup ToSet(b) \cup d
    BY DEF Whole
  <1>2. ToSet(Append(l, r)) = ToSet(l) \cup {r} /\ IsInjective(Append(l, r))
    BY <1>1, Appended
  <1>3. ToSet(o \o <<r>>) = ToSet(o) \cup {r} /\ IsInjective(o \o <<r>>)
    BY <1>1, Appended, ZenonT(40)
  <1>4. QED
    BY <1>1, <1>2, <1>3 DEF Whole

LEMMA TakenOff ==
    ASSUME NEW l, NEW o, NEW d, Whole(l, o, <<>>, d)
    PROVE  Whole(l, <<>>, <<>>, d \cup ToSet(o))
  BY EmptySequence DEF Whole

(* A batch is one block, and so is a result that stands alone. *)
LEMMA BlockAdded ==
    ASSUME NEW o \in Seq(AllResults), NEW b \in Seq(AllResults), NEW by, NEW next \in Nat,
           Blocks(o), RunUpTo(b, by, next), \A q \in ToSet(o) : q.by # by
    PROVE  Blocks(o \o b)
  <1> DEFINE u == o \o b
             m == Len(o)
             n == Len(b)
  <1>1. /\ m \in Nat /\ n \in Nat /\ DOMAIN o = 1 .. m /\ DOMAIN b = 1 .. n
        /\ \A i \in 1 .. m : o[i] \in AllResults /\ o[i] \in ToSet(o)
        /\ \A i \in 1 .. n : b[i] \in AllResults
    BY SeqFacts DEF ToSet
  <1>2. /\ DOMAIN u = 1 .. m + n
        /\ \A i \in 1 .. m : u[i] = o[i]
        /\ \A i \in 1 .. n : u[m + i] = b[i]
    BY Joined
  <1> HIDE DEF u, m, n
  <1>3. SUFFICES ASSUME NEW i \in 1 .. m + n, NEW j \in 1 .. m + n, i < j, u[i].by = u[j].by
                 PROVE  u[j].state - u[i].state = j - i
    BY <1>2 DEF Blocks, u
  <1>4. CASE j <= m
    <2>1. i \in 1 .. m /\ j \in 1 .. m
      BY <1>1, <1>3, <1>4
    <2>2. QED
      BY <1>1, <1>2, <1>3, <2>1 DEF Blocks
  <1>5. CASE i <= m /\ ~(j <= m)
    <2>1. i \in 1 .. m /\ j - m \in 1 .. n /\ j = m + (j - m)
      BY <1>1, <1>3, <1>5
    <2>2. u[i].by # by
      BY <1>1, <1>2, <2>1
    <2>3. u[j] = b[j - m]
      BY <1>2, <2>1
    <2>4. u[j].by = by
      BY <1>1, <2>1, <2>3 DEF RunUpTo
    <2>5. QED
      BY <1>3, <2>2, <2>4
  <1>6. CASE ~(i <= m)
    <2>1. /\ i - m \in 1 .. n /\ i = m + (i - m)
          /\ j - m \in 1 .. n /\ j = m + (j - m)
      <3>1. m < i /\ m < j
        BY <1>1, <1>3, <1>6
      <3>2. QED
        BY <1>1, <1>3, <3>1
    <2>2. u[i] = b[i - m] /\ u[j] = b[j - m]
      BY <1>2, <2>1
    <2>3. /\ u[i].state = next - 1 - n + (i - m) /\ u[j].state = next - 1 - n + (j - m)
      BY <1>1, <2>1, <2>2 DEF RunUpTo, n
    <2>4. QED
      BY <1>1, <1>3, <2>3
  <1>7. QED
    BY <1>3, <1>4, <1>5, <1>6

LEMMA RunGrows ==
    ASSUME NEW b \in Seq(AllResults), NEW by, NEW next \in Nat, NEW r \in AllResults,
           RunUpTo(b, by, next), r.by = by, r.state = next
    PROVE  RunUpTo(Append(b, r), by, next + 1) /\ r \notin ToSet(b)
  <1> DEFINE n == Len(b)
             c == Append(b, r)
  <1>1. n \in Nat /\ DOMAIN b = 1 .. n
    BY SeqFacts
  <1>2. /\ Len(c) = n + 1 /\ DOMAIN c = 1 .. n + 1 /\ c[n + 1] = r
        /\ \A k \in 1 .. n : c[k] = b[k]
    BY <1>1
  <1> HIDE DEF n, c
  <1>3. \A k \in 1 .. n : b[k].by = by /\ b[k].state = next - 1 - n + k
    BY <1>1 DEF RunUpTo, n
  <1>4. ASSUME NEW k \in 1 .. n + 1
        PROVE  c[k].by = by /\ c[k].state = (next + 1) - 1 - (n + 1) + k
    <2>1. CASE k = n + 1
      BY <1>1, <1>2, <2>1
    <2>2. CASE k # n + 1
      <3>1. k \in 1 .. n
        BY <1>1, <2>2
      <3>2. b[k].by = by /\ b[k].state = next - 1 - n + k /\ c[k] = b[k]
        BY <1>2, <1>3, <3>1
      <3>3. next - 1 - n + k = (next + 1) - 1 - (n + 1) + k
        BY <1>1, <3>1
      <3>4. QED
        BY <3>2, <3>3
    <2>3. QED
      BY <2>1, <2>2
  <1>5. RunUpTo(c, by, next + 1)
    BY <1>2, <1>4 DEF RunUpTo
  <1>6. r \notin ToSet(b)
    <2>1. SUFFICES ASSUME NEW k \in 1 .. n, b[k] = r PROVE FALSE
      BY <1>1 DEF ToSet
    <2>2. b[k].state = next - 1 - n + k
      BY <1>3
    <2>3. QED
      BY <1>1, <2>1, <2>2
  <1>7. QED
    BY <1>5, <1>6 DEF c

-----------------------------------------------------------------------------
LEMMA RangeFields ==
    ASSUME NEW g \in Ranges
    PROVE  /\ g # None
           /\ g.by \in Nat /\ g.to \in Nat /\ g.state \in Nat /\ g.system \in SystemIds
           /\ g.yielding \in BOOLEAN /\ g.batch \in Seq(AllResults)
  <1> DEFINE S == Seq(AllResults)
  <1>1. Ranges = [by : Nat, to : Nat, state : Nat, system : SystemIds, yielding : BOOLEAN,
                  batch : S]
    BY DEF Ranges
  <1> HIDE DEF S
  <1>2. /\ DOMAIN g = {"by", "to", "state", "system", "yielding", "batch"}
        /\ g.by \in Nat /\ g.to \in Nat /\ g.state \in Nat /\ g.system \in SystemIds
        /\ g.yielding \in BOOLEAN /\ g.batch \in S
    BY <1>1
  <1>3. DOMAIN None = {"by"}
    BY DEF None
  <1>4. "to" \in DOMAIN g /\ "to" \notin DOMAIN None
    BY <1>2, <1>3
  <1>5. g # None
    BY <1>4
  <1>6. QED
    BY <1>2, <1>5 DEF S

LEMMA RangeMade ==
    ASSUME NEW by \in Nat, NEW to \in Nat, NEW state \in Nat, NEW system \in SystemIds,
           NEW yielding \in BOOLEAN, NEW batch \in Seq(AllResults)
    PROVE  [by |-> by, to |-> to, state |-> state, system |-> system,
            yielding |-> yielding, batch |-> batch] \in Ranges
  <1> DEFINE S == Seq(AllResults)
  <1>1. Ranges = [by : Nat, to : Nat, state : Nat, system : SystemIds, yielding : BOOLEAN,
                  batch : S]
    BY DEF Ranges
  <1> HIDE DEF S
  <1>2. batch \in S
    BY DEF S
  <1>3. QED
    BY <1>1, <1>2

(* Below the largest exact number adding one is adding one. *)
LEMMA RangeFacts ==
    ASSUME Typed, RangeOK, range # None
    PROVE  /\ range \in Ranges /\ Batch = range.batch
           /\ range.state + 1 \in Nat /\ Increment(range.state) = range.state + 1
           /\ NextOf(range) \in Nat
           /\ ~LastOfRange => range.state + 1 <= range.to
  <1>1. range \in Ranges /\ Batch = range.batch
    BY DEF Typed, Batch
  <1>2. range.state \in Nat /\ range.to \in Nat /\ range.state <= range.to /\ range.to < LargestExact
    BY <1>1, RangeFields DEF RangeOK
  <1>3. LargestExact \in Nat
    BY NumbersAssumption
  <1>4. Increment(range.state) = range.state + 1
    BY <1>2, <1>3 DEF Increment
  <1>5. QED
    BY <1>1, <1>2, <1>4 DEF NextOf, LastOfRange

-----------------------------------------------------------------------------
LEMMA InitInv == Init => IInv
  BY EmptySequence, FirstSystemAssumption
     DEF Init, IInv, Typed, Whole, Batch, Blocks, Numbered, RangeOK

(* Steps that leave every result where it is. *)
LEMMA StartsInv ==
    ASSUME IInv, Typed', Numbered', starts <= starts',
           UNCHANGED <<loaded, overlay, dropped, range>>,
           range # None => \A r \in pending' : r.by # range.by
    PROVE  IInv'
  <1>1. Whole(loaded, overlay, Batch, dropped)' /\ Blocks(overlay)'
    BY DEF IInv, Batch
  <1>2. RangeOK'
    <2>1. range # None => range.by \in Nat /\ starts \in Nat /\ starts' \in Nat
      BY RangeFields DEF IInv, Typed
    <2>2. QED
      BY <2>1 DEF IInv, RangeOK
  <1>3. QED
    BY <1>1, <1>2 DEF IInv

LEMMA SelectInv ==
    ASSUME IInv, NEW system \in SystemIds, SelectSystem(system)
    PROVE  IInv'
  <1>1. /\ selected' = system
        /\ UNCHANGED <<controller, starts, pending, loaded, overlay, dropped, range>>
    BY DEF SelectSystem, runVars, coralVars
  <1>2. Typed' /\ Numbered' /\ starts <= starts'
    BY <1>1 DEF IInv, Typed, Numbered
  <1>3. range # None => \A r \in pending' : r.by # range.by
    BY <1>1 DEF IInv, RangeOK
  <1>4. QED
    BY <1>1, <1>2, <1>3, StartsInv

LEMMA StartRunInv ==
    ASSUME IInv, NEW key, NEW input \in Inputs, StartRun(key, input)
    PROVE  IInv'
  <1> DEFINE new == Result(starts + 1, selected, input)
  <1>1. /\ starts' = starts + 1 /\ controller' = selected /\ pending' = pending \cup {new}
        /\ UNCHANGED <<selected, loaded, overlay, dropped, range>>
    BY DEF StartRun, coralVars
  <1>2. /\ Typed /\ Numbered /\ starts \in Nat
        /\ \A r \in pending \cup ToSet(loaded) : r.by \in Nat /\ r.by <= starts
    <2>1. Typed /\ Numbered /\ starts \in Nat
      BY DEF IInv, Typed
    <2>2. ToSet(loaded) \subseteq AllResults /\ pending \subseteq AllResults
      BY <2>1, SeqFacts DEF Typed
    <2>3. QED
      BY <2>1, <2>2 DEF Numbered, AllResults
  <1>3. new \in AllResults /\ new.by = starts + 1
    BY <1>2, NumbersAssumption DEF Result, AllResults, Typed
  <1> HIDE DEF new
  <1>4. Typed'
    BY <1>1, <1>2, <1>3 DEF Typed
  <1>5. \A r \in pending \cup ToSet(loaded) : r.by # new.by /\ r.by <= starts'
    BY <1>1, <1>2, <1>3
  <1>6. Numbered'
    <2>1. \A r \in pending' \cup ToSet(loaded') : r.by <= starts'
      BY <1>1, <1>2, <1>3, <1>5
    <2>2. \A r \in pending' : \A q \in ToSet(loaded') : r.by # q.by
      BY <1>1, <1>2, <1>5 DEF Numbered
    <2>3. \A r, q \in pending' : r.by = q.by => r = q
      BY <1>1, <1>2, <1>5 DEF Numbered
    <2>4. QED
      BY <2>1, <2>2, <2>3 DEF Numbered
  <1>7. range # None => \A r \in pending' : r.by # range.by
    <2>1. range # None => range.by \in Nat /\ range.by <= starts
      BY RangeFields DEF IInv, Typed, RangeOK
    <2>2. range # None => range.by # new.by
      BY <1>2, <1>3, <2>1
    <2>3. QED
      BY <1>1, <2>2 DEF IInv, RangeOK
  <1>8. starts <= starts'
    BY <1>1, <1>2
  <1>9. QED
    BY <1>1, <1>4, <1>6, <1>7, <1>8, StartsInv

LEMMA RunFailsInv ==
    ASSUME IInv, NEW r \in pending, RunFails(r)
    PROVE  IInv'
  <1>1. /\ pending' = pending \ {r}
        /\ UNCHANGED <<selected, controller, starts, loaded, overlay, dropped, range>>
    BY DEF RunFails, coralVars
  <1>2. Typed' /\ Numbered' /\ starts <= starts'
    BY <1>1 DEF IInv, Typed, Numbered
  <1>3. range # None => \A q \in pending' : q.by # range.by
    BY <1>1 DEF IInv, RangeOK
  <1>4. QED
    BY <1>1, <1>2, <1>3, StartsInv

(* A reply joins the overlay, alone. *)
LEMMA RunResolvesInv ==
    ASSUME IInv, NEW r \in pending, RunResolves(r)
    PROVE  IInv'
  <1>1. /\ pending' = pending \ {r} /\ loaded' = Append(loaded, r)
        /\ overlay' = overlay \o <<r>>
        /\ UNCHANGED <<selected, controller, starts, dropped, range>>
    BY DEF RunResolves, Extend
  <1>2. /\ Typed /\ Numbered /\ RangeOK /\ Blocks(overlay)
        /\ Whole(loaded, overlay, Batch, dropped)
        /\ r \in AllResults /\ loaded \in Seq(AllResults) /\ overlay \in Seq(AllResults)
    BY DEF IInv, Typed
  <1>3. Batch \in Seq(AllResults) /\ Batch' = Batch
    BY <1>1, <1>2, RangeFields, EmptySequence DEF Batch, Typed
  <1>4. \A q \in ToSet(loaded) : q.by # r.by
    BY <1>2 DEF Numbered
  <1>5. r \notin ToSet(loaded) /\ IsInjective(loaded) /\ ToSet(overlay) \subseteq ToSet(loaded)
    BY <1>2, <1>4 DEF Whole
  <1>6. ToSet(loaded') = ToSet(loaded) \cup {r}
    BY <1>1, <1>2, <1>5, Appended
  <1>7. Whole(loaded', overlay', Batch', dropped')
    BY <1>1, <1>2, <1>3, <1>5, LoadedAndShown
  <1>8. Blocks(overlay')
    <2>1. r.state + 1 \in Nat /\ r.state \in Nat
      BY <1>2 DEF AllResults
    <2>2. /\ <<r>> \in Seq(AllResults) /\ Len(<<r>>) = 1 /\ DOMAIN <<r>> = {1} /\ <<r>>[1] = r
      BY <1>2, Singleton
    <2>3. RunUpTo(<<r>>, r.by, r.state + 1)
      BY <2>1, <2>2 DEF RunUpTo
    <2>4. \A q \in ToSet(overlay) : q.by # r.by
      BY <1>4, <1>5
    <2>5. QED
      BY <1>1, <1>2, <2>1, <2>2, <2>3, <2>4, BlockAdded
  <1>9. Typed'
    <2>1. Append(loaded, r) \in Seq(AllResults)
      BY <1>2, AppendProperties
    <2>2. overlay \o <<r>> \in Seq(AllResults)
      BY <1>2, Singleton, ConcatProperties
    <2>3. QED
      BY <1>1, <1>2, <2>1, <2>2 DEF Typed
  <1>10. Numbered'
    BY <1>1, <1>2, <1>6 DEF Numbered
  <1>11. RangeOK'
    BY <1>1, <1>2, <1>6 DEF RangeOK
  <1>12. QED
    BY <1>7, <1>8, <1>9, <1>10, <1>11 DEF IInv

-----------------------------------------------------------------------------
LEMMA StartRangeInv ==
    ASSUME LargestExact \notin Inputs, IInv,
           NEW from \in Inputs, NEW to \in Inputs, StartRange(from, to)
    PROVE  IInv'
  <1> DEFINE h == [by |-> starts + 1, to |-> to, state |-> from, system |-> controller,
                   yielding |-> FALSE, batch |-> <<>>]
  <1>1. /\ range = None /\ from <= to /\ starts' = starts + 1 /\ range' = h
        /\ UNCHANGED <<selected, controller, loaded, pending, overlay, dropped>>
    BY DEF StartRange, runVars
  <1>2. Typed /\ Numbered /\ Whole(loaded, overlay, Batch, dropped) /\ Blocks(overlay)
    BY DEF IInv
  <1>3. /\ from \in Nat /\ to \in Nat /\ to < LargestExact /\ starts \in Nat /\ starts + 1 \in Nat
        /\ controller \in SystemIds
    BY <1>2, NumbersAssumption DEF Typed
  <1>4. h \in Ranges
    BY <1>3, EmptySequence, RangeMade
  <1>5. /\ h.by = starts + 1 /\ h.to = to /\ h.state = from /\ h.batch = <<>> /\ h # None
        /\ ~h.yielding
    BY <1>4, RangeFields
  <1> HIDE DEF h
  <1>6. Typed'
    BY <1>1, <1>2, <1>3, <1>4 DEF Typed
  <1>7. Whole(loaded', overlay', Batch', dropped')
    BY <1>1, <1>2, <1>5 DEF Batch
  <1>8. Numbered'
    <2>1. \A r \in pending \cup ToSet(loaded) : r.by \in Nat /\ r.by <= starts
      <3>1. ToSet(loaded) \subseteq AllResults /\ pending \subseteq AllResults
        BY <1>2, SeqFacts DEF Typed
      <3>2. QED
        BY <1>2, <3>1 DEF Numbered, AllResults
    <2>2. \A r \in pending \cup ToSet(loaded) : r.by <= starts'
      BY <1>1, <1>3, <2>1
    <2>3. QED
      BY <1>1, <1>2, <2>2 DEF Numbered
  <1>9. RangeOK'
    <2>1. \A r \in pending \cup ToSet(loaded) : r.by # h.by
      <3>1. ToSet(loaded) \subseteq AllResults /\ pending \subseteq AllResults
        BY <1>2, SeqFacts DEF Typed
      <3>2. \A r \in pending \cup ToSet(loaded) : r.by \in Nat /\ r.by <= starts
        BY <1>2, <3>1 DEF Numbered, AllResults
      <3>3. QED
        BY <1>3, <1>5, <3>2
    <2>2. RunUpTo(h.batch, h.by, NextOf(h))
      BY <1>5, EmptySequence DEF RunUpTo
    <2>3. h.by <= starts' /\ h.state <= h.to /\ h.to < LargestExact
      BY <1>1, <1>3, <1>5
    <2>4. QED
      BY <1>1, <2>1, <2>2, <2>3 DEF RangeOK
  <1>10. QED
    BY <1>1, <1>2, <1>6, <1>7, <1>8, <1>9 DEF IInv

(* A range ends: its results become one block of the overlay. *)
LEMMA FinishInv ==
    ASSUME IInv, range # None, NEW b \in Seq(AllResults), NEW next \in Nat,
           loaded' \in Seq(AllResults), Whole(loaded', overlay, b, dropped),
           RunUpTo(b, range.by, next), FinishRange(b), Numbered',
           UNCHANGED <<selected, controller, starts, pending, dropped>>
    PROVE  IInv'
  <1>1. range' = None /\ overlay' = overlay \o b
    BY DEF FinishRange, Extend
  <1>2. Typed /\ RangeOK /\ Blocks(overlay) /\ Whole(loaded, overlay, Batch, dropped)
        /\ overlay \in Seq(AllResults) /\ Batch = range.batch
    BY RangeFacts DEF IInv, Typed
  <1>3. Batch' = <<>>
    BY <1>1 DEF Batch
  <1>4. Typed'
    <2>1. overlay \o b \in Seq(AllResults)
      BY <1>2, ConcatProperties
    <2>2. QED
      BY <1>1, <1>2, <2>1 DEF Typed
  <1>5. Whole(loaded', overlay', Batch', dropped')
    BY <1>1, <1>2, <1>3, Shown
  <1>6. \A q \in ToSet(overlay) : q.by # range.by
    BY <1>2 DEF Whole, RangeOK
  <1>7. Blocks(overlay')
    BY <1>1, <1>2, <1>6, BlockAdded
  <1>8. RangeOK'
    BY <1>1 DEF RangeOK
  <1>9. QED
    BY <1>4, <1>5, <1>7, <1>8 DEF IInv

LEMMA RangeFailsInv ==
    ASSUME IInv, RangeFails
    PROVE  IInv'
  <1>1. /\ range # None /\ FinishRange(range.batch)
        /\ UNCHANGED <<selected, controller, loaded, starts, pending, dropped>>
    BY DEF RangeFails, runVars
  <1>2. /\ range.batch \in Seq(AllResults) /\ NextOf(range) \in Nat /\ Batch = range.batch
        /\ Typed /\ RangeOK /\ Numbered
    BY <1>1, RangeFacts, RangeFields DEF IInv
  <1>3. /\ Whole(loaded', overlay, range.batch, dropped) /\ loaded' \in Seq(AllResults)
        /\ RunUpTo(range.batch, range.by, NextOf(range)) /\ Numbered'
    BY <1>1, <1>2 DEF IInv, RangeOK, Typed, Numbered
  <1>4. QED
    BY <1>1, <1>2, <1>3, FinishInv

(* A range goes on, with its next run called. *)
LEMMA GoesOnInv ==
    ASSUME IInv, range # None, NEW h \in Ranges, range' = h,
           h.by = range.by, h.to = range.to, h.state <= h.to,
           loaded' \in Seq(AllResults), Whole(loaded', overlay, h.batch, dropped),
           RunUpTo(h.batch, range.by, NextOf(h)), Numbered',
           \A q \in ToSet(loaded') : q.by = range.by => q \in ToSet(h.batch),
           UNCHANGED <<selected, controller, starts, pending, overlay, dropped>>
    PROVE  IInv'
  <1>1. h # None /\ Batch' = h.batch
    BY RangeFields DEF Batch
  <1>2. Typed' /\ Blocks(overlay')
    BY DEF IInv, Typed
  <1>3. RangeOK'
    BY <1>1 DEF IInv, RangeOK
  <1>4. QED
    BY <1>1, <1>2, <1>3 DEF IInv

LEMMA RangeResolvesInv ==
    ASSUME IInv, RangeResolves
    PROVE  IInv'
  <1> DEFINE r == Result(range.by, range.system, range.state)
             b == Append(range.batch, r)
             n == range.state + 1
  <1>1. /\ range # None /\ ~range.yielding /\ loaded' = Append(loaded, r)
        /\ \/ range' = [range EXCEPT !.batch = b, !.yielding = TRUE] /\ UNCHANGED overlay
           \/ FinishRange(b)
           \/ /\ ~LastOfRange
              /\ range' = [range EXCEPT !.batch = b, !.state = Increment(@), !.system = controller]
              /\ UNCHANGED overlay
        /\ UNCHANGED <<selected, controller, starts, pending, dropped>>
    BY DEF RangeResolves, runVars
  <1>2. /\ Typed /\ RangeOK /\ Numbered /\ Whole(loaded, overlay, range.batch, dropped)
        /\ range \in Ranges /\ n \in Nat /\ Increment(range.state) = n
        /\ ~LastOfRange => n <= range.to
        /\ loaded \in Seq(AllResults) /\ overlay \in Seq(AllResults)
    BY <1>1, RangeFacts DEF IInv, Typed
  <1>3. /\ range.by \in Nat /\ range.state \in Nat /\ range.system \in SystemIds
        /\ range.batch \in Seq(AllResults) /\ controller \in SystemIds
    BY <1>2, RangeFields DEF Typed
  <1>4. r \in AllResults /\ r.by = range.by /\ r.state = range.state
    BY <1>3 DEF Result, AllResults
  <1> HIDE DEF r
  <1>5. RunUpTo(range.batch, range.by, range.state)
    BY <1>1, <1>2 DEF RangeOK, NextOf
  <1>6. RunUpTo(b, range.by, n) /\ r \notin ToSet(range.batch)
    BY <1>3, <1>4, <1>5, RunGrows
  <1>7. r \notin ToSet(loaded)
    BY <1>1, <1>2, <1>4, <1>6 DEF RangeOK
  <1>8. /\ b \in Seq(AllResults) /\ loaded' \in Seq(AllResults)
        /\ ToSet(b) = ToSet(range.batch) \cup {r}
        /\ ToSet(loaded') = ToSet(loaded) \cup {r}
    <2>1. b \in Seq(AllResults) /\ loaded' \in Seq(AllResults)
      BY <1>1, <1>2, <1>3, <1>4, AppendProperties
    <2>2. ToSet(b) = ToSet(range.batch) \cup {r}
      BY <1>2, <1>3, <1>4, <1>6, Appended DEF Whole
    <2>3. ToSet(loaded') = ToSet(loaded) \cup {r}
      BY <1>1, <1>2, <1>4, <1>7, Appended DEF Whole
    <2>4. QED
      BY <2>1, <2>2, <2>3
  <1>9. Whole(loaded', overlay, b, dropped)
    BY <1>1, <1>2, <1>3, <1>4, <1>7, LoadedIntoBatch
  <1>10. Numbered'
    <2>1. \A q \in pending : q.by # r.by
      BY <1>1, <1>2, <1>4 DEF RangeOK
    <2>2. r.by <= starts
      BY <1>1, <1>2, <1>4 DEF RangeOK
    <2>3. QED
      BY <1>1, <1>2, <1>8, <2>1, <2>2 DEF Numbered
  <1>11. \A q \in ToSet(loaded') : q.by = range.by => q \in ToSet(b)
    BY <1>1, <1>2, <1>8 DEF RangeOK
  <1> HIDE DEF b, n
  <1>12. CASE range' = [range EXCEPT !.batch = b, !.yielding = TRUE] /\ UNCHANGED overlay
    <2>0. PICK h : h = [range EXCEPT !.batch = b, !.yielding = TRUE]
      OBVIOUS
    <2>1. /\ h \in Ranges /\ h.by = range.by /\ h.to = range.to /\ h.state = range.state
          /\ h.yielding = TRUE /\ h.batch = b
      <3> DEFINE S == Seq(AllResults)
      <3>1. Ranges = [by : Nat, to : Nat, state : Nat, system : SystemIds, yielding : BOOLEAN,
                      batch : S]
        BY DEF Ranges
      <3>2. range \in Ranges /\ b \in S
        BY <1>2, <1>8
      <3> HIDE DEF S
      <3>3. QED
        BY <2>0, <3>1, <3>2
    <2>2. range' = h /\ UNCHANGED overlay
      BY <1>12, <2>0
    <2>3. NextOf(h) = n /\ h.state <= h.to
      BY <1>1, <1>2, <2>1 DEF NextOf, RangeOK, n
    <2>4. QED
      BY <1>1, <1>6, <1>8, <1>9, <1>10, <1>11, <2>1, <2>2, <2>3, GoesOnInv
  <1>13. CASE FinishRange(b)
    BY <1>1, <1>2, <1>6, <1>8, <1>9, <1>10, <1>13, FinishInv
  <1>14. CASE /\ ~LastOfRange
              /\ range' = [range EXCEPT !.batch = b, !.state = Increment(@), !.system = controller]
              /\ UNCHANGED overlay
    <2>0. PICK h : h = [range EXCEPT !.batch = b, !.state = n, !.system = controller]
      OBVIOUS
    <2>1. /\ h \in Ranges /\ h.by = range.by /\ h.to = range.to /\ h.state = n
          /\ h.yielding = range.yielding /\ h.batch = b
      <3> DEFINE S == Seq(AllResults)
      <3>1. Ranges = [by : Nat, to : Nat, state : Nat, system : SystemIds, yielding : BOOLEAN,
                      batch : S]
        BY DEF Ranges
      <3>2. range \in Ranges /\ b \in S /\ n \in Nat /\ controller \in SystemIds
        BY <1>2, <1>3, <1>8 DEF n
      <3> HIDE DEF S
      <3>3. QED
        BY <2>0, <3>1, <3>2
    <2>2. range' = h /\ UNCHANGED overlay
      BY <1>2, <1>14, <2>0
    <2>3. NextOf(h) = n /\ h.state <= h.to
      BY <1>1, <1>2, <1>14, <2>1 DEF NextOf
    <2>4. QED
      BY <1>1, <1>6, <1>8, <1>9, <1>10, <1>11, <2>1, <2>2, <2>3, GoesOnInv
  <1>15. QED
    BY <1>1, <1>12, <1>13, <1>14

LEMMA RangeResumesInv ==
    ASSUME IInv, RangeResumes
    PROVE  IInv'
  <1> DEFINE n == range.state + 1
  <1>1. /\ range # None /\ range.yielding
        /\ \/ FinishRange(range.batch)
           \/ /\ ~LastOfRange
              /\ range' = [range EXCEPT !.state = Increment(@), !.system = controller,
                                        !.yielding = FALSE]
              /\ UNCHANGED overlay
        /\ UNCHANGED <<selected, controller, loaded, starts, pending, dropped>>
    BY DEF RangeResumes, runVars
  <1>2. /\ Typed /\ RangeOK /\ Numbered /\ Whole(loaded, overlay, range.batch, dropped)
        /\ range \in Ranges /\ n \in Nat /\ Increment(range.state) = n
        /\ ~LastOfRange => n <= range.to
        /\ range.batch \in Seq(AllResults) /\ controller \in SystemIds
        /\ loaded' \in Seq(AllResults)
    BY <1>1, RangeFacts, RangeFields DEF IInv, Typed
  <1>3. /\ Whole(loaded', overlay, range.batch, dropped) /\ Numbered'
        /\ RunUpTo(range.batch, range.by, n)
        /\ \A q \in ToSet(loaded') : q.by = range.by => q \in ToSet(range.batch)
    BY <1>1, <1>2 DEF Numbered, RangeOK, NextOf
  <1> HIDE DEF n
  <1>4. CASE FinishRange(range.batch)
    BY <1>1, <1>2, <1>3, <1>4, FinishInv
  <1>5. CASE /\ ~LastOfRange
             /\ range' = [range EXCEPT !.state = Increment(@), !.system = controller,
                                       !.yielding = FALSE]
             /\ UNCHANGED overlay
    <2>0. PICK h : h = [range EXCEPT !.state = n, !.system = controller, !.yielding = FALSE]
      OBVIOUS
    <2>1. /\ h \in Ranges /\ h.by = range.by /\ h.to = range.to /\ h.state = n
          /\ h.yielding = FALSE /\ h.batch = range.batch
      <3> DEFINE S == Seq(AllResults)
      <3>1. Ranges = [by : Nat, to : Nat, state : Nat, system : SystemIds, yielding : BOOLEAN,
                      batch : S]
        BY DEF Ranges
      <3>2. range \in Ranges /\ n \in Nat /\ controller \in SystemIds
        BY <1>2 DEF n
      <3> HIDE DEF S
      <3>3. QED
        BY <2>0, <3>1, <3>2
    <2>2. range' = h /\ UNCHANGED overlay
      BY <1>2, <1>5, <2>0
    <2>3. NextOf(h) = n /\ h.state <= h.to
      BY <1>2, <1>5, <2>1 DEF NextOf
    <2>4. QED
      BY <1>1, <1>2, <1>3, <2>1, <2>2, <2>3, GoesOnInv
  <1>6. QED
    BY <1>1, <1>4, <1>5

LEMMA ResetInv ==
    ASSUME IInv, Reset
    PROVE  IInv'
  <1>1. /\ range = None /\ overlay' = <<>> /\ dropped' = dropped \cup ToSet(overlay)
        /\ UNCHANGED <<selected, controller, loaded, starts, pending, range>>
    BY DEF Reset, runVars
  <1>2. Typed /\ Numbered /\ Whole(loaded, overlay, <<>>, dropped) /\ Batch' = <<>>
    BY <1>1 DEF IInv, Batch
  <1>3. Typed'
    BY <1>1, <1>2, SeqFacts, EmptySequence DEF Typed
  <1>4. Whole(loaded', overlay', Batch', dropped')
    BY <1>1, <1>2, TakenOff
  <1>5. Blocks(overlay') /\ Numbered' /\ RangeOK'
    BY <1>1, <1>2, EmptySequence DEF Blocks, Numbered, RangeOK
  <1>6. QED
    BY <1>3, <1>4, <1>5 DEF IInv

-----------------------------------------------------------------------------
(* The invariant holds through every session in which no range ends at the *)
(* largest exact number.                                                   *)
THEOREM Invariance ==
    ASSUME LargestExact \notin Inputs
    PROVE  Spec => []IInv
  <1>1. ASSUME IInv, [Next]_vars PROVE IInv'
    <2>1. CASE UNCHANGED vars
      <3>1. UNCHANGED <<selected, controller, loaded, starts, pending, overlay, dropped, range>>
        BY <2>1 DEF vars, runVars, coralVars
      <3>2. Typed' /\ Numbered'
        BY <1>1, <3>1 DEF IInv, Typed, Numbered
      <3>3. starts <= starts'
        BY <1>1, <3>1 DEF IInv, Typed
      <3>4. range # None => \A r \in pending' : r.by # range.by
        BY <1>1, <3>1 DEF IInv, RangeOK
      <3>5. QED
        BY <1>1, <3>1, <3>2, <3>3, <3>4, StartsInv
    <2>2. CASE \E system \in SystemIds : SelectSystem(system)
      BY <1>1, <2>2, SelectInv
    <2>3. CASE \E key \in {"button", "enter"}, input \in Inputs : StartRun(key, input)
      BY <1>1, <2>3, StartRunInv
    <2>4. CASE \E r \in pending : RunEnds(r)
      BY <1>1, <2>4, RunResolvesInv, RunFailsInv DEF RunEnds
    <2>5. CASE \E from, to \in Inputs : StartRange(from, to)
      BY <1>1, <2>5, StartRangeInv
    <2>6. CASE RangeStep
      BY <1>1, <2>6, RangeResolvesInv, RangeFailsInv, RangeResumesInv DEF RangeStep
    <2>7. CASE Reset
      BY <1>1, <2>7, ResetInv
    <2>8. QED
      BY <1>1, <2>1, <2>2, <2>3, <2>4, <2>5, <2>6, <2>7 DEF Next
  <1>2. QED
    BY InitInv, <1>1, PTL DEF Spec

(* No interleaving of runs, a range that fails half way and resets loses a *)
(* result or doubles it (App.tsx, run and addCoralRange).                  *)
THEOREM NoLoss ==
    ASSUME LargestExact \notin Inputs
    PROVE  Spec => []NothingLost
  <1>1. ASSUME IInv PROVE NothingLost
    <2>1. /\ overlay \in Seq(AllResults) /\ Whole(loaded, overlay, Batch, dropped)
          /\ Batch \in Seq(AllResults)
      BY <1>1, RangeFields, EmptySequence DEF IInv, Typed, Batch
    <2>2. /\ ToSet(overlay \o Batch) = ToSet(overlay) \cup ToSet(Batch)
          /\ IsInjective(overlay \o Batch)
      BY <2>1, Joined DEF Whole
    <2>3. QED
      BY <2>1, <2>2 DEF Whole, NothingLost
  <1>2. QED
    BY Invariance, <1>1, PTL

(* The results of a range stay together and in order, whatever resolves in *)
(* the middle of it (App.tsx, addCoralRange).                              *)
THEOREM RangesStayTogether ==
    ASSUME LargestExact \notin Inputs
    PROVE  Spec => []RangesAreBlocks
  <1>1. IInv => RangesAreBlocks
    BY DEF IInv, Blocks, RangesAreBlocks
  <1>2. QED
    BY Invariance, <1>1, PTL

(* A disabled button has a run behind it (App.tsx, run). *)
THEOREM BusyHasARun == Spec => []BusyMeansRunning
  <1>1. Init => BusyMeansRunning
    BY DEF Init, BusyMeansRunning
  <1>2. ASSUME BusyMeansRunning, [Next]_vars PROVE BusyMeansRunning'
    <2>1. CASE UNCHANGED <<latest, pending, busy>>
      BY <1>2, <2>1 DEF BusyMeansRunning
    <2>2. ASSUME NEW key, NEW input, StartRun(key, input) PROVE BusyMeansRunning'
      BY <2>2 DEF StartRun, BusyMeansRunning
    <2>3. ASSUME NEW r, RunEnds(r) PROVE BusyMeansRunning'
      BY <2>3 DEF RunEnds, RunResolves, RunFails, BusyMeansRunning
    <2>4. QED
      BY <1>2, <2>1, <2>2, <2>3 DEF Next, vars, runVars, SelectSystem, StartRange, RangeStep,
         RangeResolves, RangeFails, RangeResumes, Reset
  <1>3. QED
    BY <1>1, <1>2, PTL DEF Spec
=============================================================================
