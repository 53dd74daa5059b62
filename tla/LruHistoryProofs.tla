-------------------------- MODULE LruHistoryProofs --------------------------
(***************************************************************************)
(* Proofs about the LRU cache, for every set of keys and values, every     *)
(* capacity and every sequence of calls.                                   *)
(***************************************************************************)
EXTENDS LruHistory, FiniteSetTheorems, SequenceTheorems, TLAPS

USE CapacitiesAssumption, MaxUsesAssumption

(* In a list without duplicates the first occurrence is the only one. *)
LEMMA RemoveUnique ==
    ASSUME NEW S, NEW order \in Seq(S), IsInjective(order),
           NEW p \in 1 .. Len(order)
    PROVE  RemoveFirst(order, order[p]) = RemoveAt(order, p)
  <1> DEFINE hits == {i \in 1 .. Len(order) : order[i] = order[p]}
  <1>1. hits = {p}
    BY DEF IsInjective
  <1>2. Min(hits) = p
    BY <1>1 DEF Min
  <1>3. SelectInSeq(order, LAMBDA v : v = order[p]) = p
    BY <1>1, <1>2 DEF SelectInSeq
  <1>4. QED
    BY <1>3 DEF RemoveFirst

LEMMA RemoveAtFacts ==
    ASSUME NEW S, NEW order \in Seq(S), NEW p \in 1 .. Len(order)
    PROVE  /\ RemoveAt(order, p) \in Seq(S)
           /\ Len(RemoveAt(order, p)) = Len(order) - 1
           /\ \A i \in 1 .. Len(order) - 1 :
                 RemoveAt(order, p)[i] = order[IF i < p THEN i ELSE i + 1]
  <1> DEFINE front == SubSeq(order, 1, p - 1)
             back == SubSeq(order, p + 1, Len(order))
  <1>1. /\ front \in Seq(S) /\ Len(front) = p - 1
        /\ \A i \in 1 .. p - 1 : front[i] = order[i]
    BY SubSeqProperties
  <1>2. /\ back \in Seq(S) /\ Len(back) = Len(order) - p
        /\ \A i \in 1 .. Len(order) - p : back[i] = order[p + i]
    BY SubSeqProperties
  <1> HIDE DEF front, back
  <1>3. /\ front \o back \in Seq(S)
        /\ Len(front \o back) = Len(order) - 1
        /\ \A i \in 1 .. Len(order) - 1 :
              (front \o back)[i] = IF i < p THEN front[i] ELSE back[i - (p - 1)]
    <2>1. /\ front \o back \in Seq(S)
          /\ Len(front \o back) = Len(front) + Len(back)
          /\ \A i \in 1 .. Len(front) + Len(back) : (front \o back)[i] =
                IF i <= Len(front) THEN front[i] ELSE back[i - Len(front)]
      BY <1>1, <1>2, ConcatProperties
    <2>2. Len(front) + Len(back) = Len(order) - 1 /\ Len(order) \in Nat
      BY <1>1, <1>2
    <2>3. QED
      BY <2>1, <2>2, <1>1
  <1>4. \A i \in 1 .. Len(order) - 1 :
              (front \o back)[i] = order[IF i < p THEN i ELSE i + 1]
    BY <1>1, <1>2, <1>3
  <1>5. QED
    BY <1>3, <1>4 DEF RemoveAt, front, back

(* touch moves the key to the back and keeps the others in order. *)
LEMMA TouchFacts ==
    ASSUME NEW c, c.order \in Seq(Keys), WellFormed(c), NEW key \in Cached(c),
           c = [capacity |-> c.capacity, map |-> c.map, order |-> c.order]
    PROVE  \E p \in 1 .. Len(c.order) :
              LET t == Touch(c, key)
                  n == Len(c.order)
              IN /\ c.order[p] = key
                 /\ t = [capacity |-> c.capacity, map |-> c.map, order |-> t.order]
                 /\ t.order \in Seq(Keys) /\ Len(t.order) = n
                 /\ \A i \in 1 .. n - 1 : t.order[i] = c.order[IF i < p THEN i ELSE i + 1]
                 /\ t.order[n] = key
  <1>1. PICK p \in 1 .. Len(c.order) : c.order[p] = key
    BY DEF WellFormed, ToSet, Cached
  <1>2. RemoveFirst(c.order, key) = RemoveAt(c.order, p)
    BY <1>1, RemoveUnique DEF WellFormed
  <1>3. Touch(c, key) = [c EXCEPT !.order = Append(RemoveAt(c.order, p), key)]
    BY <1>1, <1>2 DEF Touch, Contains
  <1> DEFINE rest == RemoveAt(c.order, p)
  <1>4. /\ rest \in Seq(Keys) /\ Len(rest) = Len(c.order) - 1
        /\ \A i \in 1 .. Len(c.order) - 1 : rest[i] = c.order[IF i < p THEN i ELSE i + 1]
    BY RemoveAtFacts
  <1>5. key \in Keys
    BY <1>1
  <1> HIDE DEF rest
  <1>6. /\ Append(rest, key) \in Seq(Keys)
        /\ Len(Append(rest, key)) = Len(c.order)
        /\ \A i \in 1 .. Len(c.order) - 1 : Append(rest, key)[i] = rest[i]
        /\ Append(rest, key)[Len(c.order)] = key
    BY <1>4, <1>5, AppendProperties
  <1>7. Touch(c, key) = [capacity |-> c.capacity, map |-> c.map, order |-> Append(rest, key)]
    BY <1>3 DEF rest
  <1>8. QED
    BY <1>1, <1>4, <1>6, <1>7

(***************************************************************************)
(* Facts about lists of keys: the list a touch leaves and its order of use. *)
(***************************************************************************)
NoRepeat(list, n) == \A i, j \in 1 .. n : list[i] = list[j] => i = j

Absent(list, n, key) == \A i \in 1 .. n : list[i] # key

InOrderOfUse(list, n, use) ==
    \A i, j \in 1 .. n : i < j => use[list[i]] < use[list[j]]

MovesToBack(old, new, n, p) ==
    /\ n = Len(old) /\ n = Len(new)
    /\ \A i \in 1 .. n - 1 : new[i] = old[IF i < p THEN i ELSE i + 1]
    /\ new[n] = old[p]

(* Using key changed no other entry of the history, and is the latest use. *)
UsedLast(before, after, S, key) ==
    \A k \in S : k # key => after[k] = before[k] /\ after[k] < after[key]

(* Where the elements other than the one at p come from, p removed. *)
Skip(n, p) == [i \in 1 .. n - 1 |-> IF i < p THEN i ELSE i + 1]

LEMMA SkipOne ==
    ASSUME NEW n \in Nat, NEW p \in 1 .. n
    PROVE  LET f == Skip(n, p) IN
              /\ f \in [1 .. n - 1 -> 1 .. n]
              /\ \A i \in 1 .. n - 1 : f[i] = IF i < p THEN i ELSE i + 1
              /\ \A i \in 1 .. n - 1 : f[i] # p
              /\ \A i, j \in 1 .. n - 1 : i < j => f[i] < f[j]
              /\ \A i \in 1 .. n : i # p => \E j \in 1 .. n - 1 : i = f[j]
  <1> DEFINE f == Skip(n, p)
  <1>1. f \in [1 .. n - 1 -> 1 .. n]
    BY DEF Skip
  <1>2. \A i \in 1 .. n - 1 : f[i] = IF i < p THEN i ELSE i + 1
    BY DEF Skip
  <1> HIDE DEF f
  <1>3. /\ \A i \in 1 .. n - 1 : f[i] # p
        /\ \A i, j \in 1 .. n - 1 : i < j => f[i] < f[j]
    BY <1>2
  <1>4. ASSUME NEW i \in 1 .. n, i # p
        PROVE  \E j \in 1 .. n - 1 : i = f[j]
    <2>1. CASE i < p
      <3>1. i \in 1 .. n - 1 /\ i = f[i]
        BY <2>1, <1>2
      <3>2. QED
        BY <3>1
    <2>2. CASE i > p
      <3>1. i - 1 \in 1 .. n - 1 /\ i = f[i - 1]
        BY <2>2, <1>2
      <3>2. QED
        BY <3>1
    <2>3. QED
      BY <2>1, <2>2, <1>4
  <1>5. QED
    BY <1>1, <1>2, <1>3, <1>4 DEF f

(***************************************************************************)
(* Moving one element of a list without duplicates to the back: it occurs  *)
(* nowhere else, the others keep their order, nothing is lost or gained.   *)
(***************************************************************************)
LEMMA MovedToBack ==
    ASSUME NEW S, NEW old \in Seq(S), NEW new \in Seq(S), NEW n \in Nat,
           NEW p \in 1 .. n, NEW use \in [S -> Nat]
    PROVE  MovesToBack(old, new, n, p) /\ NoRepeat(old, n) /\ InOrderOfUse(old, n, use)
           => /\ Absent(new, n - 1, old[p])
              /\ InOrderOfUse(new, n - 1, use)
              /\ ToSet(new) = ToSet(old)
  <1>0. SUFFICES ASSUME n = Len(old), n = Len(new),
                        \A i \in 1 .. n - 1 : new[i] = old[IF i < p THEN i ELSE i + 1],
                        new[n] = old[p],
                        \A i, j \in 1 .. n : old[i] = old[j] => i = j,
                        \A i, j \in 1 .. n : i < j => use[old[i]] < use[old[j]]
                 PROVE  /\ \A i \in 1 .. n - 1 : new[i] # old[p]
                        /\ \A i, j \in 1 .. n - 1 : i < j => use[new[i]] < use[new[j]]
                        /\ ToSet(new) = ToSet(old)
    BY DEF MovesToBack, NoRepeat, InOrderOfUse, Absent
  <1> DEFINE from == Skip(n, p)
  <1>1. /\ from \in [1 .. n - 1 -> 1 .. n]
        /\ \A i \in 1 .. n - 1 : from[i] = IF i < p THEN i ELSE i + 1
        /\ \A i \in 1 .. n - 1 : from[i] # p
        /\ \A i, j \in 1 .. n - 1 : i < j => from[i] < from[j]
        /\ \A i \in 1 .. n : i # p => \E j \in 1 .. n - 1 : i = from[j]
    BY SkipOne
  <1> HIDE DEF from
  <1>2. \A i \in 1 .. n - 1 : from[i] \in 1 .. n /\ from[i] # p /\ new[i] = old[from[i]]
    BY <1>0, <1>1
  <1>3. DOMAIN old = 1 .. n /\ DOMAIN new = 1 .. n
    <2>1. \A s \in Seq(S) : DOMAIN s = 1 .. Len(s)
      OBVIOUS
    <2>2. n = Len(old) /\ n = Len(new)
      BY <1>0
    <2>3. QED
      BY <2>1, <2>2
  <1>4. n \in 1 .. n
    OBVIOUS
  <1>5. \A i \in 1 .. n - 1 : new[i] # old[p]
    <2>1. SUFFICES ASSUME NEW i \in 1 .. n - 1 PROVE new[i] # old[p]
      OBVIOUS
    <2>2. from[i] \in 1 .. n /\ from[i] # p /\ new[i] = old[from[i]]
      BY <1>2
    <2>3. old[from[i]] # old[p]
      BY <2>2, <1>0
    <2>4. QED
      BY <2>2, <2>3
  <1>6. \A i, j \in 1 .. n - 1 : i < j => use[new[i]] < use[new[j]]
    <2>1. SUFFICES ASSUME NEW i \in 1 .. n - 1, NEW j \in 1 .. n - 1, i < j
                   PROVE  use[new[i]] < use[new[j]]
      OBVIOUS
    <2>2. from[i] < from[j] /\ from[i] \in 1 .. n /\ from[j] \in 1 .. n
      BY <1>1, <1>2, <2>1
    <2>3. use[old[from[i]]] < use[old[from[j]]]
      BY <1>0, <2>2
    <2>4. QED
      BY <2>3, <1>2
  <1>7. ASSUME NEW i \in 1 .. n PROVE \E j \in 1 .. n : old[i] = new[j]
    <2>1. CASE i = p
      BY <2>1, <1>0, <1>4
    <2>2. CASE i # p
      <3>1. PICK j \in 1 .. n - 1 : i = from[j]
        BY <2>2, <1>1
      <3>2. j \in 1 .. n /\ old[i] = new[j]
        BY <3>1, <1>2
      <3>3. QED
        BY <3>2
    <2>3. QED
      BY <2>1, <2>2
  <1>8. ASSUME NEW i \in 1 .. n PROVE \E j \in 1 .. n : new[i] = old[j]
    <2>1. CASE i = n
      BY <2>1, <1>0
    <2>2. CASE i \in 1 .. n - 1
      BY <2>2, <1>2
    <2>3. QED
      BY <2>1, <2>2
  <1>9. ToSet(new) = ToSet(old)
    <2>1. ToSet(old) = {old[i] : i \in 1 .. n} /\ ToSet(new) = {new[i] : i \in 1 .. n}
      BY <1>3 DEF ToSet
    <2>2. \A x : x \in ToSet(old) => x \in ToSet(new)
      BY <2>1, <1>7
    <2>3. \A x : x \in ToSet(new) => x \in ToSet(old)
      BY <2>1, <1>8
    <2>4. QED
      BY <2>2, <2>3
  <1>10. QED
    BY <1>5, <1>6, <1>9

(***************************************************************************)
(* A list whose last element has just been used and whose other elements   *)
(* were in order of use is in order of use, and so without duplicates.     *)
(***************************************************************************)
LEMMA FreshLast ==
    ASSUME NEW S, NEW order \in Seq(S), NEW n \in Nat, n = Len(order), n >= 1,
           NEW key \in S,
           NEW before \in [S -> Nat], NEW after \in [S -> Nat]
    PROVE  /\ order[n] = key
           /\ Absent(order, n - 1, key)
           /\ UsedLast(before, after, S, key)
           /\ InOrderOfUse(order, n - 1, before)
           => InOrderOfUse(order, n, after) /\ IsInjective(order)
  <1>0. SUFFICES ASSUME order[n] = key,
                        \A i \in 1 .. n - 1 : order[i] # key,
                        \A k \in S : k # key => after[k] = before[k] /\ after[k] < after[key],
                        \A i, j \in 1 .. n - 1 :
                            i < j => before[order[i]] < before[order[j]]
                 PROVE  /\ \A i, j \in 1 .. n : i < j => after[order[i]] < after[order[j]]
                        /\ IsInjective(order)
    BY DEF InOrderOfUse, Absent, UsedLast
  <1>1. \A i \in 1 .. n : order[i] \in S /\ after[order[i]] \in Nat
    OBVIOUS
  <1>2. ASSUME NEW i \in 1 .. n, NEW j \in 1 .. n, i < j
        PROVE  after[order[i]] < after[order[j]]
    <2>1. i \in 1 .. n - 1 /\ order[i] \in S /\ order[i] # key
      BY <1>0, <1>1, <1>2
    <2>2. CASE j = n
      BY <1>0, <2>1, <2>2
    <2>3. CASE j # n
      <3>1. j \in 1 .. n - 1 /\ order[j] \in S /\ order[j] # key
        BY <1>0, <2>3, <1>1
      <3>2. before[order[i]] < before[order[j]]
        BY <1>0, <3>1, <2>1, <1>2
      <3>3. after[order[i]] = before[order[i]] /\ after[order[j]] = before[order[j]]
        BY <1>0, <3>1, <2>1
      <3>4. QED
        BY <3>2, <3>3
    <2>4. QED
      BY <2>2, <2>3
  <1>3. DOMAIN order = 1 .. n
    OBVIOUS
  <1>4. ASSUME NEW i \in 1 .. n, NEW j \in 1 .. n, order[i] = order[j], i # j
        PROVE  FALSE
    <2>1. i < j \/ j < i
      BY <1>4
    <2>2. after[order[i]] < after[order[j]] \/ after[order[j]] < after[order[i]]
      BY <2>1, <1>2
    <2>3. QED
      BY <2>2, <1>4, <1>1
  <1>5. IsInjective(order)
    BY <1>3, <1>4 DEF IsInjective
  <1>6. QED
    BY <1>2, <1>3, <1>5

LEMMA TypeFacts ==
    ASSUME TypeOK
    PROVE  /\ cache.order \in Seq(Keys) /\ Len(cache.order) \in Nat
           /\ DOMAIN cache.order = 1 .. Len(cache.order)
           /\ cache.capacity \in Nat
           /\ cache = [capacity |-> cache.capacity, map |-> cache.map, order |-> cache.order]
           /\ lastUse \in [Keys -> Nat] /\ clock \in Nat
  BY DEF TypeOK, CacheOK

LEMMA InitInv == Init => IInv
  <1> SUFFICES ASSUME Init PROVE IInv
    OBVIOUS
  <1>1. PICK capacity \in Capacities : cache = NewCache(capacity)
    BY DEF Init
  <1>2. /\ cache.order = <<>> /\ cache.map = <<>> /\ Cached(cache) = {}
        /\ cache.capacity \in Capacities
        /\ cache = [capacity |-> cache.capacity, map |-> cache.map, order |-> cache.order]
    BY <1>1 DEF NewCache, Cached
  <1>3. TypeOK
    BY <1>2 DEF Init, TypeOK, CacheOK
  <1>4. CacheWellFormed
    BY <1>2 DEF CacheWellFormed, WellFormed, IsInjective, ToSet
  <1>5. UsesBounded
    BY DEF Init, UsesBounded
  <1>6. OrderIsRecency /\ KeepsMostRecent /\ HoldsLatestValue
    BY <1>2 DEF OrderIsRecency, KeepsMostRecent, HoldsLatestValue
  <1>7. QED
    BY <1>3, <1>4, <1>5, <1>6 DEF IInv

(* What a use of a key does to the history. *)
LEMMA UseFacts ==
    ASSUME TypeOK, UsesBounded, NEW key \in Keys, Use(key)
    PROVE  /\ clock' \in Nat
           /\ lastUse' \in [Keys -> Nat]
           /\ lastUse'[key] = clock + 1
           /\ \A k \in Keys : k # key => lastUse'[k] = lastUse[k]
           /\ \A k \in Keys : k # key => lastUse'[k] < lastUse'[key]
           /\ UsesBounded'
  BY DEF TypeOK, Use, UsesBounded

(***************************************************************************)
(* Touching a cached key, its value replaced or not, keeps the invariant.  *)
(***************************************************************************)
LEMMA TouchedInv ==
    ASSUME IInv, NEW c, NEW key \in Cached(cache), Use(key),
           c.order = cache.order, c.capacity = cache.capacity, Cached(c) = Cached(cache),
           c = [capacity |-> c.capacity, map |-> c.map, order |-> c.order],
           c.map \in [Cached(c) -> Values],
           cache' = Touch(c, key),
           \A k \in Cached(c) : k \in DOMAIN latest' /\ c.map[k] = latest'[k],
           DOMAIN latest' \subseteq Keys, latest' \in [DOMAIN latest' -> Values]
    PROVE  IInv'
  <1> DEFINE old == cache.order
             new == cache'.order
             n == Len(old)
  <1>1. /\ old \in Seq(Keys) /\ n \in Nat /\ DOMAIN old = 1 .. n
        /\ lastUse \in [Keys -> Nat] /\ Cached(cache) \subseteq Keys
        /\ cache.capacity \in Capacities /\ key \in Keys
    BY TypeFacts DEF IInv, TypeOK, CacheOK
  <1>2. WellFormed(c)
    BY DEF IInv, CacheWellFormed, WellFormed
  <1>3. PICK p \in 1 .. n :
            /\ old[p] = key
            /\ Touch(c, key) = [capacity |-> c.capacity, map |-> c.map, order |-> Touch(c, key).order]
            /\ Touch(c, key).order \in Seq(Keys) /\ Len(Touch(c, key).order) = n
            /\ \A i \in 1 .. n - 1 :
                  Touch(c, key).order[i] = old[IF i < p THEN i ELSE i + 1]
            /\ Touch(c, key).order[n] = key
    <2>1. c.order \in Seq(Keys) /\ key \in Cached(c)
      BY <1>1
    <2>2. \E p \in 1 .. Len(c.order) :
              LET t == Touch(c, key)
                  m == Len(c.order)
              IN /\ c.order[p] = key
                 /\ t = [capacity |-> c.capacity, map |-> c.map, order |-> t.order]
                 /\ t.order \in Seq(Keys) /\ Len(t.order) = m
                 /\ \A i \in 1 .. m - 1 : t.order[i] = c.order[IF i < p THEN i ELSE i + 1]
                 /\ t.order[m] = key
      BY <1>2, <2>1, TouchFacts
    <2>3. QED
      BY <2>2
  <1>4. /\ cache' = [capacity |-> cache.capacity, map |-> c.map, order |-> new]
        /\ Cached(cache') = Cached(cache) /\ cache'.capacity = cache.capacity
        /\ cache'.map = c.map
    BY <1>3 DEF Cached
  <1>5. /\ new \in Seq(Keys) /\ n = Len(new) /\ DOMAIN new = 1 .. n
        /\ MovesToBack(old, new, n, p) /\ new[n] = key
    BY <1>3 DEF MovesToBack
  <1>6. NoRepeat(old, n)
    BY <1>1 DEF IInv, CacheWellFormed, WellFormed, IsInjective, NoRepeat
  <1>7. InOrderOfUse(old, n, lastUse)
    BY <1>1 DEF IInv, OrderIsRecency, InOrderOfUse
  <1>8. ToSet(old) = Cached(cache) /\ n <= cache.capacity
    BY DEF IInv, CacheWellFormed, WellFormed
  <1> HIDE DEF old, new, n
  <1>9. /\ Absent(new, n - 1, key)
        /\ InOrderOfUse(new, n - 1, lastUse)
        /\ ToSet(new) = Cached(cache)
    <2>1. old \in Seq(Keys) /\ n \in Nat /\ lastUse \in [Keys -> Nat] /\ new \in Seq(Keys)
      BY <1>1, <1>5
    <2>2. /\ Absent(new, n - 1, old[p])
          /\ InOrderOfUse(new, n - 1, lastUse)
          /\ ToSet(new) = ToSet(old)
      BY <2>1, <1>5, <1>6, <1>7, MovedToBack
    <2>3. old[p] = key
      BY <1>3
    <2>4. QED
      BY <2>2, <2>3, <1>8
  <1>10. /\ clock' \in Nat /\ lastUse' \in [Keys -> Nat] /\ UsesBounded'
         /\ UsedLast(lastUse, lastUse', Keys, key)
    BY <1>1, UseFacts DEF IInv, UsedLast
  <1>11. InOrderOfUse(new, n, lastUse') /\ IsInjective(new)
    <2>1. n >= 1
      BY <1>1
    <2>2. QED
      BY <1>1, <1>5, <1>9, <1>10, <2>1, FreshLast
  <1>12. TypeOK'
    BY <1>1, <1>4, <1>5, <1>10 DEF TypeOK, CacheOK, new
  <1>13. CacheWellFormed'
    BY <1>4, <1>5, <1>8, <1>9, <1>11 DEF CacheWellFormed, WellFormed, new
  <1>14. KeepsMostRecent'
    <2>1. ASSUME NEW kept \in Cached(cache), NEW gone \in Keys \ Cached(cache)
          PROVE  lastUse'[gone] < lastUse'[kept]
      <3>1. CASE kept = key
        BY <3>1, <1>1, <1>10 DEF UsedLast
      <3>2. CASE kept # key
        BY <3>2, <1>1, <1>10 DEF IInv, KeepsMostRecent, UsedLast
      <3>3. QED
        BY <3>1, <3>2
    <2>2. QED
      BY <2>1, <1>4 DEF KeepsMostRecent
  <1>15. HoldsLatestValue'
    BY <1>4 DEF HoldsLatestValue
  <1>16. OrderIsRecency'
    BY <1>5, <1>11 DEF OrderIsRecency, InOrderOfUse, new
  <1>17. QED
    BY <1>10, <1>12, <1>13, <1>14, <1>15, <1>16 DEF IInv

LEMMA GetHitInv == ASSUME IInv, NEW key \in Keys, GetHit(key) PROVE IInv'
  <1>1. /\ key \in Cached(cache) /\ Use(key) /\ latest' = latest
        /\ cache' = Touch(cache, key)
    BY DEF GetHit, AfterGet
  <1>2. /\ cache = [capacity |-> cache.capacity, map |-> cache.map, order |-> cache.order]
        /\ cache.map \in [Cached(cache) -> Values]
        /\ DOMAIN latest \subseteq Keys /\ latest \in [DOMAIN latest -> Values]
    BY DEF IInv, TypeOK, CacheOK
  <1>3. QED
    BY <1>1, <1>2, TouchedInv DEF IInv, HoldsLatestValue

LEMMA GetMissInv == ASSUME IInv, NEW key \in Keys, GetMiss(key) PROVE IInv'
  <1>1. UNCHANGED vars
    BY DEF GetMiss, AfterGet, vars
  <1>2. QED
    BY <1>1 DEF vars, IInv, TypeOK, CacheWellFormed, UsesBounded, OrderIsRecency,
        KeepsMostRecent, HoldsLatestValue

(***************************************************************************)
(* What put has in hand once it has made room for a new key: a cache with  *)
(* a free place, whose keys are the last used ones.                        *)
(***************************************************************************)
HasRoom(c) ==
    /\ c.capacity \in Capacities
    /\ c.order \in Seq(Keys)
    /\ c.map \in [Cached(c) -> Values]
    /\ c = [capacity |-> c.capacity, map |-> c.map, order |-> c.order]
    /\ Cached(c) \subseteq Keys
    /\ ToSet(c.order) = Cached(c)
    /\ Len(c.order) < c.capacity
    /\ InOrderOfUse(c.order, Len(c.order), lastUse)
    /\ \A kept \in Cached(c), gone \in Keys \ Cached(c) : lastUse[gone] < lastUse[kept]
    /\ \A k \in Cached(c) : k \in DOMAIN latest /\ c.map[k] = latest[k]

(* The recency list has as many elements as there are cached keys. *)
LEMMA OrderCounts ==
    ASSUME NEW S, NEW list \in Seq(S), IsInjective(list)
    PROVE  Cardinality(ToSet(list)) = Len(list)
  <1>1. Len(list) \in Nat /\ DOMAIN list = 1 .. Len(list)
    OBVIOUS
  <1>2. list \in Bijection(1 .. Len(list), ToSet(list))
    BY <1>1 DEF Bijection, Injection, Surjection, ToSet, IsInjective
  <1>3. QED
    BY <1>1, <1>2, FS_CountingElements DEF ExistsBijection

LEMMA MakeRoomFacts ==
    ASSUME IInv, cache.capacity # 0
    PROVE  /\ HasRoom(MakeRoom(cache))
           /\ MakeRoom(cache).capacity = cache.capacity
           /\ Cached(MakeRoom(cache)) \subseteq Cached(cache)
  <1> DEFINE old == cache.order
             n == Len(old)
  <1>1. /\ CacheOK(cache) /\ old \in Seq(Keys) /\ n \in Nat /\ DOMAIN old = 1 .. n
        /\ cache.capacity \in Nat /\ n <= cache.capacity
        /\ ToSet(old) = Cached(cache) /\ IsInjective(old)
        /\ lastUse \in [Keys -> Nat]
    BY TypeFacts DEF IInv, TypeOK, CacheOK, CacheWellFormed, WellFormed
  <1>2. InOrderOfUse(old, n, lastUse) /\ NoRepeat(old, n)
    BY <1>1 DEF IInv, OrderIsRecency, InOrderOfUse, NoRepeat, IsInjective
  <1>3. /\ \A kept \in Cached(cache), gone \in Keys \ Cached(cache) : lastUse[gone] < lastUse[kept]
        /\ \A k \in Cached(cache) : k \in DOMAIN latest /\ cache.map[k] = latest[k]
    BY DEF IInv, KeepsMostRecent, HoldsLatestValue
  <1>4. CASE ~(Full(cache) /\ old # <<>>)
    <2>1. MakeRoom(cache) = cache
      BY <1>4 DEF MakeRoom
    <2>2. n < cache.capacity
      <3>1. CASE old = <<>>
        BY <3>1, <1>1
      <3>2. CASE ~Full(cache)
        <4>1. Cardinality(Cached(cache)) = n
          BY <1>1, OrderCounts
        <4>2. QED
          BY <3>2, <4>1, <1>1 DEF Full
      <3>3. QED
        BY <3>1, <3>2, <1>4
    <2>3. QED
      BY <1>1, <1>2, <1>3, <2>1, <2>2 DEF HasRoom, CacheOK
  <1>5. CASE Full(cache) /\ old # <<>>
    <2> DEFINE left == Tail(old)
               lru == Head(old)
    <2>1. MakeRoom(cache) = [capacity |-> cache.capacity,
                             map |-> [k \in Cached(cache) \ {lru} |-> cache.map[k]],
                             order |-> left]
      BY <1>1, <1>5 DEF MakeRoom, EvictLru, CacheOK
    <2>2. /\ left \in Seq(Keys) /\ Len(left) = n - 1 /\ n >= 1 /\ lru = old[1]
          /\ \A i \in 1 .. n - 1 : left[i] = old[i + 1]
          /\ DOMAIN left = 1 .. n - 1
      BY <1>1, <1>5, HeadTailProperties
    <2> HIDE DEF left, lru
    <2>3. InOrderOfUse(left, n - 1, lastUse)
      <3>1. SUFFICES ASSUME NEW i \in 1 .. n - 1, NEW j \in 1 .. n - 1, i < j
                     PROVE  lastUse[left[i]] < lastUse[left[j]]
        BY DEF InOrderOfUse
      <3>2. i + 1 \in 1 .. n /\ j + 1 \in 1 .. n /\ i + 1 < j + 1
        BY <1>1, <3>1
      <3>3. lastUse[old[i + 1]] < lastUse[old[j + 1]]
        BY <1>2, <3>2 DEF InOrderOfUse
      <3>4. QED
        BY <2>2, <3>3
    <2>4. ToSet(left) = Cached(cache) \ {lru}
      <3>1. ToSet(left) = {left[i] : i \in 1 .. n - 1} /\ Cached(cache) = {old[i] : i \in 1 .. n}
        BY <1>1, <2>2 DEF ToSet
      <3>2. ASSUME NEW i \in 1 .. n - 1
            PROVE  left[i] \in Cached(cache) /\ left[i] # lru
        <4>1. i + 1 \in 1 .. n /\ i + 1 # 1 /\ 1 \in 1 .. n
          BY <1>1
        <4>2. old[i + 1] # old[1]
          BY <4>1, <1>2 DEF NoRepeat
        <4>3. QED
          BY <4>1, <4>2, <3>1, <2>2
      <3>3. ASSUME NEW i \in 1 .. n, old[i] # lru
            PROVE  old[i] \in ToSet(left)
        <4>1. i - 1 \in 1 .. n - 1 /\ (i - 1) + 1 = i
          BY <3>3, <2>2, <1>1
        <4>2. left[i - 1] = old[i]
          BY <4>1, <2>2
        <4>3. QED
          BY <4>1, <4>2, <3>1
      <3>4. \A x : x \in ToSet(left) => x \in Cached(cache) \ {lru}
        BY <3>1, <3>2
      <3>5. \A x : x \in Cached(cache) \ {lru} => x \in ToSet(left)
        BY <3>1, <3>3
      <3>6. QED
        BY <3>4, <3>5
    <2>5. /\ Cached(MakeRoom(cache)) = Cached(cache) \ {lru}
          /\ MakeRoom(cache).capacity = cache.capacity
          /\ MakeRoom(cache).order = left
          /\ MakeRoom(cache).map = [k \in Cached(cache) \ {lru} |-> cache.map[k]]
      BY <2>1 DEF Cached
    <2>6. ASSUME NEW kept \in Cached(cache) \ {lru}, NEW gone \in Keys \ (Cached(cache) \ {lru})
          PROVE  lastUse[gone] < lastUse[kept]
      <3>1. CASE gone # lru
        BY <3>1, <1>3
      <3>2. CASE gone = lru
        <4>1. PICK i \in 1 .. n : kept = old[i]
          BY <1>1 DEF ToSet
        <4>2. 1 \in 1 .. n /\ 1 < i
          BY <4>1, <2>2, <1>1
        <4>3. lastUse[old[1]] < lastUse[old[i]]
          BY <4>2, <1>2 DEF InOrderOfUse
        <4>4. QED
          BY <4>1, <4>3, <3>2, <2>2
      <3>3. QED
        BY <3>1, <3>2
    <2>7. MakeRoom(cache).map \in [Cached(cache) \ {lru} -> Values]
      BY <1>1, <2>5 DEF CacheOK
    <2>8. MakeRoom(cache) = [capacity |-> MakeRoom(cache).capacity,
                             map |-> MakeRoom(cache).map, order |-> MakeRoom(cache).order]
      BY <2>1
    <2>9. cache.capacity \in Capacities /\ Cached(cache) \subseteq Keys
      BY <1>1 DEF CacheOK
    <2>10. n - 1 < cache.capacity
      BY <1>1
    <2>11. \A k \in Cached(cache) \ {lru} :
              k \in DOMAIN latest /\ MakeRoom(cache).map[k] = latest[k]
      BY <1>3, <2>5
    <2>12. HasRoom(MakeRoom(cache))
      BY <2>2, <2>3, <2>4, <2>5, <2>6, <2>7, <2>8, <2>9, <2>10, <2>11 DEF HasRoom
    <2>13. QED
      BY <2>5, <2>12
  <1>6. QED
    BY <1>4, <1>5

(* Adding a key to a cache with room for it restores the invariant. *)
LEMMA AddedInv ==
    ASSUME IInv, NEW c, HasRoom(c), NEW key \in Keys \ Cached(c), NEW value \in Values,
           Use(key), cache' = AddNew(c, key, value),
           latest' = [k \in DOMAIN latest \cup {key} |-> IF k = key THEN value ELSE latest[k]]
    PROVE  IInv'
  <1> DEFINE old == c.order
             new == Append(old, key)
             n == Len(old)
  <1>1. /\ lastUse \in [Keys -> Nat] /\ TypeOK /\ UsesBounded
        /\ old \in Seq(Keys) /\ n \in Nat /\ key \in Keys /\ DOMAIN old = 1 .. n
        /\ Cached(c) \subseteq Keys /\ c.capacity \in Nat /\ n < c.capacity
        /\ ToSet(old) = Cached(c)
    BY TypeFacts DEF IInv, HasRoom
  <1>2. /\ Cached(cache') = Cached(c) \cup {key}
        /\ cache'.order = new /\ cache'.capacity = c.capacity
        /\ cache'.map = [k \in Cached(c) \cup {key} |-> IF k = key THEN value ELSE c.map[k]]
        /\ cache' = [capacity |-> cache'.capacity, map |-> cache'.map, order |-> cache'.order]
    <2>1. c = [capacity |-> c.capacity, map |-> c.map, order |-> c.order]
      BY DEF HasRoom
    <2>2. cache' = [capacity |-> c.capacity,
                    map |-> [k \in Cached(c) \cup {key} |-> IF k = key THEN value ELSE c.map[k]],
                    order |-> new]
      BY <2>1 DEF AddNew, Insert
    <2>3. QED
      BY <2>2 DEF Cached
  <1>3. /\ new \in Seq(Keys) /\ Len(new) = n + 1 /\ new[n + 1] = key
        /\ \A i \in 1 .. n : new[i] = old[i]
        /\ DOMAIN new = 1 .. n + 1
    BY <1>1, AppendProperties
  <1>4. InOrderOfUse(old, n, lastUse)
    BY DEF HasRoom
  <1> HIDE DEF old, new, n
  <1>5. InOrderOfUse(new, n, lastUse)
    BY <1>3, <1>4 DEF InOrderOfUse
  <1>6. \A i \in 1 .. n : old[i] \in Cached(c)
    BY <1>1 DEF ToSet
  <1>7. Absent(new, n, key)
    BY <1>3, <1>6 DEF Absent
  <1>8. /\ clock' \in Nat /\ lastUse' \in [Keys -> Nat] /\ UsesBounded'
        /\ UsedLast(lastUse, lastUse', Keys, key)
    BY <1>1, UseFacts DEF UsedLast
  <1>9. InOrderOfUse(new, n + 1, lastUse') /\ IsInjective(new)
    <2>1. /\ n + 1 \in Nat /\ n + 1 = Len(new) /\ n + 1 >= 1 /\ (n + 1) - 1 = n
          /\ new \in Seq(Keys) /\ new[n + 1] = key
      BY <1>1, <1>3
    <2>2. Absent(new, (n + 1) - 1, key) /\ InOrderOfUse(new, (n + 1) - 1, lastUse)
      BY <2>1, <1>5, <1>7
    <2> DEFINE m == n + 1
    <2>3. /\ m \in Nat /\ m = Len(new) /\ m >= 1 /\ new \in Seq(Keys) /\ new[m] = key
          /\ Absent(new, m - 1, key) /\ InOrderOfUse(new, m - 1, lastUse)
      BY <2>1, <2>2
    <2> HIDE DEF m
    <2>4. InOrderOfUse(new, m, lastUse') /\ IsInjective(new)
      BY <1>1, <1>8, <2>3, FreshLast
    <2>5. QED
      BY <2>4 DEF m
  <1>10. ToSet(new) = Cached(c) \cup {key}
    <2>1. ToSet(new) = {new[i] : i \in 1 .. n + 1} /\ Cached(c) = {old[i] : i \in 1 .. n}
      BY <1>1, <1>3 DEF ToSet
    <2>2. n + 1 \in 1 .. n + 1 /\ \A i \in 1 .. n : i \in 1 .. n + 1
      BY <1>1
    <2>3. \A i \in 1 .. n + 1 : i = n + 1 \/ i \in 1 .. n
      BY <1>1
    <2>4. \A x : x \in ToSet(new) => x \in Cached(c) \cup {key}
      BY <2>1, <2>3, <1>3
    <2>5. \A x : x \in Cached(c) \cup {key} => x \in ToSet(new)
      BY <2>1, <2>2, <1>3
    <2>6. QED
      BY <2>4, <2>5
  <1>11. TypeOK'
    <2>1. cache'.map \in [Cached(cache') -> Values]
      BY <1>2 DEF HasRoom
    <2>2. CacheOK(cache')
      BY <1>1, <1>2, <1>3, <2>1 DEF CacheOK, HasRoom
    <2>3. DOMAIN latest' \subseteq Keys /\ latest' \in [DOMAIN latest' -> Values]
      BY <1>1 DEF TypeOK
    <2>4. QED
      BY <1>8, <2>2, <2>3 DEF TypeOK, CacheOK
  <1>12. CacheWellFormed'
    BY <1>1, <1>2, <1>3, <1>9, <1>10 DEF CacheWellFormed, WellFormed
  <1>13. KeepsMostRecent'
    <2>1. ASSUME NEW kept \in Cached(c) \cup {key}, NEW gone \in Keys \ (Cached(c) \cup {key})
          PROVE  lastUse'[gone] < lastUse'[kept]
      <3>1. CASE kept = key
        BY <3>1, <1>8 DEF UsedLast
      <3>2. CASE kept # key
        BY <3>2, <1>1, <1>8 DEF HasRoom, UsedLast
      <3>3. QED
        BY <3>1, <3>2
    <2>2. QED
      BY <2>1, <1>2 DEF KeepsMostRecent
  <1>14. HoldsLatestValue'
    BY <1>2 DEF HoldsLatestValue, HasRoom
  <1>15. OrderIsRecency'
    BY <1>2, <1>3, <1>9 DEF OrderIsRecency, InOrderOfUse
  <1>16. QED
    BY <1>8, <1>11, <1>12, <1>13, <1>14, <1>15 DEF IInv

LEMMA PutValueInv ==
    ASSUME IInv, NEW key \in Keys, NEW value \in Values, PutValue(key, value)
    PROVE  IInv'
  <1>1. /\ cache' = Put(cache, key, value) /\ Use(key)
        /\ latest' = [k \in DOMAIN latest \cup {key} |->
                        IF k = key THEN value ELSE latest[k]]
    BY DEF PutValue
  <1>2. /\ CacheOK(cache) /\ TypeOK /\ UsesBounded
        /\ DOMAIN latest \subseteq Keys /\ latest \in [DOMAIN latest -> Values]
    BY DEF IInv, TypeOK
  <1>3. DOMAIN latest' \subseteq Keys /\ latest' \in [DOMAIN latest' -> Values]
    BY <1>1, <1>2
  <1>4. CASE cache.capacity = 0
    <2>1. cache' = cache
      BY <1>1, <1>4 DEF Put
    <2>2. Cached(cache) = {} /\ DOMAIN cache.order = {}
      <3>1. Len(cache.order) = 0 /\ DOMAIN cache.order = 1 .. Len(cache.order)
        BY <1>4, TypeFacts DEF IInv, CacheWellFormed, WellFormed
      <3>2. QED
        BY <3>1 DEF IInv, CacheWellFormed, WellFormed, ToSet
    <2>3. clock' \in Nat /\ lastUse' \in [Keys -> Nat] /\ UsesBounded'
      BY <1>1, <1>2, UseFacts
    <2>4. TypeOK' /\ CacheWellFormed'
      BY <1>2, <1>3, <2>1, <2>3 DEF IInv, TypeOK, CacheOK, CacheWellFormed
    <2>5. OrderIsRecency' /\ KeepsMostRecent' /\ HoldsLatestValue'
      BY <2>1, <2>2 DEF OrderIsRecency, KeepsMostRecent, HoldsLatestValue
    <2>6. QED
      BY <2>3, <2>4, <2>5 DEF IInv
  <1>5. CASE cache.capacity # 0 /\ key \in Cached(cache)
    <2> DEFINE c == Insert(cache, key, value)
    <2>1. cache' = Touch(c, key)
      BY <1>1, <1>5 DEF Put
    <2>2. /\ c = [capacity |-> cache.capacity,
                  map |-> [k \in Cached(cache) |-> IF k = key THEN value ELSE cache.map[k]],
                  order |-> cache.order]
      BY <1>2, <1>5 DEF Insert, CacheOK
    <2> HIDE DEF c
    <2>3. /\ c.order = cache.order /\ c.capacity = cache.capacity /\ Cached(c) = Cached(cache)
          /\ c = [capacity |-> c.capacity, map |-> c.map, order |-> c.order]
          /\ c.map \in [Cached(c) -> Values]
      BY <1>2, <2>2 DEF Cached, CacheOK
    <2>4. \A k \in Cached(c) : k \in DOMAIN latest' /\ c.map[k] = latest'[k]
      BY <1>1, <2>2, <2>3 DEF IInv, HoldsLatestValue
    <2>5. QED
      BY <1>1, <1>3, <1>5, <2>1, <2>3, <2>4, TouchedInv
  <1>6. CASE cache.capacity # 0 /\ key \notin Cached(cache)
    <2>1. cache' = AddNew(MakeRoom(cache), key, value)
      BY <1>1, <1>6 DEF Put
    <2>2. HasRoom(MakeRoom(cache)) /\ key \in Keys \ Cached(MakeRoom(cache))
      BY <1>6, MakeRoomFacts
    <2>3. QED
      BY <1>1, <2>1, <2>2, AddedInv
  <1>7. QED
    BY <1>4, <1>5, <1>6

(* The invariant holds in every state of every behaviour. *)
THEOREM Invariance == Spec => []IInv
  <1>1. ASSUME IInv, [Next]_vars PROVE IInv'
    <2>1. CASE UNCHANGED vars
      BY <1>1, <2>1 DEF vars, IInv, TypeOK, CacheWellFormed, UsesBounded, OrderIsRecency,
          KeepsMostRecent, HoldsLatestValue
    <2>2. CASE Next
      BY <1>1, <2>2, GetHitInv, GetMissInv, PutValueInv DEF Next
    <2>3. QED
      BY <1>1, <2>1, <2>2
  <1>2. QED
    BY InitInv, <1>1, PTL DEF Spec

(* Map and recency list agree, and the bound holds, in every state (get, put). *)
THEOREM WellFormedness == Spec => []CacheWellFormed
  <1>1. IInv => CacheWellFormed
    BY DEF IInv
  <1>2. QED
    BY Invariance, <1>1, PTL

(* Whatever is evicted was used less recently than everything kept (put). *)
THEOREM EvictionByRecency == Spec => []KeepsMostRecent
  <1>1. IInv => KeepsMostRecent
    BY DEF IInv
  <1>2. QED
    BY Invariance, <1>1, PTL

(* A hit returns the value stored last under its key (get, put). *)
THEOREM NoStaleValue == Spec => []HoldsLatestValue
  <1>1. IInv => HoldsLatestValue
    BY DEF IInv
  <1>2. QED
    BY Invariance, <1>1, PTL

-----------------------------------------------------------------------------
(***************************************************************************)
(* Only a full cache has lost a key it was used with.                      *)
(***************************************************************************)
UsedKeys == {k \in Keys : lastUse[k] > 0}

Filled ==
    /\ IsFiniteSet(UsedKeys)
    /\ Cached(cache) \subseteq UsedKeys
    /\ Cached(cache) = UsedKeys \/ Cardinality(Cached(cache)) = cache.capacity

LEMMA UsedGrow ==
    ASSUME TypeOK, NEW key \in Keys, Use(key)
    PROVE  UsedKeys' = UsedKeys \cup {key}
  <1>1. /\ lastUse' \in [Keys -> Nat] /\ lastUse'[key] = clock + 1
        /\ \A k \in Keys : k # key => lastUse'[k] = lastUse[k]
        /\ clock \in Nat
    BY DEF TypeOK, Use
  <1>2. QED
    BY <1>1 DEF UsedKeys

(* What a cache holds after a touch, an insertion and an eviction. *)
LEMMA CachedAfter ==
    ASSUME NEW c, c = [capacity |-> c.capacity, map |-> c.map, order |-> c.order],
           NEW key, NEW value
    PROVE  /\ Cached(Touch(c, key)) = Cached(c) /\ Touch(c, key).capacity = c.capacity
           /\ Insert(c, key, value) = [capacity |-> c.capacity,
                                       map |-> Insert(c, key, value).map, order |-> c.order]
           /\ Cached(Insert(c, key, value)) = Cached(c) \cup {key}
           /\ Cached(AddNew(c, key, value)) = Cached(c) \cup {key}
           /\ AddNew(c, key, value).capacity = c.capacity
           /\ EvictLru(c) = [capacity |-> c.capacity, map |-> EvictLru(c).map,
                             order |-> EvictLru(c).order]
           /\ Cached(EvictLru(c)) = Cached(c) \ {Head(c.order)}
  <1> DEFINE m == [k \in Cached(c) \cup {key} |-> IF k = key THEN value ELSE c.map[k]]
             e == [k \in Cached(c) \ {Head(c.order)} |-> c.map[k]]
  <1>1. DOMAIN m = Cached(c) \cup {key} /\ DOMAIN e = Cached(c) \ {Head(c.order)}
    OBVIOUS
  <1>2. Insert(c, key, value) = [c EXCEPT !.map = m]
    BY DEF Insert
  <1>3. AddNew(c, key, value) = [Insert(c, key, value) EXCEPT !.order = Append(c.order, key)]
    BY DEF AddNew
  <1>4. EvictLru(c) = [capacity |-> c.capacity, map |-> e, order |-> Tail(c.order)]
    BY DEF EvictLru
  <1> HIDE DEF m, e
  <1>5. Insert(c, key, value) = [capacity |-> c.capacity, map |-> m, order |-> c.order]
    BY <1>2
  <1>6. AddNew(c, key, value) = [capacity |-> c.capacity, map |-> m,
                                 order |-> Append(c.order, key)]
    <2> DEFINE d == Insert(c, key, value)
               o == Append(c.order, key)
    <2>1. AddNew(c, key, value) = [d EXCEPT !.order = o]
      BY <1>3
    <2>2. d = [capacity |-> c.capacity, map |-> m, order |-> c.order]
      BY <1>5
    <2> HIDE DEF d, o
    <2>3. AddNew(c, key, value) = [capacity |-> c.capacity, map |-> m, order |-> o]
      BY <2>1, <2>2
    <2>4. QED
      BY <2>3 DEF o
  <1>7. Cached(Touch(c, key)) = Cached(c) /\ Touch(c, key).capacity = c.capacity
    <2>1. \A o : LET d == [c EXCEPT !.order = o] IN d.map = c.map /\ d.capacity = c.capacity
      OBVIOUS
    <2>2. QED
      BY <2>1 DEF Touch, Cached
  <1>8. QED
    BY <1>1, <1>4, <1>5, <1>6, <1>7 DEF Cached

(* A put of a new key fills a free place, or takes the place of one key.   *)
LEMMA NewKeyFills ==
    ASSUME IInv, Filled, NEW key \in Keys \ Cached(cache), NEW value,
           cache.capacity # 0, cache' = AddNew(MakeRoom(cache), key, value), Use(key)
    PROVE  Filled'
  <1>1. /\ TypeOK /\ cache.capacity \in Nat
        /\ cache.order \in Seq(Keys) /\ Len(cache.order) \in Nat
        /\ cache = [capacity |-> cache.capacity, map |-> cache.map, order |-> cache.order]
        /\ IsInjective(cache.order) /\ ToSet(cache.order) = Cached(cache)
        /\ Len(cache.order) <= cache.capacity
    BY TypeFacts DEF IInv, CacheWellFormed, WellFormed
  <1>2. Cardinality(Cached(cache)) = Len(cache.order)
    BY <1>1, OrderCounts
  <1>3. UsedKeys' = UsedKeys \cup {key} /\ IsFiniteSet(UsedKeys')
    BY <1>1, UsedGrow, FS_AddElement DEF Filled
  <1>4. IsFiniteSet(Cached(cache))
    BY FS_Subset DEF Filled
  <1>5. CASE Full(cache) /\ cache.order # <<>>
    <2> DEFINE gone == Head(cache.order)
               left == Cached(cache) \ {gone}
    <2>1. MakeRoom(cache) = EvictLru(cache)
      BY <1>5 DEF MakeRoom
    <2>2. Cached(cache') = left \cup {key} /\ cache'.capacity = cache.capacity
      BY <1>1, <2>1, CachedAfter
    <2>3. gone \in Cached(cache)
      <3>1. Len(cache.order) # 0
        BY <1>1, <1>5, EmptySeq
      <3>2. 1 \in DOMAIN cache.order /\ gone = cache.order[1]
        BY <1>1, <3>1
      <3>3. QED
        BY <1>1, <3>2 DEF ToSet
    <2>4. Cardinality(Cached(cache)) = cache.capacity
      BY <1>1, <1>2, <1>5 DEF Full
    <2>5. IsFiniteSet(left) /\ Cardinality(left) = cache.capacity - 1
      BY <1>4, <2>3, <2>4, FS_RemoveElement
    <2>6. Cardinality(left \cup {key}) = Cardinality(left) + 1
      BY <2>5, FS_AddElement
    <2>7. Cardinality(Cached(cache')) = cache'.capacity
      BY <1>1, <2>2, <2>5, <2>6
    <2>8. Cached(cache') \subseteq UsedKeys'
      BY <1>3, <2>2 DEF Filled
    <2>9. QED
      BY <1>3, <2>7, <2>8 DEF Filled
  <1>6. CASE ~(Full(cache) /\ cache.order # <<>>)
    <2>1. MakeRoom(cache) = cache
      BY <1>6 DEF MakeRoom
    <2>2. Cached(cache') = Cached(cache) \cup {key}
      BY <1>1, <2>1, CachedAfter
    <2>3. Cardinality(Cached(cache)) # cache.capacity
      <3>1. CASE ~Full(cache)
        BY <1>1, <1>2, <3>1 DEF Full
      <3>2. CASE cache.order = <<>>
        <4>1. Len(cache.order) = 0
          BY <3>2
        <4>2. QED
          BY <1>2, <4>1
      <3>3. QED
        BY <1>6, <3>1, <3>2
    <2>4. QED
      BY <1>3, <2>2, <2>3 DEF Filled
  <1>7. QED
    BY <1>5, <1>6

LEMMA PutFills ==
    ASSUME IInv, Filled, NEW key \in Keys, NEW value \in Values, PutValue(key, value)
    PROVE  Filled'
  <1>1. /\ cache' = Put(cache, key, value) /\ Use(key) /\ TypeOK
        /\ cache = [capacity |-> cache.capacity, map |-> cache.map, order |-> cache.order]
    BY TypeFacts DEF PutValue, IInv
  <1>2. UsedKeys' = UsedKeys \cup {key} /\ IsFiniteSet(UsedKeys')
    BY <1>1, UsedGrow, FS_AddElement DEF Filled
  <1>3. CASE cache.capacity = 0
    <2>1. cache' = cache
      BY <1>1, <1>3 DEF Put
    <2>2. Len(cache.order) = 0 /\ cache.order \in Seq(Keys)
      BY <1>3, TypeFacts DEF IInv, CacheWellFormed, WellFormed
    <2>3. Cardinality(Cached(cache)) = 0
      BY <2>2, OrderCounts DEF IInv, CacheWellFormed, WellFormed
    <2>4. QED
      BY <1>2, <1>3, <2>1, <2>3 DEF Filled
  <1>4. CASE cache.capacity # 0 /\ key \in Cached(cache)
    <2>1. cache' = Touch(Insert(cache, key, value), key)
      BY <1>1, <1>4 DEF Put
    <2> DEFINE c == Insert(cache, key, value)
    <2>2. /\ c = [capacity |-> cache.capacity, map |-> c.map, order |-> cache.order]
          /\ Cached(c) = Cached(cache) \cup {key}
      BY <1>1, CachedAfter
    <2> HIDE DEF c
    <2>3. /\ c = [capacity |-> c.capacity, map |-> c.map, order |-> c.order]
          /\ c.capacity = cache.capacity
      BY <2>2
    <2>4. Cached(cache') = Cached(c) /\ cache'.capacity = c.capacity
      BY <2>1, <2>3, CachedAfter DEF c
    <2>5. Cached(cache') = Cached(cache) /\ cache'.capacity = cache.capacity
      BY <1>4, <2>2, <2>3, <2>4
    <2>6. UsedKeys' = UsedKeys
      BY <1>2, <1>4 DEF Filled
    <2>7. QED
      BY <1>2, <2>5, <2>6 DEF Filled
  <1>5. CASE cache.capacity # 0 /\ key \notin Cached(cache)
    BY <1>1, <1>5, NewKeyFills DEF Put
  <1>6. QED
    BY <1>3, <1>4, <1>5

(* Nothing is evicted before it must be: the cache holds as many of the    *)
(* keys ever used as its capacity allows (cache.rs, put).                  *)
THEOREM EvictionIsLazy == Spec => []EvictsOnlyWhenFull
  <1>1. Init => Filled
    <2> SUFFICES ASSUME Init PROVE Filled
      OBVIOUS
    <2>1. Cached(cache) = {}
      BY DEF Init, NewCache, Cached
    <2>2. UsedKeys = {}
      BY DEF Init, UsedKeys
    <2>3. QED
      BY <2>1, <2>2, FS_EmptySet DEF Filled
  <1>2. ASSUME IInv, Filled, [Next]_vars PROVE Filled'
    <2>1. CASE UNCHANGED <<cache, lastUse>>
      BY <1>2, <2>1 DEF Filled, UsedKeys
    <2>2. ASSUME NEW key \in Keys, GetHit(key) PROVE Filled'
      <3>1. /\ key \in Cached(cache) /\ Use(key) /\ TypeOK
            /\ cache = [capacity |-> cache.capacity, map |-> cache.map, order |-> cache.order]
            /\ cache' = Touch(cache, key)
        BY <1>2, <2>2, TypeFacts DEF GetHit, AfterGet, IInv
      <3>2. Cached(cache') = Cached(cache) /\ cache'.capacity = cache.capacity
        BY <3>1, CachedAfter
      <3>3. UsedKeys' = UsedKeys
        BY <1>2, <3>1, UsedGrow DEF Filled
      <3>4. QED
        BY <1>2, <3>2, <3>3 DEF Filled
    <2>3. ASSUME NEW key \in Keys, GetMiss(key) PROVE Filled'
      BY <2>1, <2>3 DEF GetMiss, AfterGet
    <2>4. ASSUME NEW key \in Keys, NEW value \in Values, PutValue(key, value) PROVE Filled'
      BY <1>2, <2>4, PutFills
    <2>5. QED
      BY <1>2, <2>1, <2>2, <2>3, <2>4 DEF Next, vars
  <1>3. ASSUME IInv, Filled PROVE EvictsOnlyWhenFull
    <2> DEFINE n == Cardinality(Cached(cache))
               u == Cardinality(UsedKeys)
    <2>1. n = Len(cache.order) /\ n <= cache.capacity /\ n \in Nat /\ cache.capacity \in Nat
      <3>1. cache.order \in Seq(Keys) /\ Len(cache.order) \in Nat /\ cache.capacity \in Nat
        BY <1>3, TypeFacts DEF IInv
      <3>2. QED
        BY <1>3, <3>1, OrderCounts DEF IInv, CacheWellFormed, WellFormed
    <2>2. n <= u /\ u \in Nat
      BY <1>3, FS_Subset, FS_CardinalityType DEF Filled
    <2>3. n = u \/ n = cache.capacity
      BY <1>3 DEF Filled
    <2> HIDE DEF n, u
    <2>4. n \in {u, cache.capacity} /\ \A y \in {u, cache.capacity} : n <= y
      BY <2>1, <2>2, <2>3
    <2>5. \A x \in {u, cache.capacity} :
            (\A y \in {u, cache.capacity} : x <= y) => x = n
      BY <2>1, <2>2, <2>4
    <2>6. Min({u, cache.capacity}) = n
      BY <2>4, <2>5 DEF Min
    <2>7. QED
      BY <2>6 DEF EvictsOnlyWhenFull, UsedKeys, n, u
  <1>4. QED
    BY Invariance, <1>1, <1>2, <1>3, PTL DEF Spec
=============================================================================
