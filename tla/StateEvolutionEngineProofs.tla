--------------------- MODULE StateEvolutionEngineProofs ---------------------
(***************************************************************************)
(* Proofs about StateEvolutionEngine, for every set of states (infinite    *)
(* ones such as the positive integers included), every system, every hash  *)
(* function and every iteration limit.                                     *)
(***************************************************************************)
EXTENDS StateEvolutionEngine, TLAPS

USE LimitsAssumption, BadInputAssumption, NoTrajectoryAssumption

(* What Return publishes is a trajectory, never the NoTrajectory marker. *)
LEMMA AssembleType ==
    ASSUME NEW status \in Statuses,
           NEW states \in Seq(States \cup {BadInput}), states # <<>>,
           NEW cycle \in SUBSET CycleInfo
    PROVE  /\ Assemble(status, states, cycle) \in Trajectories
           /\ Assemble(status, states, cycle) # NoTrajectory
  <1>1. IterationCount(states) \in Nat
    BY DEF IterationCount
  <1>2. Assemble(status, states, cycle) \in Trajectories
    BY <1>1 DEF Assemble, Trajectories
  <1>3. QED
    BY <1>2

LEMMA AppendFacts ==
    ASSUME NEW S, NEW b \in Seq(S), NEW e \in S
    PROVE  /\ Append(b, e) \in Seq(S)
           /\ DOMAIN b = 1 .. Len(b) /\ Len(b) \in Nat
           /\ DOMAIN Append(b, e) = 1 .. Len(b) + 1
           /\ \A i \in 1 .. Len(b) : Append(b, e)[i] = b[i]
           /\ Append(b, e)[Len(b) + 1] = e
  OBVIOUS

(* The initial predicate establishes the invariant. *)
LEMMA InitInv == Init => IInv
  <1> SUFFICES ASSUME Init PROVE IInv
    OBVIOUS
  <1>1. TypeOK
    BY DEF Init, TypeOK
  <1>2. LoopInv /\ LimitInv /\ TrackerMirrorsHistory /\ ResultInv
    BY DEF Init, LoopInv, InLoop, LimitInv, TrackerMirrorsHistory, ResultInv
  <1>3. QED
    BY <1>1, <1>2 DEF IInv

LEMMA RejectInputInv == IInv /\ RejectInput => IInv'
  <1> SUFFICES ASSUME IInv, RejectInput PROVE IInv'
    OBVIOUS
  <1>1. /\ <<input>> \in Seq(States \cup {BadInput})
        /\ <<input>> # <<>>
    BY DEF IInv, TypeOK
  <1>2. result' \in Trajectories /\ result' # NoTrajectory
    BY <1>1, AssembleType DEF RejectInput, Return, Statuses
  <1>3. TypeOK'
    BY <1>2 DEF IInv, TypeOK, RejectInput, Return
  <1>4. Contract!ValidTrajectory(result)'
    BY <1>1 DEF RejectInput, Return, Assemble, IterationCount,
                Contract!ValidTrajectory, Contract!IsRejection
  <1>5. ResultInv'
    BY <1>2, <1>4 DEF ResultInv, RejectInput, Return
  <1>6. (LoopInv /\ LimitInv /\ TrackerMirrorsHistory)'
    BY DEF IInv, ResultInv, RejectInput, Return, LoopInv, InLoop, LimitInv, TrackerMirrorsHistory
  <1>7. QED
    BY <1>3, <1>5, <1>6 DEF IInv

LEMMA AcceptInputInv == IInv /\ AcceptInput => IInv'
  <1> SUFFICES ASSUME IInv, AcceptInput PROVE IInv'
    OBVIOUS
  <1>1. /\ input \in States
        /\ history' = <<input>>
        /\ pc = "validate" /\ pc' = "generate"
        /\ UNCHANGED <<sys, input, limit, result>>
        /\ buckets' = NewTracker(input)
    BY DEF AcceptInput
  <1>2. /\ sys \in Systems
        /\ sys.state_hash[input] \in Hashes
    BY <1>1 DEF IInv, TypeOK, Systems
  <1>3. TypeOK'
    <2>1. [index |-> 0, state |-> input] \in Entry
      BY <1>1 DEF Entry
    <2>2. <<[index |-> 0, state |-> input]>> \in Seq(Entry) /\ <<>> \in Seq(Entry)
      BY <2>1
    <2>3. buckets' \in [Hashes -> Seq(Entry)]
      BY <1>1, <2>2 DEF NewTracker
    <2>4. history' \in Seq(States)
      BY <1>1
    <2>5. QED
      BY <1>1, <2>3, <2>4 DEF IInv, TypeOK
  <1>4. LoopInv'
    BY <1>1 DEF LoopInv, Settled, Contract!IsOrbit
  <1>5. LimitInv'
    BY <1>1 DEF LimitInv, Continued
  <1>6. TrackerMirrorsHistory'
    <2>1. /\ Settled' = 1
          /\ history'[1] = input
      BY <1>1 DEF Settled
    <2>2. ASSUME NEW h \in Hashes, NEW i \in DOMAIN buckets'[h]
          PROVE  /\ h = sys.state_hash[input]
                 /\ buckets'[h][i] = [index |-> 0, state |-> input]
      BY <1>1, <2>2 DEF NewTracker
    <2>3. buckets'[sys.state_hash[input]] = <<[index |-> 0, state |-> input]>>
      BY <1>1, <1>2 DEF NewTracker
    <2>4. \A k \in 1 .. 1 : \E i \in DOMAIN buckets'[sys.state_hash[history'[k]]] :
              buckets'[sys.state_hash[history'[k]]][i]
                  = [index |-> k - 1, state |-> history'[k]]
      BY <2>1, <2>3
    <2>5. \A h \in Hashes : \A i \in DOMAIN buckets'[h] :
              LET e == buckets'[h][i]
              IN /\ e.index + 1 \in 1 .. 1
                 /\ e.state = history'[e.index + 1]
                 /\ h = sys.state_hash[e.state]
      BY <2>1, <2>2
    <2>6. QED
      BY <1>1, <2>1, <2>4, <2>5 DEF TrackerMirrorsHistory, Bucket
  <1>7. ResultInv'
    BY <1>1 DEF IInv, ResultInv
  <1>8. QED
    BY <1>3, <1>4, <1>5, <1>6, <1>7 DEF IInv

LEMMA GenerateNextInv == IInv /\ GenerateNext => IInv'
  <1> SUFFICES ASSUME IInv, GenerateNext PROVE IInv'
    OBVIOUS
  <1> DEFINE next == sys.transition[Current(history)]
  <1>1. /\ pc = "generate" /\ pc' = "convergence"
        /\ history' = Append(history, next)
        /\ UNCHANGED <<sys, input, limit, buckets, result>>
    BY DEF GenerateNext
  <1>2. /\ history \in Seq(States) /\ Len(history) >= 1 /\ Len(history) \in Nat
        /\ sys \in Systems /\ input \in States
        /\ Contract!IsOrbit(history)
    BY <1>1 DEF IInv, TypeOK, LoopInv, InLoop
  <1>3. next \in States
    BY <1>2 DEF Systems, Current
  <1>4. /\ history' \in Seq(States)
        /\ Len(history') = Len(history) + 1
        /\ history'[Len(history')] = next
        /\ \A k \in 1 .. Len(history) : history'[k] = history[k]
    BY <1>1, <1>2, <1>3
  <1>5. TypeOK'
    BY <1>1, <1>4 DEF IInv, TypeOK
  <1>6. Settled' = Settled /\ Settled = Len(history)
    BY <1>1, <1>2, <1>4 DEF Settled
  <1>7. LoopInv'
    <2>1. Contract!IsOrbit(history)'
      <3>1. history'[1] = input'
        BY <1>1, <1>2, <1>4 DEF Contract!IsOrbit
      <3>2. ASSUME NEW i \in 1 .. Len(history') - 1
            PROVE  history'[i + 1] = sys'.transition[history'[i]]
        <4>1. CASE i = Len(history)
          BY <4>1, <1>1, <1>2, <1>4 DEF Current
        <4>2. CASE i # Len(history)
          BY <4>2, <1>1, <1>2, <1>4 DEF Contract!IsOrbit
        <4>3. QED
          BY <4>1, <4>2
      <3>3. QED
        BY <3>1, <3>2, <1>2, <1>4 DEF Contract!IsOrbit
    <2>2. ASSUME NEW k \in 2 .. Len(history)
          PROVE  /\ ~Contract!Converges(history, k)'
                 /\ ~Contract!Revisits(history, k)'
      <3>1. ~Contract!Converges(history, k) /\ ~Contract!Revisits(history, k)
        BY <1>1, <1>6 DEF IInv, LoopInv, InLoop
      <3>2. QED
        BY <3>1, <1>1, <1>2, <1>4 DEF Contract!Converges, Contract!Revisits
    <2>3. QED
      BY <1>1, <1>2, <1>4, <1>6, <2>1, <2>2 DEF LoopInv, InLoop
  <1>8. LimitInv'
    BY <1>1, <1>2, <1>4 DEF IInv, LimitInv, Continued, Contract!Exhausts
  <1>9. TrackerMirrorsHistory'
    <2>1. TrackerMirrorsHistory /\ InLoop
      BY <1>1 DEF IInv, InLoop
    <2>2. ASSUME NEW h \in Hashes, NEW i \in DOMAIN buckets[h]
          PROVE  LET e == buckets[h][i]
                 IN /\ e.index + 1 \in 1 .. Settled'
                    /\ e.state = history'[e.index + 1]
                    /\ h = sys.state_hash[e.state]
      BY <2>1, <1>1, <1>4, <1>6 DEF TrackerMirrorsHistory
    <2>3. ASSUME NEW k \in 1 .. Settled'
          PROVE  \E i \in DOMAIN buckets[sys.state_hash[history'[k]]] :
                    buckets[sys.state_hash[history'[k]]][i]
                        = [index |-> k - 1, state |-> history'[k]]
      BY <2>1, <1>1, <1>4, <1>6 DEF TrackerMirrorsHistory, Bucket
    <2>4. QED
      BY <1>1, <2>2, <2>3 DEF TrackerMirrorsHistory, Bucket
  <1>10. ResultInv'
    BY <1>1 DEF IInv, ResultInv
  <1>11. QED
    BY <1>5, <1>7, <1>8, <1>9, <1>10 DEF IInv

(* A trajectory returned from inside the loop obeys the contract as soon as *)
(* its status and cycle information do.                                     *)
LEMMA ReturnInv ==
    ASSUME IInv, pc \in {"convergence", "cycle", "limit"},
           NEW status \in Statuses, NEW cycle \in SUBSET CycleInfo,
           Return(status, history, cycle),
           UNCHANGED <<sys, input, limit, history, buckets>>,
           Contract!IsVerdict(Assemble(status, history, cycle))
    PROVE  IInv'
  <1> DEFINE t == Assemble(status, history, cycle)
  <1>1. /\ result' = t /\ pc' = "done"
        /\ UNCHANGED <<sys, input, limit, history, buckets>>
    BY DEF Return
  <1>2. /\ history \in Seq(States) /\ Len(history) >= 2 /\ Len(history) \in Nat
        /\ input \in States /\ Contract!IsOrbit(history)
    BY DEF IInv, TypeOK, LoopInv, InLoop
  <1>3. history \in Seq(States \cup {BadInput}) /\ history # <<>>
    BY <1>2
  <1>4. t \in Trajectories /\ t # NoTrajectory
    BY <1>3, AssembleType
  <1>5. TypeOK'
    BY <1>1, <1>4 DEF IInv, TypeOK
  <1>6. /\ t.state_sequence = history
        /\ t.iteration_count = Len(history) - 1
    BY DEF Assemble, IterationCount
  <1>7. Contract!Unresolved(history)
    <2>1. ASSUME NEW k \in 2 .. Len(history) - 1
          PROVE  /\ ~Contract!Converges(history, k) /\ ~Contract!Revisits(history, k)
                 /\ ~Contract!Exhausts(k)
      <3>1. k \in 2 .. Settled /\ k \in 2 .. Continued
        BY <1>2 DEF Settled, Continued
      <3>2. QED
        BY <3>1, <1>3 DEF IInv, LoopInv, InLoop, LimitInv
    <2>2. QED
      BY <2>1 DEF Contract!Unresolved
  <1>8. Contract!ValidTrajectory(t)
    BY <1>2, <1>6, <1>7 DEF Contract!ValidTrajectory
  <1>9. Contract!ValidTrajectory(result)'
    BY <1>1, <1>8 DEF Contract!ValidTrajectory, Contract!IsRejection, Contract!IsOrbit,
        Contract!Unresolved, Contract!IsVerdict, Contract!Converges, Contract!Revisits,
        Contract!Exhausts, Contract!ClosesCycle
  <1>10. ResultInv'
    BY <1>1, <1>4, <1>9 DEF ResultInv
  <1>11. LimitInv'
    BY <1>1, <1>2 DEF IInv, LimitInv, Continued, Contract!Exhausts
  <1>12. (LoopInv /\ TrackerMirrorsHistory)'
    BY <1>1 DEF LoopInv, InLoop, TrackerMirrorsHistory
  <1>13. QED
    BY <1>5, <1>10, <1>11, <1>12 DEF IInv

LEMMA CheckConvergenceInv == IInv /\ CheckConvergence => IInv'
  <1> SUFFICES ASSUME IInv, CheckConvergence PROVE IInv'
    OBVIOUS
  <1>1. /\ pc = "convergence"
        /\ UNCHANGED <<sys, input, limit, history, buckets>>
    BY DEF CheckConvergence
  <1>2. CASE IsTerminated(Current(history)) /\ Return("Converged", history, {})
    <2>1. Contract!IsVerdict(Assemble("Converged", history, {}))
      BY <1>2 DEF IsTerminated, Current, Assemble, Contract!IsVerdict, Contract!Converges
    <2>2. QED
      BY <1>1, <1>2, <2>1, ReturnInv DEF Statuses
  <1>3. CASE /\ ~IsTerminated(Current(history))
             /\ pc' = "cycle"
             /\ UNCHANGED result
    <2>1. Settled' = Settled /\ Continued' = Continued
      BY <1>1, <1>3 DEF Settled, Continued
    <2>2. TypeOK'
      BY <1>1, <1>3 DEF IInv, TypeOK
    <2>3. LoopInv'
      BY <1>1, <1>3, <2>1 DEF IInv, LoopInv, InLoop, IsTerminated, Current,
          Contract!IsOrbit, Contract!Converges, Contract!Revisits
    <2>4. LimitInv'
      BY <1>1, <2>1 DEF IInv, LimitInv, Contract!Exhausts
    <2>5. TrackerMirrorsHistory'
      BY <1>1, <1>3, <2>1 DEF IInv, TrackerMirrorsHistory, Bucket
    <2>6. ResultInv'
      BY <1>1, <1>3 DEF IInv, ResultInv
    <2>7. QED
      BY <2>2, <2>3, <2>4, <2>5, <2>6 DEF IInv
  <1>4. QED
    BY <1>2, <1>3 DEF CheckConvergence

(* A bucket entry equal to the newest state is an earlier visit of it. *)
LEMMA CycleHitInv == IInv /\ CycleHit => IInv'
  <1> SUFFICES ASSUME IInv, CycleHit PROVE IInv'
    OBVIOUS
  <1> DEFINE next == Current(history)
  <1>1. /\ pc = "cycle"
        /\ UNCHANGED <<sys, input, limit, history, buckets>>
    BY DEF CycleHit
  <1>2. /\ history \in Seq(States) /\ Len(history) >= 2 /\ Len(history) \in Nat
        /\ sys \in Systems /\ ~Contract!Converges(history, Len(history))
        /\ TrackerMirrorsHistory /\ InLoop
    BY <1>1 DEF IInv, TypeOK, LoopInv, InLoop
  <1>3. next \in States /\ sys.state_hash[next] \in Hashes
    BY <1>2 DEF Current, Systems
  <1>4. PICK i \in DOMAIN Bucket(next) :
            /\ StatesEqual(Bucket(next)[i], next)
            /\ Return("CycleDetected", history,
                      {[cycle_start_index |-> Bucket(next)[i].index,
                        cycle_length      |-> IterationCount(history) - Bucket(next)[i].index,
                        repeated_state    |-> next]})
    BY DEF CycleHit
  <1> DEFINE first == Bucket(next)[i].index
             info == [cycle_start_index |-> first,
                      cycle_length      |-> IterationCount(history) - first,
                      repeated_state    |-> next]
  <1>5. /\ first + 1 \in 1 .. Len(history) - 1
        /\ history[first + 1] = next
        /\ first \in Nat
    <2>1. /\ first + 1 \in 1 .. Settled
          /\ Bucket(next)[i].state = history[first + 1]
      BY <1>2, <1>3, <1>4 DEF TrackerMirrorsHistory, InLoop, Bucket
    <2>2. first \in Nat
      <3>1. buckets[sys.state_hash[next]] \in Seq(Entry)
        BY <1>3 DEF IInv, TypeOK
      <3>2. Bucket(next)[i] \in Entry
        BY <3>1, <1>4 DEF Bucket
      <3>3. QED
        BY <3>2 DEF Entry
    <2>3. QED
      BY <1>1, <1>4, <2>1, <2>2 DEF Settled, StatesEqual
  <1>6. info \in CycleInfo
    BY <1>2, <1>3, <1>5 DEF CycleInfo, IterationCount
  <1>7. Contract!ClosesCycle(history, info)
    BY <1>2, <1>5 DEF Contract!ClosesCycle, Current, IterationCount
  <1>8. Contract!IsVerdict(Assemble("CycleDetected", history, {info}))
    BY <1>2, <1>7 DEF Assemble, Contract!IsVerdict
  <1>9. QED
    BY <1>1, <1>4, <1>6, <1>8, ReturnInv DEF Statuses

(* No entry of its bucket equals the newest state: it is new to the history. *)
LEMMA CycleMissInv == IInv /\ CycleMiss => IInv'
  <1> SUFFICES ASSUME IInv, CycleMiss PROVE IInv'
    OBVIOUS
  <1> DEFINE next == Current(history)
             new == [index |-> IterationCount(history), state |-> next]
             hash == sys.state_hash[next]
  <1>1. /\ pc = "cycle" /\ pc' = "limit"
        /\ UNCHANGED <<sys, input, limit, history, result>>
        /\ \A i \in DOMAIN Bucket(next) : ~StatesEqual(Bucket(next)[i], next)
        /\ buckets' = [buckets EXCEPT ![hash] = Append(@, new)]
    BY DEF CycleMiss
  <1>2. /\ history \in Seq(States) /\ Len(history) >= 2 /\ Len(history) \in Nat
        /\ sys \in Systems /\ buckets \in [Hashes -> Seq(Entry)]
        /\ TrackerMirrorsHistory /\ InLoop
    BY <1>1 DEF IInv, TypeOK, LoopInv, InLoop
  <1>3. next \in States /\ hash \in Hashes /\ new \in Entry /\ next = history[Len(history)]
    BY <1>2 DEF Current, Systems, Entry, IterationCount
  <1>4. /\ Settled = Len(history) - 1 /\ Settled' = Len(history)
        /\ Continued = Len(history) - 1 /\ Continued' = Len(history) - 1
    BY <1>1 DEF Settled, Continued
  <1>5. /\ buckets' \in [Hashes -> Seq(Entry)]
        /\ \A h \in Hashes : h # hash => buckets'[h] = buckets[h]
        /\ buckets'[hash] = Append(buckets[hash], new)
    BY <1>1, <1>2, <1>3
  <1>13. /\ DOMAIN buckets[hash] = 1 .. Len(buckets[hash])
         /\ Len(buckets[hash]) \in Nat
         /\ DOMAIN buckets'[hash] = 1 .. Len(buckets[hash]) + 1
         /\ \A i \in 1 .. Len(buckets[hash]) : buckets'[hash][i] = buckets[hash][i]
         /\ buckets'[hash][Len(buckets[hash]) + 1] = new
    <2>1. buckets[hash] \in Seq(Entry)
      BY <1>2, <1>3
    <2> HIDE DEF next, new, hash
    <2>2. QED
      BY <2>1, <1>3, <1>5, AppendFacts
  <1>6. ~Contract!Revisits(history, Len(history))
    <2>1. ASSUME NEW k \in 1 .. Len(history) - 1, history[k] = next
          PROVE  FALSE
      <3>1. \E i \in DOMAIN Bucket(history[k]) :
                Bucket(history[k])[i] = [index |-> k - 1, state |-> history[k]]
        BY <1>2, <1>4 DEF TrackerMirrorsHistory, InLoop
      <3>2. QED
        BY <2>1, <3>1, <1>1 DEF StatesEqual
    <2>2. QED
      BY <1>3, <2>1 DEF Contract!Revisits
  <1>7. TypeOK'
    BY <1>1, <1>5 DEF IInv, TypeOK
  <1>8. LoopInv'
    <2>1. ASSUME NEW k \in 2 .. Len(history)
          PROVE  ~Contract!Converges(history, k) /\ ~Contract!Revisits(history, k)
      BY <1>1, <1>2, <1>4, <1>6 DEF IInv, LoopInv, InLoop
    <2>2. QED
      BY <1>1, <1>2, <1>4, <2>1 DEF IInv, LoopInv, InLoop,
          Contract!IsOrbit, Contract!Converges, Contract!Revisits
  <1>9. LimitInv'
    BY <1>1, <1>4 DEF IInv, LimitInv, Contract!Exhausts
  <1>10. TrackerMirrorsHistory'
    <2>1. ASSUME NEW h \in Hashes, NEW i \in DOMAIN buckets'[h]
          PROVE  LET e == buckets'[h][i]
                 IN /\ e.index + 1 \in 1 .. Len(history)
                    /\ e.state = history[e.index + 1]
                    /\ h = sys.state_hash[e.state]
      <3>1. CASE i \in DOMAIN buckets[h] /\ buckets'[h][i] = buckets[h][i]
        BY <3>1, <1>2, <1>4 DEF TrackerMirrorsHistory, InLoop
      <3>2. CASE h = hash /\ buckets'[h][i] = new
        BY <3>2, <1>2, <1>3 DEF IterationCount
      <3>3. \/ i \in DOMAIN buckets[h] /\ buckets'[h][i] = buckets[h][i]
            \/ h = hash /\ buckets'[h][i] = new
        <4> HIDE DEF next, new, hash
        <4>1. CASE h = hash
          <5>1. i \in 1 .. Len(buckets[hash]) \/ i = Len(buckets[hash]) + 1
            BY <4>1, <1>13, <2>1
          <5>2. QED
            BY <4>1, <5>1, <1>13
        <4>2. CASE h # hash
          BY <4>2, <1>5, <2>1
        <4>3. QED
          BY <4>1, <4>2
      <3>4. QED
        BY <3>1, <3>2, <3>3
    <2>2. ASSUME NEW k \in 1 .. Len(history)
          PROVE  \E i \in DOMAIN buckets'[sys.state_hash[history[k]]] :
                    buckets'[sys.state_hash[history[k]]][i]
                        = [index |-> k - 1, state |-> history[k]]
      <3>1. CASE k = Len(history)
        <4>1. /\ Len(buckets[hash]) + 1 \in DOMAIN buckets'[hash]
              /\ buckets'[hash][Len(buckets[hash]) + 1] = new
          BY <1>13
        <4>2. QED
          BY <3>1, <4>1, <1>3 DEF IterationCount
      <3>2. CASE k \in 1 .. Len(history) - 1
        <4>1. /\ history[k] \in States
              /\ sys.state_hash[history[k]] \in Hashes
          BY <1>2, <3>2 DEF Systems
        <4>2. PICK i \in DOMAIN buckets[sys.state_hash[history[k]]] :
                  buckets[sys.state_hash[history[k]]][i]
                      = [index |-> k - 1, state |-> history[k]]
          BY <3>2, <1>2, <1>4 DEF TrackerMirrorsHistory, InLoop, Bucket
        <4>3. /\ i \in DOMAIN buckets'[sys.state_hash[history[k]]]
              /\ buckets'[sys.state_hash[history[k]]][i]
                    = buckets[sys.state_hash[history[k]]][i]
          <5> HIDE DEF next, new, hash
          <5>1. CASE sys.state_hash[history[k]] = hash
            BY <5>1, <4>2, <1>13
          <5>2. CASE sys.state_hash[history[k]] # hash
            BY <5>2, <4>1, <4>2, <1>5
          <5>3. QED
            BY <5>1, <5>2
        <4>4. QED
          BY <4>2, <4>3
      <3>3. QED
        BY <3>1, <3>2, <1>2
    <2>3. /\ \A h \in Hashes : \A i \in DOMAIN buckets'[h] :
                LET e == buckets'[h][i]
                IN /\ e.index + 1 \in 1 .. Settled'
                   /\ e.state = history'[e.index + 1]
                   /\ h = sys'.state_hash[e.state]
          /\ \A k \in 1 .. Settled' :
                \E i \in DOMAIN buckets'[sys'.state_hash[history'[k]]] :
                    buckets'[sys'.state_hash[history'[k]]][i]
                        = [index |-> k - 1, state |-> history'[k]]
      <3>1. sys' = sys /\ history' = history /\ Settled' = Len(history)
        BY <1>1, <1>4
      <3>2. QED
        BY <3>1, <2>1, <2>2
    <2>4. QED
      BY <2>3 DEF TrackerMirrorsHistory, Bucket
  <1>11. ResultInv'
    BY <1>1 DEF IInv, ResultInv
  <1>12. QED
    BY <1>7, <1>8, <1>9, <1>10, <1>11 DEF IInv

LEMMA CheckLimitInv == IInv /\ CheckLimit => IInv'
  <1> SUFFICES ASSUME IInv, CheckLimit PROVE IInv'
    OBVIOUS
  <1>1. /\ pc = "limit"
        /\ UNCHANGED <<sys, input, limit, history, buckets>>
    BY DEF CheckLimit
  <1>2. /\ Len(history) >= 2 /\ Len(history) \in Nat
        /\ limit \in Nat
        /\ ~Contract!Converges(history, Len(history))
        /\ ~Contract!Revisits(history, Len(history))
    BY <1>1 DEF IInv, TypeOK, LoopInv, InLoop, Settled
  <1>3. CASE LimitReached(history) /\ Return("IterationLimitReached", history, {})
    <2>1. Contract!Exhausts(Len(history))
      BY <1>2, <1>3 DEF LimitReached, IterationCount, Contract!Exhausts
    <2>2. Contract!IsVerdict(Assemble("IterationLimitReached", history, {}))
      BY <1>2, <2>1 DEF Assemble, Contract!IsVerdict
    <2>3. QED
      BY <1>1, <1>3, <2>2, ReturnInv DEF Statuses
  <1>4. CASE /\ ~LimitReached(history)
             /\ pc' = "generate"
             /\ UNCHANGED result
    <2>1. /\ Settled' = Settled
          /\ Continued' = Len(history) /\ Continued = Len(history) - 1
      BY <1>1, <1>4 DEF Settled, Continued
    <2>2. ~Contract!Exhausts(Len(history))
      BY <1>2, <1>4 DEF LimitReached, IterationCount, Contract!Exhausts
    <2>3. TypeOK'
      BY <1>1, <1>4 DEF IInv, TypeOK
    <2>4. LoopInv'
      BY <1>1, <1>2, <1>4, <2>1 DEF IInv, LoopInv, InLoop,
          Contract!IsOrbit, Contract!Converges, Contract!Revisits
    <2>5. LimitInv'
      BY <1>1, <1>2, <2>1, <2>2 DEF IInv, LimitInv, Contract!Exhausts
    <2>6. TrackerMirrorsHistory'
      BY <1>1, <1>4, <2>1 DEF IInv, TrackerMirrorsHistory, Bucket
    <2>7. ResultInv'
      BY <1>1, <1>4 DEF IInv, ResultInv
    <2>8. QED
      BY <2>3, <2>4, <2>5, <2>6, <2>7 DEF IInv
  <1>5. QED
    BY <1>3, <1>4 DEF CheckLimit

LEMMA StutterInv == IInv /\ UNCHANGED vars => IInv'
  BY SMTT(30) DEF vars, IInv, TypeOK, LoopInv, InLoop, Settled, Continued, LimitInv, ResultInv,
      TrackerMirrorsHistory, Bucket, Contract!IsOrbit, Contract!Converges,
      Contract!Revisits, Contract!Exhausts, Contract!ValidTrajectory,
      Contract!IsRejection, Contract!Unresolved, Contract!IsVerdict, Contract!ClosesCycle

LEMMA NextInv == IInv /\ [Next]_vars => IInv'
  BY RejectInputInv, AcceptInputInv, GenerateNextInv, CheckConvergenceInv, CycleHitInv,
     CycleMissInv, CheckLimitInv, StutterInv DEF Next, Returned

(* Every reachable state of a run satisfies the inductive invariant. *)
THEOREM Invariance == Spec => []IInv
  BY InitInv, NextInv, PTL DEF Spec

(* Type correctness of the driver. *)
THEOREM TypeCorrect == Spec => []TypeOK
  <1>1. IInv => TypeOK
    BY DEF IInv
  <1>2. QED
    BY <1>1, Invariance, PTL

(* The cycle tracker never loses or misplaces a visited state. *)
THEOREM TrackerCorrect == Spec => []TrackerMirrorsHistory
  <1>1. IInv => TrackerMirrorsHistory
    BY DEF IInv
  <1>2. QED
    BY <1>1, Invariance, PTL

(* No run applies more than max(1, max_iterations) transitions. *)
THEOREM WorkBounded == Spec => []TransitionsBounded
  <1>1. IInv => TransitionsBounded
    <2> SUFFICES ASSUME IInv, history # <<>>
                 PROVE  IterationCount(history) <= IF limit = 0 THEN 1 ELSE limit
      BY DEF TransitionsBounded
    <2>1. /\ history \in Seq(States) /\ Len(history) \in Nat /\ limit \in Nat
      BY DEF IInv, TypeOK
    <2>2. CASE Len(history) <= 2
      BY <2>1, <2>2 DEF IterationCount
    <2>3. CASE Len(history) > 2
      <3>1. Len(history) - 1 \in 2 .. Continued
        BY <2>1, <2>3 DEF Continued
      <3>2. ~(Len(history) - 1 - 1 >= limit)
        BY <3>1 DEF IInv, LimitInv, Contract!Exhausts
      <3>3. QED
        BY <2>1, <2>3, <3>2 DEF IterationCount
    <2>4. QED
      BY <2>1, <2>2, <2>3
  <1>2. QED
    BY <1>1, Invariance, PTL

(* A reported cycle is closed under the transition and holds no terminal    *)
(* state: no larger iteration limit would change the verdict.               *)
THEOREM CycleIsFinal == Spec => []CycleVerdictIsFinal
  <1>1. IInv => CycleVerdictIsFinal
    <2> SUFFICES ASSUME IInv, pc = "done", result.trajectory_status = "CycleDetected"
                 PROVE  CycleVerdictIsFinal
      BY DEF CycleVerdictIsFinal
    <2> DEFINE states == result.state_sequence
               n == Len(states)
               later == {states[i] : i \in 2 .. n}
    <2>1. /\ result \in Trajectories
          /\ Contract!ValidTrajectory(result)
      BY DEF IInv, ResultInv, TypeOK
    <2>2. /\ n \in Nat /\ n >= 2
          /\ Contract!IsOrbit(states) /\ Contract!Unresolved(states)
          /\ Contract!IsVerdict(result)
      BY <2>1 DEF Trajectories, Contract!ValidTrajectory, Contract!IsRejection
    <2>3. /\ ~Contract!Converges(states, n)
          /\ \E info \in result.cycle_information : Contract!ClosesCycle(states, info)
      BY <2>2 DEF Contract!IsVerdict
    <2>4. PICK c \in 0 .. n - 2 : states[c + 1] = states[n]
      BY <2>3 DEF Contract!ClosesCycle
    <2>5. ASSUME NEW i \in 2 .. n PROVE sys.transition[states[i]] \in later
      <3>1. CASE i < n
        BY <3>1, <2>2 DEF Contract!IsOrbit
      <3>2. CASE i = n
        <4>1. sys.transition[states[n]] = states[c + 2] /\ c + 2 \in 2 .. n
          BY <2>2, <2>4 DEF Contract!IsOrbit
        <4>2. QED
          BY <3>2, <4>1
      <3>3. QED
        BY <3>1, <3>2, <2>2
    <2>6. ASSUME NEW i \in 2 .. n PROVE states[i] \notin sys.terminal
      BY <2>2, <2>3 DEF Contract!Unresolved, Contract!Converges
    <2>7. QED
      BY <2>5, <2>6 DEF CycleVerdictIsFinal
  <1>2. QED
    BY <1>1, Invariance, PTL

(* The driver implements the contract: every returned trajectory is the     *)
(* orbit of its input cut at its first stopping condition, with the status  *)
(* that condition calls for.                                                *)
THEOREM Implementation == Spec => ImplementsContract
  <1>1. Init => Contract!Init
    BY DEF Init, Contract!Init
  <1>2. IInv /\ IInv' /\ [Next]_vars => [Contract!Publish]_Contract!contractVars
    <2> SUFFICES ASSUME IInv, IInv', [Next]_vars
                 PROVE  [Contract!Publish]_Contract!contractVars
      OBVIOUS
    <2>1. CASE UNCHANGED <<sys, input, limit, result>>
      BY <2>1 DEF Contract!contractVars
    <2>2. CASE UNCHANGED <<sys, input, limit>> /\ pc # "done" /\ pc' = "done"
      <3>1. result = NoTrajectory /\ result' # NoTrajectory
        BY <2>2 DEF IInv, ResultInv
      <3>2. Contract!ValidTrajectory(result)'
        BY <2>2 DEF IInv, ResultInv
      <3>3. Contract!ValidTrajectory(result')
        BY <2>2, <3>2 DEF Contract!ValidTrajectory, Contract!IsRejection, Contract!IsOrbit,
            Contract!Unresolved, Contract!IsVerdict, Contract!Converges, Contract!Revisits,
            Contract!Exhausts, Contract!ClosesCycle
      <3>4. QED
        BY <2>2, <3>1, <3>3 DEF Contract!Publish
    <2>3. QED
      BY <2>1, <2>2 DEF Next, vars, RejectInput, AcceptInput, GenerateNext, CheckConvergence,
          CycleHit, CycleMiss, CheckLimit, Returned, Return
  <1>3. QED
    BY <1>1, <1>2, Invariance, PTL DEF Spec, ImplementsContract, Contract!Spec
=============================================================================
