------------------------ MODULE StateEvolutionEngine ------------------------
(***************************************************************************)
(* The generic driver of crates/statelab-engine/src/engine.rs, `run`, with *)
(* the hash-bucketed CycleTracker of cycle_detection.rs and the            *)
(* TrajectoryHistory of system.rs.  One action per numbered step of the    *)
(* frozen Trajectory Generation Order.                                     *)
(*                                                                         *)
(* The system under study (its transition function, its terminal states,   *)
(* its state_hash) is chosen in Init and never changes, so that one TLC    *)
(* run covers every system over States, colliding hashes included.         *)
(***************************************************************************)
EXTENDS Naturals, Sequences

CONSTANTS States,        \* the states of a deterministic system
          Hashes,        \* the values of state_hash
          Limits,        \* the max_iterations of the runs considered
          BadInput,      \* a raw input that validate_initial_state rejects
          NoTrajectory   \* the run has not returned yet

ASSUME LimitsAssumption == Limits \subseteq Nat
ASSUME BadInputAssumption == BadInput \notin States

VARIABLES sys, input, limit, \* the arguments of run
          pc,                \* the step of the generation order to take next
          history,           \* TrajectoryHistory.states, index i at position i + 1
          buckets,           \* CycleTracker.buckets
          result             \* the Trajectory returned

vars == <<sys, input, limit, pc, history, buckets, result>>

(* A DeterministicSystem, reduced to what the driver calls. *)
Systems == [transition: [States -> States],
            terminal: SUBSET States,
            state_hash: [States -> Hashes]]

Entry == [index: Nat, state: States]
CycleInfo == [cycle_start_index: Nat, cycle_length: Nat, repeated_state: States]
Statuses == {"Converged", "CycleDetected", "IterationLimitReached", "SystemError"}
Trajectories == [trajectory_status: Statuses,
                 state_sequence: Seq(States \cup {BadInput}),
                 iteration_count: Nat,
                 cycle_information: SUBSET CycleInfo]

ASSUME NoTrajectoryAssumption == NoTrajectory \notin Trajectories

-----------------------------------------------------------------------------
(* TrajectoryHistory *)
Current(states) == states[Len(states)]

IterationCount(states) == Len(states) - 1

(* Trajectory::assemble and Trajectory::system_error *)
Assemble(status, states, cycle) ==
    [trajectory_status |-> status,
     state_sequence    |-> states,
     iteration_count   |-> IterationCount(states),
     cycle_information |-> cycle]

-----------------------------------------------------------------------------
Init ==
    /\ sys \in Systems
    /\ input \in States \cup {BadInput}
    /\ limit \in Limits
    /\ pc = "validate"
    /\ history = <<>>
    /\ buckets = [h \in Hashes |-> <<>>]
    /\ result = NoTrajectory

Return(status, states, cycle) ==
    /\ result' = Assemble(status, states, cycle)
    /\ pc' = "done"

(* validate_initial_state fails: no transition is run. *)
RejectInput ==
    /\ pc = "validate"
    /\ input = BadInput
    /\ Return("SystemError", <<input>>, {})
    /\ UNCHANGED <<sys, input, limit, history, buckets>>

(* Mutation of NewTracker: the initial state is not tracked. *)
EmptyTracker(s) == [h \in Hashes |-> <<>>]

(* CycleTracker::new: the initial state is tracked at index 0. *)
NewTracker(s) ==
    [h \in Hashes |->
        IF h = sys.state_hash[s] THEN <<[index |-> 0, state |-> s]>> ELSE <<>>]

AcceptInput ==
    /\ pc = "validate"
    /\ input \in States
    /\ history' = <<input>>
    /\ buckets' = NewTracker(input)
    /\ pc' = "generate"
    /\ UNCHANGED <<sys, input, limit, result>>

(* Step 1 *)
GenerateNext ==
    /\ pc = "generate"
    /\ history' = Append(history, sys.transition[Current(history)])
    /\ pc' = "convergence"
    /\ UNCHANGED <<sys, input, limit, buckets, result>>

Bucket(s) == buckets[sys.state_hash[s]]

(* Mutation of IsTerminated: the cycle check goes before convergence. *)
TerminatedUnlessSeen(s) ==
    s \in sys.terminal /\ \A i \in DOMAIN Bucket(s) : Bucket(s)[i].state # s

(* Step 2 *)
IsTerminated(s) == s \in sys.terminal

CheckConvergence ==
    /\ pc = "convergence"
    /\ \/ /\ IsTerminated(Current(history))
          /\ Return("Converged", history, {})
       \/ /\ ~IsTerminated(Current(history))
          /\ pc' = "cycle"
          /\ UNCHANGED result
    /\ UNCHANGED <<sys, input, limit, history, buckets>>

(* Mutation of StatesEqual: equal hashes are taken for equal states. *)
AnyEntryMatches(entry, s) == TRUE

(* Step 3: CycleTracker::check, a scan of the bucket of the state's hash in *)
(* the order of insertion.                                                  *)
StatesEqual(entry, s) == entry.state = s

CycleHit ==
    /\ pc = "cycle"
    /\ LET next == Current(history)
           index == IterationCount(history)
       IN \E i \in DOMAIN Bucket(next) :
            /\ StatesEqual(Bucket(next)[i], next)
            /\ \A j \in 1 .. i - 1 : ~StatesEqual(Bucket(next)[j], next)
            /\ Return("CycleDetected", history,
                      {[cycle_start_index |-> Bucket(next)[i].index,
                        cycle_length      |-> index - Bucket(next)[i].index,
                        repeated_state    |-> next]})
    /\ UNCHANGED <<sys, input, limit, history, buckets>>

CycleMiss ==
    /\ pc = "cycle"
    /\ LET next == Current(history)
       IN /\ \A i \in DOMAIN Bucket(next) : ~StatesEqual(Bucket(next)[i], next)
          /\ buckets' = [buckets EXCEPT ![sys.state_hash[next]] =
                Append(@, [index |-> IterationCount(history), state |-> next])]
    /\ pc' = "limit"
    /\ UNCHANGED <<sys, input, limit, history, result>>

(* Step 4, and step 5 when the limit is not reached *)
LimitReached(states) == IterationCount(states) >= limit

CheckLimit ==
    /\ pc = "limit"
    /\ \/ /\ LimitReached(history)
          /\ Return("IterationLimitReached", history, {})
       \/ /\ ~LimitReached(history)
          /\ pc' = "generate"
          /\ UNCHANGED result
    /\ UNCHANGED <<sys, input, limit, history, buckets>>

(* run has returned: nothing is left to do. *)
Returned == pc = "done" /\ UNCHANGED vars

Next ==
    \/ RejectInput
    \/ AcceptInput
    \/ GenerateNext
    \/ CheckConvergence
    \/ CycleHit
    \/ CycleMiss
    \/ CheckLimit
    \/ Returned

Spec == Init /\ [][Next]_vars

-----------------------------------------------------------------------------
TypeOK ==
    /\ sys \in Systems
    /\ input \in States \cup {BadInput}
    /\ limit \in Limits
    /\ pc \in {"validate", "generate", "convergence", "cycle", "limit", "done"}
    /\ history \in Seq(States)
    /\ buckets \in [Hashes -> Seq(Entry)]
    /\ result \in Trajectories \cup {NoTrajectory}

(* The number of states of the history the tracker must hold by now: all of *)
(* them, but for the newest while its convergence and cycle checks are due. *)
Settled ==
    IF pc \in {"generate", "limit"} THEN Len(history) ELSE Len(history) - 1

(* Every entry of the tracker is a state of the history at its own index,  *)
(* in the bucket of its hash, and every settled state has an entry: a      *)
(* revisit cannot be missed whatever the hash function collides on, and a  *)
(* collision cannot be taken for a revisit (cycle_detection.rs, check).    *)
TrackerMirrorsHistory ==
    pc \in {"generate", "convergence", "cycle", "limit"} =>
        /\ \A h \in Hashes : \A i \in DOMAIN buckets[h] :
              LET e == buckets[h][i]
              IN /\ e.index + 1 \in 1 .. Settled
                 /\ e.state = history[e.index + 1]
                 /\ h = sys.state_hash[e.state]
        /\ \A k \in 1 .. Settled : \E i \in DOMAIN Bucket(history[k]) :
              Bucket(history[k])[i] = [index |-> k - 1, state |-> history[k]]

(* A CycleDetected verdict is final: from the initial state on, every later *)
(* state of the orbit, for ever, is one the sequence already shows, and     *)
(* none of them is terminal, so no larger max_iterations would change it.   *)
CycleVerdictIsFinal ==
    pc = "done" /\ result.trajectory_status = "CycleDetected" =>
        LET later == {result.state_sequence[i] : i \in 2 .. Len(result.state_sequence)}
        IN /\ \A s \in later : sys.transition[s] \in later
           /\ later \cap sys.terminal = {}

(* max_iterations bounds the work: no run applies more than                *)
(* max(1, max_iterations) transitions before it returns, whichever check   *)
(* ends it (engine.rs, step 4; the first transition is unconditional).     *)
TransitionsBounded ==
    history # <<>> => IterationCount(history) <= IF limit = 0 THEN 1 ELSE limit

Contract == INSTANCE TrajectoryContract

(* The driver implements the contract of a run. *)
ImplementsContract == Contract!Spec

(***************************************************************************)
(* The inductive invariant of the driver's loop.                           *)
(***************************************************************************)
InLoop == pc \in {"generate", "convergence", "cycle", "limit"}

(* The states that have been through the limit check. *)
Continued == IF pc = "generate" THEN Len(history) ELSE Len(history) - 1

LoopInv ==
    InLoop =>
        /\ input \in States
        /\ Len(history) >= IF pc = "generate" THEN 1 ELSE 2
        /\ Contract!IsOrbit(history)
        /\ \A k \in 2 .. Settled :
              ~Contract!Converges(history, k) /\ ~Contract!Revisits(history, k)
        /\ pc = "cycle" => ~Contract!Converges(history, Len(history))

LimitInv == history # <<>> => \A k \in 2 .. Continued : ~Contract!Exhausts(k)

ResultInv ==
    /\ pc = "validate" => history = <<>>
    /\ pc = "done" <=> result # NoTrajectory
    /\ pc = "done" => Contract!ValidTrajectory(result)

(* What every step of the driver preserves: the history is the orbit of    *)
(* the input with no stopping condition met so far, the tracker mirrors    *)
(* it, and a returned trajectory obeys the contract of a run.              *)
IInv == TypeOK /\ LoopInv /\ LimitInv /\ TrackerMirrorsHistory /\ ResultInv
=============================================================================
