------------------------- MODULE TrajectoryContract -------------------------
(***************************************************************************)
(* What one run of the State Evolution Engine promises, with no loop, no   *)
(* cycle tracker and no program counter: a run publishes one trajectory,   *)
(* the orbit of its input cut at the FIRST index at which one of the three *)
(* stopping conditions holds, and the status names that condition, with    *)
(* convergence winning over a cycle and a cycle winning over the limit.    *)
(***************************************************************************)
EXTENDS Naturals, Sequences

CONSTANTS States,        \* the states of a deterministic system
          BadInput,      \* a raw input that validate_initial_state rejects
          NoTrajectory   \* the run has not returned yet

VARIABLES sys,      \* the system under study: transition, terminal
          input,    \* the validated initial state, or BadInput
          limit,    \* EngineConfig.max_iterations
          result    \* the Trajectory returned, or NoTrajectory

contractVars == <<sys, input, limit, result>>

(* states is the orbit of the input, index i of the code at position i + 1. *)
IsOrbit(states) ==
    /\ Len(states) >= 1
    /\ states[1] = input
    /\ \A i \in 1 .. Len(states) - 1 : states[i + 1] = sys.transition[states[i]]

Converges(states, k) == states[k] \in sys.terminal

Revisits(states, k) == \E j \in 1 .. k - 1 : states[j] = states[k]

Exhausts(k) == k - 1 >= limit

(* No transition before the last one met a stopping condition. *)
Unresolved(states) ==
    \A k \in 2 .. Len(states) - 1 :
        ~Converges(states, k) /\ ~Revisits(states, k) /\ ~Exhausts(k)

(* The cycle a trajectory reports is the one its last state closes. *)
ClosesCycle(states, info) ==
    /\ info.cycle_start_index \in 0 .. Len(states) - 2
    /\ states[info.cycle_start_index + 1] = states[Len(states)]
    /\ info.cycle_length = Len(states) - 1 - info.cycle_start_index
    /\ info.repeated_state = states[Len(states)]

IsVerdict(t) ==
    LET states == t.state_sequence
        n == Len(states)
    IN \/ /\ Converges(states, n)
          /\ t.trajectory_status = "Converged"
          /\ t.cycle_information = {}
       \/ /\ ~Converges(states, n)
          /\ t.trajectory_status = "CycleDetected"
          /\ \E info \in t.cycle_information :
                t.cycle_information = {info} /\ ClosesCycle(states, info)
       \/ /\ ~Converges(states, n)
          /\ ~Revisits(states, n)
          /\ Exhausts(n)
          /\ t.trajectory_status = "IterationLimitReached"
          /\ t.cycle_information = {}

IsRejection(t) ==
    /\ t.trajectory_status = "SystemError"
    /\ t.state_sequence = <<input>>
    /\ t.cycle_information = {}

ValidTrajectory(t) ==
    /\ t.iteration_count = Len(t.state_sequence) - 1
    /\ \/ input = BadInput /\ IsRejection(t)
       \/ /\ input # BadInput
          /\ Len(t.state_sequence) >= 2
          /\ IsOrbit(t.state_sequence)
          /\ Unresolved(t.state_sequence)
          /\ IsVerdict(t)

Init ==
    /\ input \in States \cup {BadInput}
    /\ limit \in Nat
    /\ result = NoTrajectory

Publish ==
    /\ result = NoTrajectory
    /\ result' # NoTrajectory
    /\ ValidTrajectory(result')
    /\ UNCHANGED <<sys, input, limit>>

Spec == Init /\ [][Publish]_contractVars
=============================================================================
