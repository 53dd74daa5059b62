--------------------------- MODULE TrajectoryService ---------------------------
(***************************************************************************)
(* What a host of single trajectories promises its clients, with no cache, *)
(* no lock and no program counter: a question is asked once and answered   *)
(* at one instant.  The answer is the trajectory a fresh run would give,   *)
(* whether it is said to come from a cache or not; that it does, is only   *)
(* said when a question with the same key was answered before.  A client   *)
(* is turned away for a question about an unknown system, or after some    *)
(* handler died.                                                           *)
(***************************************************************************)
CONSTANTS Requests,    \* one question each
          Questions,
          Served,      \* the questions about registered systems
          Fresh,       \* Fresh[q]: what the engine makes of a served question
          Key,         \* Key[q]: its memoization key, for the valid ones
          Nothing

VARIABLES asked, answer

serviceVars == <<asked, answer>>

Waiting(r) == asked[r] # Nothing /\ answer[r] = Nothing

Answer(r, a) ==
    /\ answer' = [answer EXCEPT ![r] = a]
    /\ UNCHANGED asked

(* Somebody was given a trajectory for a question with the key of q. *)
AnsweredBefore(q) ==
    \E r \in Requests :
        /\ answer[r] # Nothing /\ answer[r].kind = "trajectory"
        /\ asked[r] \in DOMAIN Key /\ Key[asked[r]] = Key[q]

Init ==
    /\ asked = [r \in Requests |-> Nothing]
    /\ answer = [r \in Requests |-> Nothing]

Ask(r) ==
    /\ asked[r] = Nothing /\ answer[r] = Nothing
    /\ \E q \in Questions : asked' = [asked EXCEPT ![r] = q]
    /\ UNCHANGED answer

Serve(r) ==
    /\ Waiting(r) /\ asked[r] \in Served
    /\ \E hit \in BOOLEAN :
          /\ hit => asked[r] \in DOMAIN Key /\ AnsweredBefore(asked[r])
          /\ Answer(r, [kind |-> "trajectory", trajectory |-> Fresh[asked[r]], cache_hit |-> hit])

Reject(r) ==
    /\ Waiting(r) /\ asked[r] \notin Served
    /\ Answer(r, [kind |-> "unknown system_id"])

(* Also before a question was understood. *)
Die(r) ==
    /\ answer[r] = Nothing
    /\ Answer(r, [kind |-> "closed"])

TurnAway(r) ==
    /\ Waiting(r)
    /\ \E dead \in Requests : answer[dead] = [kind |-> "closed"]
    /\ Answer(r, [kind |-> "lock poisoned"])

Next == \E r \in Requests : Ask(r) \/ Serve(r) \/ Reject(r) \/ Die(r) \/ TurnAway(r)

Spec == Init /\ [][Next]_serviceVars
=============================================================================
