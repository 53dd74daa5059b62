----------------------------- MODULE ComparisonLab -----------------------------
(***************************************************************************)
(* The Comparison Lab (comparison-lab/ComparisonLab.tsx): a list of        *)
(* trajectories that runs add to when their replies come back, in any      *)
(* order, while entries are removed and other runs are started.            *)
(*                                                                         *)
(* A trajectory is its initial state, as the host canonicalises it; input  *)
(* the engine refuses comes back as a trajectory too, under the text typed.*)
(***************************************************************************)
EXTENDS Naturals, Sequences, FiniteSets

CONSTANTS Inputs,      \* what a user types
          Blank,       \* text that trims to nothing
          InitialOf,   \* InitialOf[input]: initial_state of the reply
          Colours,     \* PALETTE.length
          MaxRuns      \* bound on the runs started

ASSUME LabAssumption ==
    /\ Blank \notin Inputs /\ Inputs = DOMAIN InitialOf
    /\ Colours \in Nat \ {0} /\ MaxRuns \in Nat

VARIABLES entries,   \* what is compared, with the colours drawn
          runs,      \* number of runs started
          pending,   \* the runs that await the host
          busy,      \* the Add button is disabled
          error,     \* a failure is shown
          shown      \* history: the initial states that came back and were not removed since

vars == <<entries, runs, pending, busy, error, shown>>

Entry(start, colour) == [start |-> start, colour |-> colour]
StartsOf(list) == {list[i].start : i \in DOMAIN list}

(* What a run remembers of the render that started it. *)
Run(id, input) == [id |-> id, input |-> input, seen |-> entries]

Init ==
    /\ entries = <<>>
    /\ runs = 0 /\ pending = {}
    /\ busy = FALSE /\ error = FALSE
    /\ shown = {}

-----------------------------------------------------------------------------
(* add, up to its await; blank text returns at once.  The button is        *)
(* disabled while busy, the Enter key is not.                              *)
AddRun(key, input) ==
    /\ key = "button" => ~busy
    /\ input # Blank
    /\ runs < MaxRuns
    /\ runs' = runs + 1
    /\ pending' = pending \cup {Run(runs + 1, input)}
    /\ busy' = TRUE
    /\ error' = FALSE
    /\ UNCHANGED <<entries, shown>>

(* Mutation of Listed: the check for a second entry was made at the start. *)
ListedUnchecked(run, list) ==
    IF InitialOf[run.input] \in StartsOf(run.seen) THEN list
    ELSE Append(list, Entry(InitialOf[run.input], Len(list) % Colours))

(* The updater of setEntries, over the list of the moment it is applied. *)
Listed(run, list) ==
    IF InitialOf[run.input] \in StartsOf(list) THEN list
    ELSE Append(list, Entry(InitialOf[run.input], Len(list) % Colours))

(* Mutation of Settle: the button is enabled by a reply only.              *)
SettleStillBusy(run) ==
    /\ run \in pending
    /\ pending' = pending \ {run}
    /\ busy' = (busy /\ InitialOf[run.input] \in StartsOf(run.seen))

(* Leaving add: the finally block. *)
Settle(run) ==
    /\ run \in pending
    /\ pending' = pending \ {run}
    /\ busy' = FALSE

Reply(run) ==
    /\ Settle(run)
    /\ entries' = Listed(run, entries)
    /\ shown' = shown \cup {InitialOf[run.input]}
    /\ UNCHANGED <<runs, error>>

(* The transport failed; the finally block runs all the same. *)
Fail(run) ==
    /\ Settle(run)
    /\ error' = TRUE
    /\ UNCHANGED <<entries, runs, shown>>

(* What a filter keeps, entry by entry. *)
Without(start, list) ==
    LET kept[n \in 0 .. Len(list)] ==
            IF n = 0 THEN <<>>
            ELSE IF list[n].start = start THEN kept[n - 1] ELSE Append(kept[n - 1], list[n])
    IN kept[Len(list)]

RemoveEntry(start) ==
    /\ start \in StartsOf(entries)
    /\ entries' = Without(start, entries)
    /\ shown' = shown \ {start}
    /\ UNCHANGED <<runs, pending, busy, error>>

Next ==
    \/ \E key \in {"button", "enter"}, input \in Inputs \cup {Blank} : AddRun(key, input)
    \/ \E run \in pending : Reply(run) \/ Fail(run)
    \/ \E start \in StartsOf(entries) : RemoveEntry(start)

(* Every run the host was asked for is answered or fails. *)
Answered == \E run \in pending : Reply(run) \/ Fail(run)

Spec == Init /\ [][Next]_vars /\ WF_vars(Answered)

-----------------------------------------------------------------------------
(* However replies cross each other and removals, no initial state is      *)
(* listed twice, though the check and the run are an await apart, and the  *)
(* list is what came back and was not removed since: no reply undoes a     *)
(* removal or another reply that happened while it was on its way          *)
(* (ComparisonLab.tsx:48).                                                 *)
ListIsWhatCameBack ==
    /\ \A i, j \in DOMAIN entries : entries[i].start = entries[j].start => i = j
    /\ StartsOf(entries) = shown

(* Whatever runs overlap, the button is enabled again (the finally block). *)
ButtonComesBack == busy ~> ~busy
=============================================================================
