--------------------------- MODULE ResearchSession ---------------------------
(***************************************************************************)
(* The research session of the frontend: App.tsx, its ResearchController   *)
(* and the bulk control of CoralPanel.tsx.  Single runs and one bulk range *)
(* share the controller and the overlay and await the host independently;  *)
(* replies come back in any order, and some never succeed.                 *)
(*                                                                         *)
(* A result is the run that made it, its system and its initial state.     *)
(***************************************************************************)
EXTENDS Naturals, Sequences, FiniteSets, SequencesExt

CONSTANTS SystemIds,
          FirstSystem,   \* the system selected at the start
          Inputs,        \* the initial states a user types, all numbers
          MaxBulk,       \* MAX_BULK
          LargestExact,  \* 2^53: n++ on a JavaScript number stays there
          YieldEvery,    \* a bulk run lets the page paint after so many results
          MaxStarts      \* bound on the runs and ranges of a session

ASSUME NumbersAssumption ==
    /\ {LargestExact, MaxBulk, YieldEvery, MaxStarts} \subseteq Nat \ {0}
    /\ Inputs \subseteq 1 .. LargestExact
ASSUME FirstSystemAssumption == FirstSystem \in SystemIds

None == [by |-> 0]

VARIABLES selected,    \* systemId, the picker
          controller,  \* ResearchController: the system of the next run
          loaded,      \* ResearchController.loaded
          starts,      \* number of runs and ranges started so far
          pending,     \* the single runs that await the host
          latest,      \* the last single run started
          busy,
          trajectory,  \* what charts, metrics and export describe, or None
          failed,      \* error: the run whose failure is shown, or 0
          range,       \* the bulk run in progress, or None
          overlay,     \* coralTrajectories
          bulkFailed,  \* coralError is shown
          dropped      \* history: the results that a Reset took off the overlay

runVars == <<pending, latest, busy, trajectory, failed>>
coralVars == <<range, overlay, bulkFailed, dropped>>
vars == <<selected, controller, loaded, starts, runVars, coralVars>>

Result(by, system, state) == [by |-> by, system |-> system, state |-> state]

Init ==
    /\ selected = FirstSystem /\ controller = FirstSystem
    /\ loaded = <<>>
    /\ starts = 0
    /\ pending = {} /\ latest = None
    /\ busy = FALSE
    /\ trajectory = None /\ failed = 0
    /\ range = None /\ overlay = <<>> /\ bulkFailed = FALSE
    /\ dropped = {}

-----------------------------------------------------------------------------
SelectSystem(system) ==
    /\ selected' = system
    /\ UNCHANGED <<controller, loaded, starts, runVars, coralVars>>

(***************************************************************************)
(* run, up to its await.  The button is disabled while busy; the Enter key *)
(* is not.                                                                 *)
(***************************************************************************)
StartRun(key, input) ==
    /\ key = "button" => ~busy
    /\ starts < MaxStarts
    /\ starts' = starts + 1
    /\ controller' = selected
    /\ latest' = Result(starts + 1, selected, input)
    /\ pending' = pending \cup {latest'}
    /\ busy' = TRUE
    /\ failed' = 0
    /\ UNCHANGED <<selected, loaded, trajectory, coralVars>>

(* setCoralTrajectories((prev) => [...prev, ...results]) *)
Extend(results) == overlay' = overlay \o results

RunResolves(r) ==
    /\ r \in pending
    /\ pending' = pending \ {r}
    /\ loaded' = Append(loaded, r)
    /\ trajectory' = r
    /\ Extend(<<r>>)
    /\ busy' = FALSE
    /\ UNCHANGED <<selected, controller, starts, latest, failed, range, bulkFailed, dropped>>

(* Mutation of RunFails: busy is cleared on success only. *)
RunFailsBusy(r) ==
    /\ r \in pending
    /\ pending' = pending \ {r}
    /\ failed' = r.by
    /\ UNCHANGED <<selected, controller, loaded, starts, latest, busy, trajectory, coralVars>>

RunFails(r) ==
    /\ r \in pending
    /\ pending' = pending \ {r}
    /\ failed' = r.by
    /\ busy' = FALSE
    /\ UNCHANGED <<selected, controller, loaded, starts, latest, trajectory, coralVars>>

-----------------------------------------------------------------------------
(***************************************************************************)
(* addCoralRange.  A range awaits the host for range.state, or has yielded *)
(* to the page before it; each of its runs uses the system the controller  *)
(* has when that run is called.                                            *)
(***************************************************************************)
PanelShown == trajectory # None

(* n++: from the largest exact number on, adding one rounds back to it. *)
Increment(n) == IF n = LargestExact THEN n ELSE n + 1

LastOfRange == Increment(range.state) > range.to

(* CoralPanel's requestRange: longer and empty ranges are refused there. *)
StartRange(from, to) ==
    /\ PanelShown /\ range = None
    /\ starts < MaxStarts
    /\ from <= to /\ to - from + 1 <= MaxBulk
    /\ starts' = starts + 1
    /\ range' = [by |-> starts + 1, to |-> to, state |-> from, system |-> controller,
                 yielding |-> FALSE, batch |-> <<>>]
    /\ bulkFailed' = FALSE
    /\ UNCHANGED <<selected, controller, loaded, runVars, overlay, dropped>>

(* The finally block: whatever completed joins the overlay, as one block. *)
FinishRange(batch) == range' = None /\ Extend(batch)

(* Mutation of RangeFails: the completed part of a range is thrown away. *)
RangeFailsEmpty ==
    /\ range # None /\ ~range.yielding
    /\ bulkFailed' = TRUE
    /\ FinishRange(<<>>)
    /\ UNCHANGED <<selected, controller, loaded, starts, runVars, dropped>>

RangeFails ==
    /\ range # None /\ ~range.yielding
    /\ bulkFailed' = TRUE
    /\ FinishRange(range.batch)
    /\ UNCHANGED <<selected, controller, loaded, starts, runVars, dropped>>

(* One result of the range; then a yield, the end, or the next run. *)
RangeResolves ==
    /\ range # None /\ ~range.yielding
    /\ LET result == Result(range.by, range.system, range.state)
           batch == Append(range.batch, result)
       IN /\ loaded' = Append(loaded, result)
          /\ \/ /\ Len(batch) % YieldEvery = 0
                /\ range' = [range EXCEPT !.batch = batch, !.yielding = TRUE]
                /\ UNCHANGED overlay
             \/ /\ Len(batch) % YieldEvery # 0 /\ LastOfRange
                /\ FinishRange(batch)
             \/ /\ Len(batch) % YieldEvery # 0 /\ ~LastOfRange
                /\ range' = [range EXCEPT !.batch = batch, !.state = Increment(@),
                                          !.system = controller]
                /\ UNCHANGED overlay
    /\ UNCHANGED <<selected, controller, starts, runVars, bulkFailed, dropped>>

(* Mutation of RangeResumes: what is in the batch is shown already. *)
RangeShowsEarly ==
    /\ range # None /\ range.yielding
    /\ Extend(range.batch)
    /\ range' = IF LastOfRange THEN None
                ELSE [range EXCEPT !.state = Increment(@), !.system = controller,
                                   !.yielding = FALSE, !.batch = <<>>]
    /\ UNCHANGED <<selected, controller, loaded, starts, runVars, bulkFailed, dropped>>

(* The timer of a yield fires. *)
RangeResumes ==
    /\ range # None /\ range.yielding
    /\ \/ /\ LastOfRange
          /\ FinishRange(range.batch)
       \/ /\ ~LastOfRange
          /\ range' = [range EXCEPT !.state = Increment(@), !.system = controller,
                                    !.yielding = FALSE]
          /\ UNCHANGED overlay
    /\ UNCHANGED <<selected, controller, loaded, starts, runVars, bulkFailed, dropped>>

(* The Reset button: disabled during a range, not during a run. *)
Reset ==
    /\ PanelShown /\ range = None /\ overlay # <<>>
    /\ dropped' = dropped \cup ToSet(overlay)
    /\ overlay' = <<>>
    /\ bulkFailed' = FALSE
    /\ UNCHANGED <<selected, controller, loaded, starts, runVars, range>>

-----------------------------------------------------------------------------
(* What the host's replies and the timer make happen. *)
RunEnds(r) == RunResolves(r) \/ RunFails(r)
RangeStep == RangeResolves \/ RangeFails \/ RangeResumes

Next ==
    \/ \E system \in SystemIds : SelectSystem(system)
    \/ \E key \in {"button", "enter"}, input \in Inputs : StartRun(key, input)
    \/ \E r \in pending : RunEnds(r)
    \/ \E from, to \in Inputs : StartRange(from, to)
    \/ RangeStep
    \/ Reset

(* The host answers every request (EveryRequestFinishes of TrajectoryHost) *)
(* or the connection fails; a timer fires.                                 *)
Fairness == WF_vars(RangeStep) /\ WF_vars(\E r \in pending : RunEnds(r))

Spec == Init /\ [][Next]_vars

FairSpec == Spec /\ Fairness

-----------------------------------------------------------------------------
Results == [by : 1 .. MaxStarts, system : SystemIds, state : Nat]

Batch == IF range = None THEN <<>> ELSE range.batch

(* Nothing that completed is lost or doubled, in any interleaving of runs, *)
(* a range that fails half way, and resets: each result the controller     *)
(* loaded is in exactly one place, the overlay, the batch of the range in  *)
(* progress, or what the user reset (App.tsx, run and addCoralRange).      *)
NothingLost ==
    LET drawn == overlay \o Batch
    IN /\ IsInjective(loaded) /\ IsInjective(drawn)
       /\ ToSet(drawn) \cap dropped = {}
       /\ ToSet(loaded) = ToSet(drawn) \cup dropped

(* The results of a range stay together, in order and without a gap, even  *)
(* when single runs resolve in the middle of it (App.tsx, addCoralRange).  *)
RangesAreBlocks ==
    \A i, j \in DOMAIN overlay :
        i < j /\ overlay[i].by = overlay[j].by =>
            overlay[j].state - overlay[i].state = j - i

(* The busy button always has a run behind it, namely the last one: no     *)
(* order of replies leaves it disabled with nothing to wait for (App.tsx,  *)
(* run; the converse fails, since any reply enables it).                   *)
BusyMeansRunning == busy => latest \in pending

(* The page never waits for ever: the button and the bulk control come     *)
(* back, whatever fails.                                                   *)
PageComesBack == (busy ~> ~busy) /\ (range # None ~> range = None)

(* CoralPanel.tsx:34 bounds "a single bulk add, so a typo cannot launch a  *)
(* runaway job".  Checked to fail: a range that ends at the largest exact  *)
(* number passes the check of its length and never ends.                   *)
BulkIsBounded == range # None => Len(range.batch) <= MaxBulk
=============================================================================
