---------------------------- MODULE MCComparisonLab ----------------------------
EXTENDS ComparisonLab

(* "06" is 6 typed otherwise, "x" is refused and echoed. *)
MCInputs == {"6", "06", "7", "x"}
MCInitialOf == [i \in MCInputs |-> IF i = "06" THEN "6" ELSE i]
=============================================================================
