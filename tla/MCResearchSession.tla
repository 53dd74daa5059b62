-------------------------- MODULE MCResearchSession --------------------------
(* Two systems, ranges of up to three of four states with a yield after     *)
(* two, and three runs or ranges, so that two runs overlap a range; longer  *)
(* ranges are refused.  LargestExact is out of reach but in MCBulkRange.    *)
EXTENDS ResearchSession

MCInputs == 1 .. 4
=============================================================================
