----------------------- MODULE MCStateEvolutionEngine -----------------------
(* Every system over three states and two hash values, every input, and    *)
(* limits below, at and above the longest orbit without a repetition.      *)
EXTENDS StateEvolutionEngine

MCLimits == 0 .. 4
=============================================================================
