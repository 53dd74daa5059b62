------------------------------- MODULE CallState -------------------------------
(***************************************************************************)
(* What the modules that ask one question at a time share: the variable    *)
(* that holds the question with its answer.                                *)
(***************************************************************************)
VARIABLE call

None == [op |-> "none"]
=============================================================================
