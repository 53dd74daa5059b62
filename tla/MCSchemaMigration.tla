-------------------------- MODULE MCSchemaMigration --------------------------
(* Four versions and up to three migrations: the longest chain uses every   *)
(* iteration of the walk; loops of two and three versions, competing        *)
(* migrations from one version, dead ends and errors occur beside it.       *)
EXTENDS SchemaMigration, TLC

MCSymmetry == Permutations(Versions)
=============================================================================
