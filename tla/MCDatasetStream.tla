-------------------------- MODULE MCDatasetStream --------------------------
(* A dataset larger than the cap, two runs so that a stopped one overlaps   *)
(* the next, a table smaller than the dataset and a flush every two rows.   *)
EXTENDS DatasetStream
=============================================================================
