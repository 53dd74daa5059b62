---------------------------- MODULE MCLruHistory ----------------------------
(* Four keys over capacities 0 (caching disabled) to 3, so that an eviction *)
(* always has keys to choose from; seven uses allow a key to be evicted and   *)
(* to come back.                                                            *)
EXTENDS LruHistory

MCCapacities == 0 .. 3
MCSymmetry == Permutations(Keys) \cup Permutations(Values)
=============================================================================
