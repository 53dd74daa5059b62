-------------------------- MODULE MCTrajectoryHost --------------------------
(* Two spellings of one state, one of which a second system refuses, two    *)
(* limits and the absent one, and a cache of one entry so that every store  *)
(* evicts; three requests, so that an evicted key may be asked for again.   *)
EXTENDS TrajectoryHost

CONSTANTS r1, r2, r3

MCCanonical ==
    [collatz |-> [plain |-> "27", spaced |-> "27"],
     five    |-> [plain |-> "27", spaced |-> Invalid]]

MCDefault == [limit |-> "many", bound |-> 1]

Ask(system, raw, limit, bound) ==
    [system |-> system, raw |-> raw, limit |-> limit, bound |-> bound]

MCQueries ==
    {Ask("collatz", "plain", limit, 1) : limit \in Limits \cup {Absent}} \cup
    {Ask("collatz", "spaced", "many", 1), Ask("collatz", "plain", "many", 0),
     Ask("five", "plain", "many", 1), Ask("five", "spaced", "few", 1),
     Ask("other", "plain", "many", 1)}
=============================================================================
