----------------------------- MODULE MCComputations ----------------------------
(***************************************************************************)
(* All calls of Formats, DesignCalls, Instruments, Searches and Reports on *)
(* small inputs, in one run: the five share nothing but the variable that  *)
(* holds the call.                                                         *)
(***************************************************************************)
EXTENDS Formats, DesignCalls


Ints == {Absent, Empty, 0, 1, 7, 39, 40, 41, 64, 65, 67}

MCRequests ==
    [type : {"range", "even", "odd"}, start : Ints, end : Ints]
    \cup [type : {"primes", "powers-of-two"}, count : Ints]
    \cup [type : {"random"}, count : {Absent, 3, 17}, max : {Absent, Empty, 0, 7}, seed : Ints]
    \cup [type : {"csv"}, csv : {<<>>, <<"6">>, <<"6", "", "7">>}]

MCSpecs ==
    [type : {"range", "even", "odd"}, start : 0 .. 4, end : 0 .. 9]
    \cup [type : {"primes", "powers-of-two"}, count : 0 .. 8]
    \cup [type : {"random"}, count : 0 .. 8, max : {0, 1, 5, 255}, seed : {0, 1, 42, 255}]
    \cup [type : {"csv"}, values : {<<>>, <<7>>, <<3, 6, 3>>, <<1, 2, 3, 4, 5, 6, 7, 8>>}]

Grid == (0 .. 1) \X (0 .. 1)
MCImages ==
    { [bits |-> 2, n |-> 4, k |-> k] : k \in
        {[p \in Grid |-> 2], [p \in Grid |-> p[1] + 2 * p[2]], [p \in Grid |-> 4 * p[1]]} }
    \cup { [bits |-> 0, n |-> 4, k |-> [p \in {} |-> 0]] }

MCTexts == {<<>>, <<123, 125>>, <<0, 34, 233, 8364>>}
MCByteStrings == {<<>>, <<0>>, <<255, 255, 255, 255>>, <<49, 50, 51, 52, 53, 54, 55, 56, 57>>}

Values == {NA, 1, 2, 16, 27}
MCSeries == UNION {[1 .. n -> Values] : n \in 0 .. 2} \cup {<<0>>, <<5, 16, 8, 4, 2, 1>>, <<2, NA, 27, 27>>}

MCCorals ==
    { [oddAngle |-> 1, evenAngle |-> -1, lineLength |-> 3, rotation |-> 1],
      [oddAngle |-> 1, evenAngle |-> 0, lineLength |-> 1, rotation |-> 0],
      [oddAngle |-> 2, evenAngle |-> 1, lineLength |-> 2, rotation |-> 3] }
MCParities == UNION {[1 .. n -> 0 .. 1] : n \in 0 .. 4}

MCCanvases == {<<90, 60>>}
MCComparisons ==
    {<<n>> : n \in {0, NA, 7}} \cup ({0, NA, 1, 7, 416} \X (0 .. 20)) \cup {<<n, 3, n>> : n \in {0, 27}}

MCStarts == 1 .. 20 \cup {27, 416}
MCLimits == {1, 4, 30}
MCShifts == <<3, 5, 4>>

-----------------------------------------------------------------------------

MCRotations == <<<<1, 1, 1, 1>>, <<16, 12, 8, 7>>, <<1, 0, 1, 0>>>>

Bits3 == SUBSET (0 .. 2)
Chi == [x \in Bits3 |-> {i \in 0 .. 2 : (i \in x) # ((i + 1) % 3 \notin x /\ (i + 2) % 3 \in x)}]
Linear == [x \in Bits3 |-> {(i + 1) % 3 : i \in x} \cup {}]

MCTables ==
    {[bits |-> 2, map |-> F] : F \in [SUBSET (0 .. 1) -> SUBSET (0 .. 1)]}
    \cup {[bits |-> 3, map |-> Chi], [bits |-> 3, map |-> Linear]}

MCSamples == UNION {{[i \in 1 .. n |-> <<i, y[i]>>] : y \in [1 .. n -> 0 .. 2]} : n \in 0 .. 4}

MCEmitted == [1 .. 3 -> {<<{}, {0}, {1}>>, <<{0}, {0}, {0, 1}>>, <<{1}, {1}, {}>>}]

MCPublished ==
    [philox4x32 |-> <<<<26151, 59605>>, <<57705, 50573>>, <<48215, 44108>>, <<39680, 56280>>>>,
     philox4x64 |-> <<<<5717, 19870, 51766, 12620>>, <<56096, 65181, 26413, 4060>>,
                      <<55271, 29390, 57734, 5995>>, <<32360, 46730, 60539, 41531>>>>,
     threefry4x64 |-> <<<<2337, 36541, 59080, 21815>>, <<21908, 8018, 26328, 24837>>,
                        <<19410, 24086, 10276, 13532>>, <<60969, 60548, 27602, 58379>>>>,
     blake2b |-> <<<<857, 322, 63234, 27256>>>>,
     probe |-> <<<<10479, 58163, 45670, 61699>>>>]

I == INSTANCE Instruments WITH
         Rotations <- MCRotations, Tables <- MCTables,
         Samples <- MCSamples, Emitted <- MCEmitted, Published <- MCPublished

-----------------------------------------------------------------------------

(* Some function of a wiring. *)
MCFitness(t) ==
    (2 * t[2][1][1] + 6 * t[2][4][4] + t[2][2][1] + 2 * t[1][1][1] + t[1][2][2]) % 9

Move(p, g1, g2, i, j) == [p |-> p, g1 |-> g1, g2 |-> g2, i |-> i, j |-> j]
MCMoves == {Move(1, 1, 2, 1, 2), Move(2, 4, 1, 4, 3), Move(2, 1, 2, 1, 1), Move(1, 4, 2, 1, 2)}

(* The last two join their groups in a ring, one move from falling apart.  *)
MCWiringShuffles ==
    {[i \in 1 .. 15 |-> (3 * i + 1) % (i + 1)], [i \in 1 .. 15 |-> i],
     [i \in 1 .. 15 |-> IF i \in {4, 8, 12} THEN i - 4 ELSE i]}

(* Groups of four that follow one another from some lane on, and that      *)
(* stand four apart.                                                       *)
Following(from) == [g \in 1 .. 4 |-> [k \in 1 .. 4 |-> (4 * (g - 1) + k - 1 + from) % 16]]
Apart == [g \in 1 .. 4 |-> [k \in 1 .. 4 |-> g - 1 + 4 * (k - 1)]]
MCOthers == {<<Following(0), Following(1)>>, <<Apart, Apart>>}

(* Words of two bits in every lane, and of 64 with its last bits. *)
Lane(n, width) == {k \in 0 .. width - 1 : (n \div 2^k) % 2 = 1}
MCGiven == {[i \in Lanes |-> Lane(a * i + b, 2)] : a \in {1, 3}, b \in {0, 1, 2}}
MCWide == {[i \in Lanes |-> Lane(a * i + b, 4) \cup {60}] : a, b \in {1, 3}}

M == INSTANCE DesignCalls WITH WordSize <- 64, Given <- MCWide

-----------------------------------------------------------------------------

Deviations == <<<<<<2, 1, 1, 1, 1, 1>>, <<1, 1, 1, 1, 1, 1>>>>, <<<<3, 3, 2, 1, 1, 1>>, <<3, 3, 3, 1, 1, 1>>>>,
             <<<<1, 1, 1, 1, 1, 1>>, <<3, 3, 3, 3, 3, 3>>>>, <<<<3, 1, 3, 3, 1, 2>>, <<3, 3, 1, 1, 1, 1>>>>,
             <<<<2, 2, 2, 2, 2, 2>>, <<3, 2, 2, 2, 2, 2>>>>>>
MCMeasurements ==
    {[d \in 1 .. 6 |-> Deviations[((a * d + b + (d \div 2) * c) % 5) + 1]] : a, b, c \in 0 .. 4}
    \cup {[d \in 1 .. 6 |-> IF d \in 2 .. 5 THEN Deviations[2] ELSE Deviations[4]]}

MCArmTables ==
    {[x \in SUBSET (0 .. 1) |-> x], [x \in SUBSET (0 .. 1) |-> IF x = {} THEN {0, 1} ELSE {}],
     [x \in SUBSET (0 .. 1) |-> IF x = {0, 1} THEN {0} ELSE x \cup {1}]}

MCTimings == UNION {[(0 .. 1) \X (0 .. 2) -> pair] : pair \in {{770, 780}, {780, 840}}}

D == INSTANCE Searches WITH
         Measurements <- MCMeasurements, Tolerance <- 2,
         Tables <- MCArmTables, Timings <- MCTimings

-----------------------------------------------------------------------------

(* Deviations by round count, the tolerance 2. *)
MCDeviations ==
    {<<9, 7, 3, 1, 1, 1, 1, 1, 1, 1, 1>>, <<9, 7, 2, 3, 1, 2, 2, 2, 2, 2, 2>>,
     <<9, 9, 9, 9, 9, 3, 2, 1, 2, 1, 2>>, <<9, 1, 1, 1, 1, 1, 1, 1, 1, 1, 3>>, <<1, 1, 1, 1, 1, 1, 1, 1, 1, 1, 1>>}

(* Correlations by round count and seed, the floor 20 and the band 23. *)
Straddling == <<<<21, 20, 19>>, <<24, 18, 20>>, <<18, 19, 24>>, <<20, 22, 23>>, <<23, 23, 23>>>>
MCCorrelations ==
    {[i \in 1 .. 11 |-> IF i < from THEN <<50, 40, 60>> ELSE Straddling[((a * i) % 5) + 1]] : a \in 0 .. 3, from \in {1, 3, 4}}
    \cup {[i \in 1 .. 11 |-> IF i < from THEN <<20, 20, last>> ELSE <<20, 21, 22>>] : from \in {4, 6, 12}, last \in {23, 24}}

Row(pattern, w1, w2) == [pattern |-> pattern, w1 |-> w1, w2 |-> w2]
MCReadings == {Row(5, 5, 5), Row(17, 17, 17), Row(17, 16, 9)}

ToFour == <<9, 9, 1, 1, 1, 1>>
MCScreens ==
    {[k \in 1 .. 20 |-> IF k = 1 THEN chacha ELSE IF k % a = 0 THEN other ELSE <<9, 9, 9, 9, 9, 9>>] :
        chacha \in {ToFour, <<9, 9, 9, 9, 9, 1>>}, a \in {2, 3, 11},
        other \in {ToFour, <<9, 1, 9, 1, 1, 1>>, <<9, 9, 9, 1, 1, 1>>}}

MCStolen == {<<0, 0, 0>>, <<0, 9, 9>>, <<9, 9, 9>>, <<0, 0, 9>>}

R == INSTANCE Reports WITH
         Series <- MCDeviations, Correlations <- MCCorrelations, Readings <- MCReadings,
         Screens <- MCScreens, Stolen <- MCStolen

(* What the theorems on designs and climbs assume of their constants. *)
ASSUME InstancesFit ==
    /\ DesignAssumption /\ ClimbBounds
    /\ M!DesignAssumption

CallsNext ==
    \/ Next \/ I!Next \/ D!Next \/ R!Next
    \/ ClimbNext
    \/ DesignsNext
    \/ call = None /\ M!Writes
CallsSpec == Init /\ [][CallsNext]_call

(* The promises of Instruments, Searches and Reports, stated there. *)
DesignsPermute == I!DesignsPermute /\ D!GatesTell
SearchesAreSound == D!SearchesAreSound /\ R!ReportsAreSound
BatteriesMeasure == I!BatteriesMeasure
StreamsWeave == I!StreamsWeave /\ R!ArgumentsAreChecked /\ ChecksumsMeetTheirVector
DistinctAreCounted == I!DistinctAreCounted
=============================================================================
