SPECIFICATION FairSpec
CONSTANTS
    SystemIds = {"collatz", "five"}
    FirstSystem = "collatz"
    Inputs <- MCInputs
    MaxBulk = 3
    LargestExact = 9
    YieldEvery = 2
    MaxStarts = 3
INVARIANTS
    NothingLost
    RangesAreBlocks
    BusyMeansRunning
PROPERTIES
    PageComesBack
