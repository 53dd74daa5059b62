SPECIFICATION Spec
CONSTANTS
    SystemIds = {"collatz"}
    FirstSystem = "collatz"
    Inputs <- MCInputs
    MaxBulk = 3
    LargestExact = 4
    YieldEvery = 2
    MaxStarts = 2
INVARIANTS
    BulkIsBounded
