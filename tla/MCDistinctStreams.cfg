SPECIFICATION CallsSpec
CONSTANTS
    MaxItems = 6
    StateWidth = 8
    Shifts <- MCShifts
    Golden = 21
    U32Size = 40
    LargestExact = 64
    MaxStored = 7
    Starts <- MCStarts
    Limits <- MCLimits
    Requests <- MCRequests
    Specs <- MCSpecs
    Images <- MCImages
    Texts <- MCTexts
    ByteStrings <- MCByteStrings
    Series <- MCSeries
    Canvases <- MCCanvases
    Comparisons <- MCComparisons
    Corals <- MCCorals
    Parities <- MCParities
    WordSize = 2
    Fitness <- MCFitness
    Patience = 2
    MostChecked = 2
    Budget = 6
    Moves <- MCMoves
    Shuffles <- MCWiringShuffles
    Given <- MCGiven
    Others <- MCOthers
    MostRounds = 3
INVARIANT DistinctAreCounted
CHECK_DEADLOCK FALSE
