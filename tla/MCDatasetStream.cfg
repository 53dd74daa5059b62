SPECIFICATION FairSpec
CONSTANTS
    Items = 5
    Cap = 4
    RowWindow = 3
    FlushEvery = 2
    MaxRuns = 2
INVARIANTS
    RowsAreAPrefix
    EndedIsComplete
    DisplayFollows
PROPERTIES
    EveryRunEnds
