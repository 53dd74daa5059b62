SPECIFICATION Spec
CONSTANTS
    Items = 2
    Cap = 3
    RowWindow = 2
    FlushEvery = 2
    MaxRuns = 2
PROPERTIES
    NoRowAfterStop
