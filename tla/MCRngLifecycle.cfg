SPECIFICATION Spec
CONSTANTS
    BufferUnits = 4
    ReseedUnits = 2
    Sizes = {2}
    MaxInstances = 3
    MaxSeeds = 3
    MaxOutput = 4
INVARIANTS
    ForwardSecret
    NeverRepeats
    KeysStayInside
    CollisionsAreKnown
