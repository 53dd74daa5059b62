SPECIFICATION Spec
CONSTANTS
    Versions = {v1, v2, v3, v4}
    NoVersion = NoVersion
    Fails = Fails
    MaxMigrations = 3
SYMMETRY MCSymmetry
INVARIANTS
    FindsTheTarget
    GivesUpOnlyOnALoop
