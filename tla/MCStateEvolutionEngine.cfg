SPECIFICATION Spec
CONSTANTS
    States = {s1, s2, s3}
    Hashes = {h1, h2}
    Limits <- MCLimits
    BadInput = BadInput
    NoTrajectory = NoTrajectory
INVARIANTS
    TrackerMirrorsHistory
    CycleVerdictIsFinal
PROPERTIES
    ImplementsContract
