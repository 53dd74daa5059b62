SPECIFICATION FairSpec
CONSTANTS
    r1 = r1
    r2 = r2
    r3 = r3
    Requests = {r1, r2, r3}
    Queries <- MCQueries
    Systems = {"collatz", "five"}
    UnknownIds = {"other"}
    Raws = {"plain", "spaced"}
    States = {"27"}
    Canonical <- MCCanonical
    Limits = {"few", "many"}
    Bounds = {0, 1}
    Default <- MCDefault
INVARIANTS
    CacheTransparent
    NoDuplicateWork
PROPERTIES
    PoisonEndsTauri
    ImplementsService
    EveryRequestFinishes
