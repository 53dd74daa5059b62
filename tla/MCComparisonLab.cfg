SPECIFICATION Spec
CONSTANTS
    Inputs <- MCInputs
    Blank = ""
    InitialOf <- MCInitialOf
    Colours = 2
    MaxRuns = 3
INVARIANT ListIsWhatCameBack
PROPERTY ButtonComesBack
CHECK_DEADLOCK FALSE
