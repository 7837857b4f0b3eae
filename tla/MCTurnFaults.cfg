SPECIFICATION FairSpec
CONSTANTS
    MaxTurns = 1
    MaxCalls = 2
    MaxBatch = 2
    MaxFaults = 2
    MaxReact = 2
    FailLimit = 2
    MaxNudges = 1
INVARIANTS
    OneResultPerCall
PROPERTIES
    CommandEnds
    CallsKeepTheirLifecycle
CHECK_DEADLOCK FALSE
