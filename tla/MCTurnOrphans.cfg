SPECIFICATION Spec
CONSTANTS
    MaxTurns = 1
    MaxCalls = 2
    MaxBatch = 2
    MaxFaults = 0
    MaxReact = 2
    FailLimit = 2
    MaxNudges = 0
INVARIANTS
    ResultsReachTheLLM
CHECK_DEADLOCK FALSE
