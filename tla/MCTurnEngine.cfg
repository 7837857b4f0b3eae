SPECIFICATION Spec
CONSTANTS
    MaxTurns = 2
    MaxCalls = 2
    MaxBatch = 2
    MaxFaults = 1
    MaxReact = 1
    FailLimit = 2
    MaxNudges = 1
INVARIANTS
    ApprovalsMatchOpenCalls
    IdleTurnClosedUnlessPaused
    NoRequestWhileAsking
    FailureCountIsEarned
    RequestBudget
PROPERTIES
    ApprovalsAreResolved
    CallsKeepTheirLifecycle
CHECK_DEADLOCK FALSE
