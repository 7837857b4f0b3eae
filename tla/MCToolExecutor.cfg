CONSTANTS
    NCalls = 3
    Kinds <- SomeKinds
    MaxConcurrency = 2
SPECIFICATION SortedSpec
CHECK_DEADLOCK FALSE
INVARIANTS
    EveryCallHasOneResult
    OnlyAllowedCallsRun
PROPERTIES
    BatchEnds
    BatchKeepsTheLifecycle
