SPECIFICATION Spec
CONSTANTS
    KeepTurns = 1
    MaxFailures = 2
    MaxMessages = 4
    MaxEpochs = 2
    MaxFaults = 1
    MaxCrashes = 1
INVARIANTS
    RowsMatchMemory
    PlainRowsAreInOrder
PROPERTIES
    NoMessageIsLost
    EpochsAreFresh
CHECK_DEADLOCK FALSE
