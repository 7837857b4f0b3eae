CONSTANTS
    FileLines = 3
    Windows <- SomeWindows
    TailLines = {1}
    Edits <- SomeEdits
    MaxBatch = 2
    MaxEvents = 4
SPECIFICATION Spec
CHECK_DEADLOCK FALSE
INVARIANTS
    SpansWereShown
    StubsRefer
