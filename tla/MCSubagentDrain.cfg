CONSTANTS
    NJobs = 3
    MaxLoops = 1
    MaxTurns = 2
    Troubles = 1
    Normal = Normal
    AutoMode = AutoMode
    Modes <- TwoModes
SPECIFICATION FairSpec
CHECK_DEADLOCK FALSE
INVARIANTS
    CountCoversRunning
    AuthorsModeIsBack
    ReportsAreInOrder
PROPERTIES
    DrainEnds
