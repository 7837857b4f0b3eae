CONSTANTS
    None = None
    s1 = s1
    s2 = s2
    b1 = b1
    b2 = b2
    m1 = m1
    m2 = m2
    Home = s1
    Sessions <- MCSessions
    Before <- MCBefore
    Messages <- MCMessages
    TailTurns = 1
    Habits <- MCSteady
    MaxText = 2
    MaxEvents = 2
    MaxTasks = 2
    MaxBoots = 2
    MaxTroubles = 1
SPECIFICATION Spec
INVARIANTS
    HeardWhileListening
    RestShowsWhatIsStored
    SlotsTellTheTruth
SYMMETRY MCSymmetry
CHECK_DEADLOCK FALSE
