CONSTANTS
    None = None
    s1 = s1
    s2 = s2
    b1 = b1
    b2 = b2
    m1 = m1
    m2 = m2
    Home = s1
    Sessions <- MCSessions
    Before <- MCBefore
    Messages <- MCOneMessage
    TailTurns = 1
    Habits <- MCHurry
    MaxText = 1
    MaxEvents = 2
    MaxTasks = 2
    MaxBoots = 2
    MaxTroubles = 0
SPECIFICATION Spec
INVARIANTS
    RunningTurnIsHeard
CHECK_DEADLOCK FALSE
