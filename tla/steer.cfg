SPECIFICATION FairSpec
CONSTANTS
    t1 = t1
    t2 = t2
    s1 = s1
    s2 = s2
    None = None
    Turns <- MCTurns
    Steers <- MCSteers
    Events <- MCEvents
CHECK_DEADLOCK FALSE
INVARIANTS
    SteersStayInGoodTurn
    StopIsOwn
    NothingOutlivesStop
PROPERTIES
    ImplementsOwnership
    HeldSettles
