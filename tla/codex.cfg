SPECIFICATION FairSpec
CONSTANTS
    t1 = t1
    t2 = t2
    r1 = r1
    NoTurn = NoTurn
    Other = Other
    Turns <- MCTwo
    Registered <- MCFirst
    Timed <- MCTwo
    Asks <- MCAsk
    Calls = {"push", "stop", "tool"}
    MaxCalls = 1
    Gates = 2
    Inventory = TRUE
    Persisted = TRUE
    Faults = {"write", "bad", "exit", "closes", "again"}
CHECK_DEADLOCK FALSE
INVARIANTS
    HonestEvidence
    GatesAndTools
PROPERTIES
    ImplementsOwnership
    NothingLate
    SendsSettle
