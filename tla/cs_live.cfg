SPECIFICATION FairSpec
CONSTANTS
    t1 = t1
    t2 = t2
    NoTurn = NoTurn
    Turns <- MCTwo
    MaxProcs = 1
    Registered <- MCNone
    Timed <- MCTwo
    Gated = TRUE
    Faults = {"closes", "read-error", "write-error"}
CHECK_DEADLOCK FALSE
INVARIANT NobodyForgotten
PROPERTIES
    SendsSettle
    RestartAnswered
