SPECIFICATION Spec
CONSTANTS
    t1 = t1
    t2 = t2
    NoTurn = NoTurn
    Turns <- MCOne
    MaxProcs = 1
    Registered <- MCOne
    Timed <- MCOne
    Gated = FALSE
    Faults = {}
CHECK_DEADLOCK FALSE
INVARIANT NobodyForgotten
