SPECIFICATION Spec
CONSTANTS
    t1 = t1
    t2 = t2
    NoTurn = NoTurn
    Turns <- MCTwo
    MaxProcs = 2
    Registered <- MCTwo
    Timed <- MCNone
    Gated = FALSE
    Faults = {"refuses", "repeats", "hook"}
CHECK_DEADLOCK FALSE
SYMMETRY Sym
INVARIANTS
    Inductive
    OwnerHolds
    HonestNoSend
    HonestOutcome
PROPERTY ImplementsOwnership
