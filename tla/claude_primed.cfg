SPECIFICATION Spec
CONSTANTS
    d1 = d1
    d2 = d2
    e1 = e1
    k1 = k1
    k2 = k2
    h1 = h1
    h2 = h2
    Nobody = Nobody
    Holders <- MCTwo
    Limits = {1, 2}
    Evicts <- MCEvicts
    Specs <- MCSpecs
    Bare <- MCBare
    MaxSessions = 1
    Leavers = {d1}
    Spared = TRUE
    Faults = {"prime", "limited", "exit", "idle", "close"}
CHECK_DEADLOCK FALSE
INVARIANTS
    SlotsConserved
    TranscriptsHeld
    ToldTruly
    ClosedClean
