SPECIFICATION Spec
CONSTANTS
    d1 = d1
    d2 = d2
    w1 = w1
    k1 = k1
    k2 = k2
    h1 = h1
    h2 = h2
    Nobody = Nobody
    Decisions <- MCTwo
    Warmups <- MCWarm
    Holders <- MCHolders
    Limits = {1, 2, 3}
    Specs <- MCSpecs
    MaxSessions = 1
    MaxGens = 2
CHECK_DEADLOCK FALSE
INVARIANT
    BranchesOver
