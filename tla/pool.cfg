SPECIFICATION Spec
CONSTANTS
    a = a
    b = b
    s1 = s1
    s2 = s2
    s3 = s3
    None = None
    Instances <- MCInstances
    Sessions <- MCSessions
    Enabled <- MCInstances
    Resumes <- MCInstances
    Limit <- MCLimit
    Key <- MCKey
CHECK_DEADLOCK FALSE
SYMMETRY Sym
INVARIANTS
    CapacityHeld
    NoFork
    NoLeak
