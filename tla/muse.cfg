SPECIFICATION FairSpec
CONSTANTS
    t1 = t1
    t2 = t2
    r1 = r1
    q1 = q1
    NoTurn = NoTurn
    Own = Own
    Turns <- MCTwo
    Registered <- MCOne
    Timed <- MCTwo
    Asks <- MCAsk
    Quizzes <- MCQuiz
    MaxCalls = 1
    Askers <- MCAskers
    Late <- MCOne
    Calls = {"push", "stop", "interrupt"}
    Sources = {"start", "fork"}
    Persisted = TRUE
    Handled = TRUE
    Faults = {"bad", "exit", "own"}
CHECK_DEADLOCK FALSE
INVARIANTS
    HonestEvidence
    CreditedRight
PROPERTIES
    ImplementsOwnership
    SendsSettle
    WaitsEnd
