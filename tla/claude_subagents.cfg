SPECIFICATION SubagentsSpec
CONSTANTS
    d1 = d1
    d2 = d2
    p = p
    q = q
    a = a
    b = b
    Null = Null
    Decisions <- MCTwo
    Roles <- MCRoles
    Contexts <- MCContexts
    MaxSides = 3
    MaxMembers = 2
    MaxSessions = 1
    Specs <- MCSpecs
CHECK_DEADLOCK FALSE
INVARIANTS
    ToldTruly
    OncePerDecision
    WholeInput
    NobodyForgotten
