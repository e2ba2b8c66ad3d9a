SPECIFICATION LimitsFairSpec
CONSTANTS
    w1 = w1
    w2 = w2
    Windows <- MCWindows
    MaxAge = 1
    MaxLeft = 1
    Cooldown = 1
    MaxCooldown = 3
    ProbeCooldown = 1
    MaxFailures = 3
    MaxPolls = 2
INVARIANTS
    BlockedHonoured
PROPERTIES
    Recovers
