\* Two workers and one user's Turns, with a cancel, a crash and an overrun.
SPECIFICATION FairSpec
CONSTANTS
    w1 = w1
    w2 = w2
    u = u
    o = o
    t1 = t1
    Messages = {t1}
    Turns = {t1}
    Sessions = {t1}
    SessionOf <- MCSessionOf
    UserOf <- MCUserOf
    Workers = {w1, w2}
    Owners = {o}
    WorkerIds = {o}
    IdOf <- MCIdOf
    NoOwner = NoOwner
    NoWorkerId = NoOwner
    NoTurnId = NoTurnId
    LeaseTicks = 1
    TurnLeaseTicks = 1
    RetryTicks = 1
    MaxClaims = 3
    StreamKinds = {"checkpoint", "completed", "failed"}
    MaxAttempts = 2
    MaxEvents = 2
    MaxFaults = 1
INVARIANTS
    EventsInFenceOrder
    AckedMeansOver
    SessionFollowsTurns
PROPERTIES
    OverForGood
    TurnSettles
CHECK_DEADLOCK FALSE
