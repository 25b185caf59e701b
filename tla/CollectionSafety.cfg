\* Two workers with ids of their own, takeovers, and a drain that defers logs_finalize.
SPECIFICATION Spec
CONSTANTS
    status = status
    logs = logs
    w1 = w1
    w2 = w2
    w3 = w3
    o1 = o1
    o2 = o2
    Tasks = {status, logs}
    Reactivated = {status}
    Deferrable = {logs}
    Workers = {w1, w2}
    Owners = {o1, o2}
    OwnerOf <- MCOwnId
    Messages <- MCMessages
    NoOwner = NoOwner
    NoMessage = NoMessage
    Budget = 2
    MaxGenerations = 2
    MaxDeferrals = 1
    MaxCrashes = 1
    MaxOverruns = 1
    LeaseTicks = 1
    RetryTicks = 1
    MaxClaims = 2
INVARIANTS
    AckedMeansSettled
PROPERTIES
    SettledTaskStays
    WrittenByItsGeneration
CHECK_DEADLOCK FALSE
