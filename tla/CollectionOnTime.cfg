\* Workers that share an id and crash, but never outlive a lease.
SPECIFICATION FairSpec
CONSTANTS
    status = status
    logs = logs
    w1 = w1
    w2 = w2
    w3 = w3
    o1 = o1
    o2 = o2
    Tasks = {status, logs}
    Reactivated = {status}
    Deferrable = {}
    Workers = {w1, w2}
    Owners = {o1, o2}
    OwnerOf <- MCSharedId
    Messages <- MCMessages
    NoOwner = NoOwner
    NoMessage = NoMessage
    Budget = 2
    MaxGenerations = 2
    MaxDeferrals = 0
    MaxCrashes = 1
    MaxOverruns = 0
    LeaseTicks = 1
    RetryTicks = 1
    MaxClaims = 4
INVARIANTS
    OneCollectorAtATime
PROPERTIES
    CollectionSettles
CHECK_DEADLOCK FALSE
