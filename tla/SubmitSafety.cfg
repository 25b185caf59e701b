\* Two worker loops and an API request race for one Run that is a job array,
\* with cancels, a crash and two leases that run out in use.
SPECIFICATION Spec
CONSTANTS
    d1 = d1
    d2 = d2
    d3 = d3
    o1 = o1
    o2 = o2
    Messages = {r1}
    Dispatchers = {d1, d2, d3}
    Loopers = {d1, d2}
    Owners = {o1, o2}
    OwnerOf <- MCOwnerOf
    NoOwner = NoOwner
    NoRun = NoRun
    NoJob = NoJob
    LeaseTicks = 1
    RetryTicks = 1
    MaxClaims = 3
    MaxAttempts = 2
    HasReconcile = TRUE
    HasCancel = TRUE
    Elements = 2
    MaxCrashes = 1
    MaxOverruns = 2
INVARIANTS
    AtMostOneSubmit
    FailedMeansNoJob
PROPERTIES
    KeepsPromise
CHECK_DEADLOCK FALSE
