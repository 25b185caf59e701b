\* The worker's loops alone, without a reconciliation backend; MaxClaims is past
\* what the attempts and the faults allow, so it never stops a claim.
SPECIFICATION FairSpec
CONSTANTS
    d1 = d1
    d2 = d2
    d3 = d3
    o1 = o1
    o2 = o2
    Messages = {r1}
    Dispatchers = {d1, d2}
    Loopers = {d1, d2}
    Owners = {o1, o2}
    OwnerOf <- MCOwnerOf
    NoOwner = NoOwner
    NoRun = NoRun
    NoJob = NoJob
    LeaseTicks = 1
    RetryTicks = 1
    MaxClaims = 6
    MaxAttempts = 2
    HasReconcile = FALSE
    HasCancel = TRUE
    Elements = 1
    MaxCrashes = 1
    MaxOverruns = 1
PROPERTIES
    SubmissionSettles
CHECK_DEADLOCK FALSE
