\* One task, two workers under one worker id and one API client.  The system may
\* stop: when the task is over and told, or when its requests are used up.
CONSTANTS
    w1 = w1
    w2 = w2
    c1 = c1
    worker = worker
    Messages <- MCMessages
    Owners = {worker}
    NoOwner = NoOwner
    LeaseTicks = 1
    RetryTicks = 0
    MaxClaims = 3
    Workers = {w1, w2}
    Clients = {c1}
    IdOf <- MCIdOf
    Nobody = Nobody
    NoMessage = NoMessage
    MaxAttempts = 2
    MaxStamps = 1
    MaxRequests = 1
    MaxFaults = 1
SPECIFICATION Spec
SYMMETRY MCSymmetry
INVARIANTS
    TypeOK
    SubmittedMeansLinked
    SucceededMeansGated
    OutcomeReachesSession
CHECK_DEADLOCK FALSE
