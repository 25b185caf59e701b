\* Three workers on one message, two of them under one worker id.  MaxClaims is
\* past what the budgets and the faults allow, so that it never stops a claim.
SPECIFICATION DeliveryFairSpec
CONSTANTS
    m1 = m1
    w1 = w1
    w2 = w2
    w3 = w3
    o1 = o1
    o2 = o2
    Messages = {m1}
    Claimants = {w1, w2, w3}
    Owners = {o1, o2}
    NoOwner = NoOwner
    NothingHeld = NothingHeld
    OwnerOf <- MCOwnerOf
    Budgets <- MCBudgets
    LeaseTicks = 2
    RetryTicks = 1
    MaxClaims = 7
    MaxDeliveryFaults = 3
INVARIANTS
    OneClaimPasses
    PlanStaysTrue
PROPERTIES
    EventuallySettled
CHECK_DEADLOCK FALSE
