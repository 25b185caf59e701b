\* One worker that crashes and whose hand-overs fail, but whose polls do not,
\* a user who cancels, and budgets that may not do for both streams.
SPECIFICATION FairSpec
CONSTANTS
    w1 = w1
    w2 = w2
    Workers = {w1}
    LeaseTicks = 1
    Quantum = 2
    Budgets = {1, 2}
    HasCancel = TRUE
    FingerprintBytes = 1
    MaxBytes <- LogBytes
    MaxRotations <- OneRotation
    MaxReadErrors = 0
    MaxHandoffErrors = 1
    MaxCrashes = 2
    MaxOverruns = 1
INVARIANTS
    TypeOK
    HandedOffMeansReleased
PROPERTIES
    JobOverSettles
