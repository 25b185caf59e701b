\* Two workers, polls that raise and a lease that runs out in use; the bytes
\* left of the budget always do for one quantum of each stream.
SPECIFICATION Spec
CONSTANTS
    w1 = w1
    w2 = w2
    Workers = {w1, w2}
    LeaseTicks = 1
    Quantum = 1
    Budgets = {2}
    HasCancel = FALSE
    FingerprintBytes = 1
    MaxBytes <- LogBytes
    MaxRotations <- OneRotation
    MaxReadErrors = 1
    MaxHandoffErrors = 0
    MaxCrashes = 0
    MaxOverruns = 1
SYMMETRY MCSymmetry
INVARIANTS
    StoppedMeansDrained
PROPERTIES
    ReleasedAfterStop
