\* Two processes that seal, pass the gate and build, and one late collector.
SPECIFICATION FairSpec
CONSTANTS
    p1 = p1
    p2 = p2
    c1 = c1
    c2 = c2
    k1 = k1
    k2 = k2
    Processes = {p1, p2}
    Collectors = {c1}
    VersionOf <- MCVersionOf
    MessageKey = k1
    RequestKey = k2
    NoProcess = NoProcess
    NoKey = NoKey
    LeaseTicks = 1
    MaxFaults = 2
    MaxBuilds = 2
INVARIANTS
    TypeOK
    ReceiptMatchesEvidence
    SealMatchesMarker
    ReadyMeansBuilt
PROPERTIES
    SealSettles
CHECK_DEADLOCK FALSE
