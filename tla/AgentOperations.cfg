\* Two Turns of a session ask for one operation, by two calls at a time.
SPECIFICATION Spec
CONSTANTS
    s = s
    u = u
    o = o
    Turns = {t1, t2}
    t1 = t1
    t2 = t2
    Sessions = {s}
    SessionOf <- MCSessionOf
    UserOf <- MCUserOf
    WorkerIds = {o}
    NoWorkerId = NoWorkerId
    None = None
    TurnLeaseTicks = 1
    Operations = {k1}
    k1 = k1
    Keys = {i1, i2}
    OpOf <- MCOpOf
    i1 = i1
    i2 = i2
    Calls = {c1, c2}
    c1 = c1
    c2 = c2
    MaxFence <- MCMaxFence
    Cancellable = {t1}
INVARIANTS
    EffectAtMostOnce
    CompletedMeansEffect
    AnsweredMeansCompleted
PROPERTIES
    OutcomeStays
SYMMETRY MCSymmetry
CHECK_DEADLOCK FALSE
