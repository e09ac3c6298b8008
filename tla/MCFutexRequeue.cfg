SPECIFICATION Spec
CONSTANTS
    Threads = {p1, p2}
    Signalled = {}
    Timed = {p1, p2}
    Callers = {a1, a2}
    k1 = k1
    k2 = k2
    Keys = {k1, k2}
    BucketOf <- TwoBucketsOf
    Values = {0}
    Masks <- OneMask
    Counts = {0, 1}
    Ops = {"wake", "requeue"}
    MaxWaits = 1
    MaxCalls = 1
    None = None
SYMMETRY Symmetry
INVARIANTS TypeOK QueueMatchesRoute WokenIsNotified WakeNotSwallowed
PROPERTY ImplementsFutex
CHECK_DEADLOCK FALSE
