SPECIFICATION Spec
CONSTANTS
    Threads = {p1, p2}
    Signalled = {p1}
    Timed = {}
    Callers = {a1, a2}
    k1 = k1
    k2 = k2
    Keys = {k1}
    BucketOf <- StoreBucketOf
    Values = {0, 1}
    Masks <- OneMask
    Counts = {2}
    Ops = {"store_wake"}
    MaxWaits = 2
    MaxCalls = 1
    None = None
SYMMETRY CallerSymmetry
INVARIANTS NoMissedStore WokenIsNotified WakeNotSwallowed
PROPERTY ImplementsFutex
CHECK_DEADLOCK FALSE
