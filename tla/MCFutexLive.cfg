SPECIFICATION LiveSpec
CONSTANTS
    Threads = {p1}
    Signalled = {}
    Timed = {p1}
    Callers = {a1, a2}
    k1 = k1
    k2 = k2
    Keys = {k1, k2}
    BucketOf <- TwoBucketsOf
    Values = {0}
    Masks <- OneMask
    Counts = {1}
    Ops = {"wake", "requeue", "wake_op"}
    MaxWaits = 1
    MaxCalls = 1
    None = None
PROPERTIES WokenReturns CallsReturn
CHECK_DEADLOCK FALSE
