\* Readers, interrupts and callbacks on two CPUs.
SPECIFICATION Spec
CONSTANTS
    r1 = r1  r2 = r2  b1 = b1  b2 = b2
    NrCpus = 2
    Tasks = {r1, r2}
    Idle = Idle
    None = None
    MaxNesting = 1
    WatchModulus = 4
    IrqCpus = {1}
    Mortal = {r1, r2}
    Callbacks = {b1, b2}
    Producers = {1, 2}
    Budget = 1
    MaxDrains = 1
SYMMETRY Symmetry
CONSTRAINT Bound
INVARIANTS
    NodesMatchOwners
    GracePeriodHonoured
    DriverAssertions
    DrainComplete
