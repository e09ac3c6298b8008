\* A claim delayed past the task's next wakeup.
SPECIFICATION Spec
CONSTANTS
    c1 = c1  c2 = c2  t1 = t1  t2 = t2  h1 = h1  w1 = w1  w2 = w2  s1 = s1
    CPUs = {c1, c2}
    Tasks = {t1, t2}
    Main = t1
    Budgeted = {}
    Helpers = {}
    Wakers = {w1}
    Setters = {}
    Masks <- OneMask
    StaleClaims = TRUE
    Idle = Idle
    None = None
SYMMETRY CpuSymmetry
INVARIANT HandOff
