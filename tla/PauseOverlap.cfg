SPECIFICATION Spec
CONSTANTS
    t1 = t1
    t2 = t2
    d1 = d1
    d2 = d2
    Threads <- TwoThreads
    Dirs <- OneDir
    Global = Global
    NoPause = NoPause
    Durations = {0, 1}
    MaxAwake = 1
    MaxSlept = 0
INVARIANTS
    FallbackFailsSafe
SYMMETRY Symmetry
CHECK_DEADLOCK FALSE
