SPECIFICATION Spec
CONSTANTS
    t1 = t1
    t2 = t2
    d1 = d1
    d2 = d2
    Threads <- OneThread
    Dirs <- OneDir
    Global = Global
    NoPause = NoPause
    Durations = {0, 2}
    MaxAwake = 3
    MaxSlept = 1
INVARIANTS
    TypeOK
    FallbackFailsSafe
    PauseSurvives
    PauseBounded
SYMMETRY Symmetry
CHECK_DEADLOCK FALSE
