SPECIFICATION FairSpec
CONSTANTS
    p1 = p1
    p2 = p2
    p3 = p3
    Procs <- ThreeProcs
    NoFile = NoFile
    Handlers = {}
    SignalPoints = {"serving"}
    SignalInStop = FALSE
    Stopped <- ThreeProcs
    SlowPing = TRUE
    PidWriteFails = TRUE
    MaxStarting = 1
    MaxCrashes = 2
    MaxCli = 0
INVARIANTS
    TypeOK
    ServingReachable
    LockCoversLife
PROPERTIES
    LoneStartServes
CHECK_DEADLOCK FALSE
