SPECIFICATION FairSpec
CONSTANTS
    p1 = p1
    p2 = p2
    p3 = p3
    Procs <- TwoProcs
    NoFile = NoFile
    Handlers = {"h"}
    SignalPoints = {"serving"}
    SignalInStop = TRUE
    Stopped <- OneProc
    SlowPing = TRUE
    PidWriteFails = TRUE
    MaxStarting = 2
    MaxCrashes = 1
    MaxCli = 1
INVARIANTS
    LoneStartSucceeds
    NoLockLeftBehind
PROPERTIES
    StopEnds
CHECK_DEADLOCK FALSE
