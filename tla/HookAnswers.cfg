\* Commands do not overlap the start of a daemon.
SPECIFICATION FairSpec
CONSTANTS
    h1 = h1
    h2 = h2
    Hooks <- TwoHooks
    User = User
    MaxCommands = 1
    MaxCrashes = 1
    Overlap = FALSE
INVARIANTS
    TypeOK
    SkippedOnlyWhenPaused
    PauseHonoured
    StopIsKept
PROPERTY HookIsAnswered
CHECK_DEADLOCK FALSE
