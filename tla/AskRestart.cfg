SPECIFICATION FairSpec
CONSTANTS
    i1 = i1
    i2 = i2
    t1 = t1
    t2 = t2
    None = None
    Fallback = Fallback
    Decisions = {"allow", "block"}
    Invocations <- TwoInvocations
    Trays <- OneTray
    Timeout = 1
    MaxRestarts = 1
INVARIANTS
    TypeOK
    OwnDecision
    FallbackInTime
PROPERTIES
    FirstDecisionCounts
    HookIsAnswered
CHECK_DEADLOCK FALSE
