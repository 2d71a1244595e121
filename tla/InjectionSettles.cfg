SPECIFICATION FairSpec
CONSTANTS
    h1 = h1
    h2 = h2
    s1 = s1
    s2 = s2
    w1 = w1
    w2 = w2
    w3 = w3
    NoSession = NoSession
    Hooks <- TwoHooks
    Sessions <- OneSession
    Timers <- TwoTimers
    SlowWrites = FALSE
INVARIANTS
    TypeOK
    RulesFollowBlock
    QuietIsSaved
    FlushSaves
PROPERTIES
    SettledIsSaved
CHECK_DEADLOCK FALSE
