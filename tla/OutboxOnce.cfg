SPECIFICATION FairSpec
CONSTANTS
    e1 = e1
    e2 = e2
    p1 = p1
    p2 = p2
    None = None
    Events <- OneEvent
    Pollers <- OnePoller
    Slots = 1
    QueueSize = 1
    MaxCrashes = 1
INVARIANTS
    TypeOK
    AtMostOnce
PROPERTIES
    OneHolder
    FailureIsRelayed
CHECK_DEADLOCK FALSE
