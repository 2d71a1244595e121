SPECIFICATION Spec
CONSTANTS
    MaxEntries = 1
    Batch = 1
    MaxEvents = 3
    MaxFaults = 0
INVARIANTS
    KeepsMostRecent
CHECK_DEADLOCK FALSE
