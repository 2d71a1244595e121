SPECIFICATION FairSpec
CONSTANTS
    MaxEntries = 1
    Batch = 1
    MaxEvents = 2
    MaxFaults = 1
INVARIANTS
    TypeOK
    ImportedOnce
    HistoryKept
PROPERTIES
    AllImported
CHECK_DEADLOCK FALSE
