SPECIFICATION FairSpec
CONSTANTS
    Cycles = {c1}
    NoCycle = none
    DirectCap = 1
    MaxDrops = 1
    MaxCrashes = 0
    MaxMasterCrashes = 1
    MaxFailures = 0
INVARIANTS
    NothingStranded
PROPERTIES
    SubmittedIsCleared
    JournalIsFreed
CHECK_DEADLOCK FALSE
