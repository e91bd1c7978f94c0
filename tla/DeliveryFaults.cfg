SPECIFICATION Spec
CONSTANTS
    Cycles = {c1}
    NoCycle = none
    DirectCap = 4
    MaxDrops = 1
    MaxCrashes = 1
    MaxMasterCrashes = 0
    MaxFailures = 1
INVARIANTS
    ClearedOnlyAfterRun
    OneJobPerCycle
    EventRecordedOnce
    ClaimedHasJob
PROPERTIES
    ImplementsContract
CHECK_DEADLOCK FALSE
