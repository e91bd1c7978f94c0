SPECIFICATION FairSpec
CONSTANTS
    Callers = {p1, p2}
    Cycles = {1}
    MaxBytes = 1
    MaxSeq = 2
    MaxCrashes = 1
INVARIANTS
    NoLostEntry
    AckFreesCycle
    TotalIsExact
    BudgetCaps
PROPERTIES
    CallsReturn
CHECK_DEADLOCK FALSE
