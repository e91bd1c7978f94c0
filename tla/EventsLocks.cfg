SPECIFICATION FairSpec
CONSTANTS
    c1 = c1  c2 = c2  m1 = m1  m2 = m2
    e1 = e1  e2 = e2  e3 = e3  r1 = r1
    Cycles <- MCCycles
    Minions <- MCMinions
    Events <- MCEvents
    Reports <- MCReports
    CycleOf <- MCCycleOf
    MinionOf <- MCMinionOf
    TimeOf <- MCTimeOf
    Limit = 1
    MaxTime = 2
    MaxReplays = 1
    MaxCalls = 2
    MaxCrashes = 0
PROPERTY LocksAreReleased
CHECK_DEADLOCK FALSE
