SPECIFICATION FairSpec
CONSTANTS
    Adders = {a1, a2}
    Runners = {r1}
    MaxId = 2
    MaxCrashes = 2
    MaxAborts = 1
INVARIANTS
    NoLostJob
    AckedNeverRestarts
PROPERTIES
    ServedInOrder
    ImplementsJobQueue
    EveryAcceptedJobFinishes
CHECK_DEADLOCK FALSE
