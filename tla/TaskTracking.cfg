SPECIFICATION FairSpec
CONSTANTS
    Minions = {m1}
    Commands = {c1, k1}
    Internal = {k1}
    MaxPongs = 2
    MaxFaults = 3
INVARIANTS IdleMeansCompleted
PROPERTIES EveryTaskIsForgotten
CHECK_DEADLOCK FALSE
