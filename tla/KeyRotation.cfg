SPECIFICATION FairSpec
CONSTANTS
    MaxKeys = 5
    MaxFaults = 3
    MaxTicks = 1
    Overlap = TRUE
INVARIANTS PeersAgree
PROPERTIES IntentIsKept NewestTakesEffect
CHECK_DEADLOCK FALSE
