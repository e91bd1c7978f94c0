SPECIFICATION FairSpec
CONSTANTS
    Modes = {"follow", "independent"}
    Freqs = {0, 1}
    MaxFaults = 2
INVARIANTS TypeOK OneRun Watched
PROPERTIES ServesAgain
CHECK_DEADLOCK FALSE
