SPECIFICATION Spec
CONSTANTS
    Adders = {a1, a2}
    Runners = {r1, r2}
    MaxId = 2
    MaxCrashes = 1
    MaxAborts = 0
INVARIANT NoIdReuse
SYMMETRY Symmetry
CHECK_DEADLOCK FALSE
