SPECIFICATION FairSpec
CONSTANTS
    s1 = s1  s2 = s2  s3 = s3
    Senders = {s1, s2}
    MaxConns = 4
    MaxMessages = 3
INVARIANTS RefusedOnlyWhenOverlapping
PROPERTIES ImplementsOrderedChannel Recovers
CHECK_DEADLOCK FALSE
