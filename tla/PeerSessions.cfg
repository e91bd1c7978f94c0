SPECIFICATION FairSpec
CONSTANTS
    m1 = m1  p1 = p1  p2 = p2  a1 = a1  a2 = a2
    Minions = {m1}
    Procs = {p1, p2}
    MinionOf <- TwinOf
    Addrs = {a1, a2}
    None = None
    Registered = {m1}
    Mortal = {p1}
    Faulty = {p2}
    MaxFaults = 1
INVARIANTS OneChannel ChannelIsWired NoDeadEnd
PROPERTIES NoTakeover GetsIn
CHECK_DEADLOCK FALSE
