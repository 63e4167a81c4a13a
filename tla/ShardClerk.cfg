CONSTANTS
    t1 = t1
    t2 = t2
    g1 = g1
    g2 = g2
    Thread = {t1, t2}
    Writer = {t1}
    Group = {g1, g2}
    NoGroup = NoGroup
    Plan <- MovesOnce
    NServers = 2
    MaxCalls <- OneWriteTwoReads
    MaxFaults = 1
SPECIFICATION Spec
INVARIANTS
    RouteNeverGoesBack
    ReadIsFresh
PROPERTY CallsReturn
CHECK_DEADLOCK FALSE
