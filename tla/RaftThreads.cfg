CONSTANTS
    p1 = p1
    Peer = {p1}
    MaxTerm = 1
    MaxLog = 2
    MaxSaved = 1
    MaxLost = 1
SPECIFICATION ThreadSpec
INVARIANTS
    StoppedIsQuiet
PROPERTIES
    LeaderReplicates
    KillStops
CHECK_DEADLOCK FALSE
