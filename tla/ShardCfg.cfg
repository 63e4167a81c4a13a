CONSTANTS
    Admin = {1, 2}
    Gid = {1, 2, 3}
    NShards = 4
    MaxNum = 3
SPECIFICATION FairSpec
CHECK_DEADLOCK FALSE
INVARIANTS
    RebalanceIsOptimal
    SameResult
PROPERTIES
    RebalanceEnds
