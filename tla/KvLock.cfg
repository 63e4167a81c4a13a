CONSTANTS
    c1 = c1
    c2 = c2
    c3 = c3
    Client = {c1, c2, c3}
    Free = Free
    MaxVersion = 5
SPECIFICATION LockFairSpec
CHECK_DEADLOCK FALSE
INVARIANTS
    MutualExclusion
    HolderKnows
PROPERTIES
    FreeLockIsTaken
