CONSTANTS
    g1 = g1
    g2 = g2
    w1 = w1
    w2 = w2
    c1 = c1
    c2 = c2
    Controller = {c1, c2}
    Creators = {c1}
    Reliable = {c2}
    Group = {g1, g2}
    NoGroup = NoGroup
    Gid1 = g1
    NShards = 2
    Write = {}
    ShardOf <- NoWrites
    Assignment <- TwoShards
    None = None
    MaxNum = 3
    MaxEpoch = 3
    MaxVersion = 1
SPECIFICATION FairSpec
CHECK_DEADLOCK FALSE
INVARIANTS
    ServingCopyIsNewest
    SettledConfigurationHolds
    PublishedOwnerServes
PROPERTIES
    OwnerFinishesMigration
    PlanIsImmutable
