CONSTANTS
    g1 = g1
    g2 = g2
    w1 = w1
    w2 = w2
    c1 = c1
    c2 = c2
    Controller = {c1}
    Creators = {c1}
    Reliable = {}
    Group = {g1, g2}
    NoGroup = NoGroup
    Gid1 = g1
    NShards = 1
    Write = {w1, w2}
    ShardOf <- OneShard
    Assignment <- BackAndForth
    None = None
    MaxNum = 3
    MaxEpoch = 1
    MaxVersion = 1
SPECIFICATION Spec
CHECK_DEADLOCK FALSE
SYMMETRY WriteSymmetry
PROPERTIES
    ImplementsStore
