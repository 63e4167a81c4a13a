CONSTANTS
    w1 = w1
    w2 = w2
    w3 = w3
    Worker = {w1, w2, w3}
    Reliable = {w1}
    NMap = 2
    NReduce = 2
SPECIFICATION FairSpec
CHECK_DEADLOCK FALSE
INVARIANTS
    ReducersFindInput
    DoneMeansOutput
PROPERTIES
    JobFinishes
