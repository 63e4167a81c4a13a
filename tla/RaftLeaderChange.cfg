CONSTANTS
    s1 = s1
    s2 = s2
    s3 = s3
    Server = {s1, s2, s3}
    None = None
    MaxTerm = 3
    MaxOps = 2
    MaxInFlight = 1
    MaxRestarts = 1
    Crashing = {s1, s3}
    MaxSnapshots = 0
    Timers = {s1,s2}
    Electors = {s3}
    Workers = {s1,s3}
    Busy = {s3}
    Appliers = {}
SPECIFICATION Spec
CHECK_DEADLOCK FALSE
INVARIANTS
    StateMachineSafety
    ElectableServersHoldCommitted
    BackoffMakesProgress
    LogMatching
    PersistBeforeReply
    OneVotePerTerm
    ElectionSafety
