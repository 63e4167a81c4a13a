CONSTANTS
    s1 = s1
    s2 = s2
    s3 = s3
    Server = {s1, s2, s3}
    None = None
    MaxTerm = 1
    MaxOps = 2
    MaxInFlight = 2
    MaxRestarts = 1
    Crashing = {s3}
    MaxSnapshots = 1
    Timers = {s1}
    Electors = {s2}
    Workers = {s2,s3}
    Busy = {}
    Appliers = {s1,s3}
SPECIFICATION Spec
CHECK_DEADLOCK FALSE
INVARIANTS
    MatchIndexSound
    ServiceAppliesCommittedPrefix
    SnapshotIsCommittedPrefix
PROPERTIES
    NeverBackwards
