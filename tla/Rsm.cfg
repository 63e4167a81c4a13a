CONSTANTS
    s1 = s1
    s2 = s2
    Server = {s1, s2}
    MaxCalls = 2
    MaxTerm = 2
    MaxEpoch = 2
    Restarting = {s1}
SPECIFICATION FairSpec
CHECK_DEADLOCK FALSE
INVARIANT
    ReplyIsOwnExecution
PROPERTY
    SubmitReturns
