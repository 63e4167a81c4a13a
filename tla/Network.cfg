CONSTANTS
    c1 = c1
    c2 = c2
    NoConn = NoConn
    Call = {c1, c2}
    Conn = {1, 2}
    MaxEpoch = 2
    MaxSwitch = 2
SPECIFICATION NetSpec
INVARIANT AckedIsDurable
PROPERTIES CallReturns SendReceiveReturns
CHECK_DEADLOCK FALSE
