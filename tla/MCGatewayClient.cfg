SPECIFICATION Spec
CONSTANTS
    c1 = c1
    c2 = c2
    Conn <- MCConn
    None = None
    MaxMounts = 1
    MaxFaults = 1
INVARIANTS
    ReconnectIsFresh
CHECK_DEADLOCK FALSE
