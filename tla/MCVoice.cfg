SPECIFICATION Spec
CONSTANTS
    v1 = v1
    v2 = v2
    c1 = c1
    c2 = c2
    Channel <- MCChannel
    Caller <- MCCaller
    Media <- MCMedia
    None = None
    MaxRooms = 3
    MaxChanges = 0
INVARIANTS
    OneCall
CHECK_DEADLOCK FALSE
