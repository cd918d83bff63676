SPECIFICATION Spec
CONSTANTS
    me = me
    u1 = u1
    u2 = u2
    Me = me
    Other <- MCOther
    MaxWrites = 3
    MaxToggles = 2
    MaxLoads = 1
INVARIANTS
    EditKeepsReactions
CHECK_DEADLOCK FALSE
