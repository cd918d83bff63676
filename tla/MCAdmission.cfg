SPECIFICATION PartSpec
CONSTANTS
    User = {u1, u2, u3}
    Email = {e1, e2}
    Name = {n1, n2, n3}
    Patch = {p1, p2}
    Request = {r1, r2, r3}
    Limit = 1
    Window = 6
    Delay = 1
    Skew = 1
    MaxTime = 12
INVARIANTS
    EmailsHeld
    
    NothingBurned
    LimitHolds
 
SYMMETRY Symmetry
CHECK_DEADLOCK FALSE
