SPECIFICATION Spec
CONSTANTS
    User = {u1, u2, u3}
    Email = {e1, e2, e3}
    Name = {n1, n2, n3}
    Patch = {p1, p2}
INVARIANT UniqueUsernames
CONSTRAINT NothingFailed
SYMMETRY Symmetry
CHECK_DEADLOCK FALSE
