CONSTANTS
    Name = {n1, n2}
    Key = {k1, k2}
    Ttl = 1
    MaxId = 3
    MaxTime = 2
    None = None
SPECIFICATION Spec
SYMMETRY Symmetry
INVARIANTS
    SingleUse
    TokenProvesKey
CHECK_DEADLOCK FALSE
