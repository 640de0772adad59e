CONSTANTS
    Tab = {t1, t2}
    Out = {o1}
    In = {m1}
    Leaver = {t1, t2}
    MaxSent = 2
    MaxOpen = 2
    None = None
SPECIFICATION Spec
SYMMETRY Symmetry
INVARIANTS
    ReuseNeedsRollback
    RefNotAhead
    AckedIsSpent
PROPERTY ImplementsSerialSession
