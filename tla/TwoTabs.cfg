CONSTANTS
    Tab = {t1, t2}
    Out = {o1}
    In = {}
    Leaver = {}
    MaxSent = 2
    MaxOpen = 2
    None = None
SPECIFICATION Spec
INVARIANT NoNumberReuse
