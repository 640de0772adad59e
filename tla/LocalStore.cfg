CONSTANTS
    Tab = {t1, t2}
    Record = {r1, r2}
    Session = r1
    MaxKeys = 3
    MaxOuts = 1
    None = None
SPECIFICATION Spec
INVARIANT ReadableUntilLogout
