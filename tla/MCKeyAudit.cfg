CONSTANTS
    Key = {k1, k2}
    Call = {a1, a2}
    MaxLog = 2
    MaxFrames = 1
    None = None
SPECIFICATION Spec
SYMMETRY Symmetry
INVARIANTS
    WarningJustified
    PinChangeWarned
    OnRecord
