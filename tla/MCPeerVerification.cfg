CONSTANTS
    Key = {k1, k2}
    RefreshCall = {c1, c2}
    None = None
SPECIFICATION TrustSpec
SYMMETRY Symmetry
INVARIANTS
    ConfirmedOnly
    VerifiedWasConfirmed
    StatusAgrees
