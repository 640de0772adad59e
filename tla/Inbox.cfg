CONSTANTS
    Msg = {m1}
    Key = {k1, k2}
    MaxOpen = 2
    MaxKeys = 2
    None = None
SPECIFICATION FairSpec
INVARIANTS
    QueueKept
    DrainedWhenReady
    SessionOfPresentKey
PROPERTY DeferredIsTried
