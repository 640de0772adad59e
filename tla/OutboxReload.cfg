CONSTANTS
    NumMsgs = 1
    MaxAttempts = 1
    MaxConns = 2
    MaxSeals = 1
    MaxQueue = 1
    MaxOpens = 2
    MaxWrites = 2
    None = None
SPECIFICATION FairReloadSpec
INVARIANTS
    Durable
    Restored
PROPERTY Settles
CHECK_DEADLOCK FALSE
