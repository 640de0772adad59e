CONSTANTS
    NumMsgs = 2
    MaxAttempts = 2
    MaxConns = 2
    MaxSeals = 2
    MaxQueue = 1
    None = None
SPECIFICATION Spec
INVARIANTS
    NoMessageLost
    AttemptsBounded
    OneEnvelope
PROPERTIES SentUntilDelivered ImplementsDelivery
CHECK_DEADLOCK FALSE
