CONSTANTS
    Party = {alice, bob}
    MaxSkip = 2
    MaxMsgs = 3
SPECIFICATION Spec
CHECK_DEADLOCK FALSE
INVARIANT EitherMaySendFirst
