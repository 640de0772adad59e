CONSTANTS
    Party = {alice, bob}
    MaxSkip = 2
    MaxMsgs = 5
SPECIFICATION Spec
CHECK_DEADLOCK FALSE
SYMMETRY PartySymmetry
INVARIANTS
    NoKeyReuse
    SpentKeysGone
    SkippedKeysAreAwaited
    Recoverable
    DivergesOnlyAtFirstTurn
    RepliesTurnRatchet
PROPERTY ImplementsChannel
