CONSTANTS
    User = {ann, ben, cat}
    Room = {r1, r2}
    Conn = {c1, c2}
    Id = {i1}
    KeyOwner = {ann, ben, cat}
    MaxRoomMembers = 2
    TTL = 1
    MaxClock = 2
    None = None
SPECIFICATION Spec
SYMMETRY Symmetry
INVARIANTS
    RegisteredConnections
    RelayToMembersOnly
    JoinedIsReachable
    DeliveredAfterRelay
PROPERTIES
    RelayedOnce
    RetryIsRelayed
