SPECIFICATION FairSpec

CONSTANTS
    Clients = {c1, c2, c3}
    Unblock = unblock
    ConnectionTimes = 4

CHECK_DEADLOCK FALSE

INVARIANTS
    Consistent
    TurnedAway
    TerminatedFor

PROPERTIES
    StopEnds
