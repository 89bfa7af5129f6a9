SPECIFICATION FairSpec

CONSTANTS
    ProcessCount = 3
    M = 8
    CommandRoom = 1
    AnswerRoom = 1

CHECK_DEADLOCK FALSE

INVARIANTS
    Consistent

PROPERTIES
    LedgerKept
    ServerReturns
