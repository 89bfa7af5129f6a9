SPECIFICATION FairSpec

CONSTANTS
    Tasks = {1, 2}
    Unblock = 0
    M = 4
    IoThreads = 2
    MaxPosted = 1

INVARIANTS
    Consistent
    DumpMissesFew

PROPERTIES
    LedgerKept
    ReportIsWritten
    StopEnds
