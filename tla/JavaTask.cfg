SPECIFICATION FairSpec

CONSTANTS
    N = 2
    ThreadIds = {1, 2, 3}
    NoId = NoId
    Hash <- MCHash
    IntRange = 2
    MinSleep = 1
    MaxSleep = 2
    MaxFail = 2
    TaskTypes <- AllTaskTypes

INVARIANTS
    Consistent
    UpcallsFindPeer
    LogsCompleteAtExit
    LogsNotMixed
    ResultAsConfigured

PROPERTIES
    MainReturns
