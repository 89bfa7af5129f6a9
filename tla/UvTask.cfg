SPECIFICATION FairSpec

CONSTANTS
    Tasks = {t1, t2}
    Buy = 5
    PoolThreads = 1

INVARIANTS
    Consistent
    NoLateCallback
    AbortedFor

PROPERTIES
    TaskEnds
