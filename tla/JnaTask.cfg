SPECIFICATION JnaFairSpec
CONSTANTS
    ThreadCount = 3
    StepsCounts = {1, 2}
CHECK_DEADLOCK FALSE
INVARIANTS
    JnaTypeOK
    NoDeadCall
    RunSeesAll
PROPERTIES
    RunReturns
