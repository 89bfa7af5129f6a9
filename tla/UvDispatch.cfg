SPECIFICATION FairSpec

CONSTANTS
    Tasks = {t1, t2}
    M = 5
    AnswerLength <- LongThenShort

INVARIANTS
    Consistent
    WireIsCurrent
    WriteRequestFree
    CrashNeedsDeath

PROPERTIES
    LedgerKept
    ReportIsWritten
