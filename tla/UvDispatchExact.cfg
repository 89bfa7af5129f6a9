SPECIFICATION Spec
CONSTANTS
    Tasks = {t1}
    M = 2
    AnswerLength <- LongThenShort
INVARIANTS
    AnswersExact
