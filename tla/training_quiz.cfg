SPECIFICATION Spec
CONSTANTS
    e1 = e1
    m1 = m1
    o1 = o1
    o2 = o2
    w1 = w1
    w2 = w2
    Enrollments = {e1}
    Modules = {m1}
    Options = {o1, o2}
    QuestionType <- MCQuestionType
    IsCorrect <- MCIsCorrect
    Sheets <- MCSheets
    PassingScore = 80
    MaxAttempts = 2
    Workers = {w1, w2}
    MaxOpened = 3
    MaxRewrites = 1
    MaxOthers = 1
    NoEnrollment = NoEnrollment
SYMMETRY Symmetry
CHECK_DEADLOCK FALSE
INVARIANTS
    AttemptLimit
    CompletedIsCertified
    NumberedInTurn
    PassedOnWholeQuiz
