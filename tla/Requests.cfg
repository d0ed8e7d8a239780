SPECIFICATION CronSpec
CONSTANTS
    Workers = {w1}
    Ids = {i1}
    NoId = NoId
    Questions = {q1, q2}
    Ops <- AllOps
    MaxAttempts = 1
    MaxViolations = 2
    TimeLimit = 0
    AllowPause = TRUE
    RequireAllAnswers = FALSE
    AutomaticGrading = FALSE
    SerialClient = TRUE
    CacheFaults = FALSE
    MaxNow = 1
    MaxCrashes = 1
INVARIANTS TypeOK AcksDurable SubmissionComplete
PROPERTIES CompletedStaysClosed OverdueCloses AnswerSheetSpec
CHECK_DEADLOCK FALSE
