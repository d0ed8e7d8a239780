SPECIFICATION Spec
CONSTANTS
    Workers = {w1, w2}
    Ids = {i1}
    NoId = NoId
    Questions = {q1}
    Ops <- GradingOps
    MaxAttempts = 1
    MaxViolations = 1
    TimeLimit = 1
    AllowPause = FALSE
    RequireAllAnswers = TRUE
    AutomaticGrading = TRUE
    SerialClient = FALSE
    CacheFaults = TRUE
    MaxNow = 1
    MaxCrashes = 1
SYMMETRY Symmetry
INVARIANTS GradesBounded GradedWasHandedIn
PROPERTY HandedInUntilTime
CHECK_DEADLOCK FALSE
