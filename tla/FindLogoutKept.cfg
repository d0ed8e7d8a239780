SPECIFICATION Spec
CONSTANTS
    Workers = {w1}
    Ids = {i1}
    NoId = NoId
    Ops = {"login", "logout"}
    MaxSessions = 1
    MaxLosses = 0
PROPERTY LogoutEnds
CHECK_DEADLOCK FALSE
