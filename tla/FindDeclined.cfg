SPECIFICATION Spec
CONSTANTS
    Courses = {c1}
    Orders = {o1}
    NoOrder = NoOrder
    Handlers = {h1}
    Methods = {"stripe"}
    Pages = {"cart"}
    SuccessKinds <- OneSuccess
    DeclineKinds <- Declines
    Grantable = {}
    MaxCrashes = 0
    MaxFaults = 0
INVARIANT CompletedCharged
CHECK_DEADLOCK FALSE
