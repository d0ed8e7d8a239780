SPECIFICATION FairSpec
CONSTANTS
    Courses = {c1, c2}
    Orders = {o1}
    NoOrder = NoOrder
    Handlers = {h1, h2}
    Methods = {"stripe", "momo"}
    Pages = {"cart", "return", "momo"}
    SuccessKinds <- TwoSuccesses
    DeclineKinds <- NoKinds
    Grantable = {c1}
    MaxCrashes = 1
    MaxFaults = 1
PROPERTIES PaidEnrolled
CHECK_DEADLOCK FALSE
