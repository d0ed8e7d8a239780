SPECIFICATION Spec
CONSTANTS
    Courses = {c1, c2}
    Orders = {o1, o2}
    NoOrder = NoOrder
    Handlers = {h1, h2}
    Methods = {"stripe"}
    Pages = {"courses"}
    SuccessKinds <- OneSuccess
    DeclineKinds <- Declines
    Grantable = {c1, c2}
    MaxCrashes = 1
    MaxFaults = 1
SYMMETRY Symmetry
INVARIANTS TypeOK AckedEnrolled
PROPERTIES EnrolmentSpec
CHECK_DEADLOCK FALSE
