CONSTANTS
    q1 = q1
    q2 = q2
    p1 = p1
    p2 = p2
    e1 = e1
    e2 = e2
    NoQuestion = NoQuestion
    Questions = {q1}
    Pushes = {p1}
    Editors = {e1}
    Offered = {"private", "retry"}
    Limit = 1
    Broken = {}
    Faults = FALSE
    MaxContent = 1
SPECIFICATION Spec
INVARIANT PrivateStaysOff
CHECK_DEADLOCK FALSE
