CONSTANTS
    q1 = q1
    q2 = q2
    p1 = p1
    p2 = p2
    e1 = e1
    e2 = e2
    NoQuestion = NoQuestion
    Questions = {q1, q2}
    Pushes = {p1}
    Editors = {e1}
    Offered = {"private", "retry", "manual", "followUp"}
    Limit = 2
    Broken = {q2}
    Faults = TRUE
    MaxContent = 2
SPECIFICATION FairSpec
PROPERTY PublicAnswerArrives
CHECK_DEADLOCK FALSE
