CONSTANTS
    q1 = q1
    q2 = q2
    p1 = p1
    p2 = p2
    e1 = e1
    e2 = e2
    NoQuestion = NoQuestion
    Questions = {q1}
    Pushes = {p1, p2}
    Editors = {e1, e2}
    Offered = {"private", "edit", "retry", "manual", "followUp"}
    Limit = 1
    Broken = {}
    Faults = TRUE
    MaxContent = 4
SPECIFICATION Spec
SYMMETRY SlotSymmetry
INVARIANTS
    TypeOK
    SyncedIsShown
PROPERTIES
    PrivateShownByOthers
    TextLostToOverlap
CHECK_DEADLOCK FALSE
