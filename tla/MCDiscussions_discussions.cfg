CONSTANTS
    Levi = Levi
    Dan = Dan
    c1 = c1
    c2 = c2
    Rabbis = {Levi, Dan}
    Creator = Levi
    Slots = {c1, c2}
    PageSize = 1
    MaxSends = 1
    MaxRetries = 2
    Faults = TRUE
SPECIFICATION Spec
SYMMETRY SlotSymmetry
INVARIANTS
    TypeOK
    OneCopyPerSend
    ReadIsSeen
PROPERTIES
    GateHolds
CHECK_DEADLOCK FALSE
