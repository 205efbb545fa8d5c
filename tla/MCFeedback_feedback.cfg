CONSTANTS
    Chaim = Chaim
    home = home
    street = street
    c1 = c1
    c2 = c2
    Visitors = {Chaim}
    Addresses = {home, street}
    Slots = {c1, c2}
    MaxThanks = 2
    MaxFollowUps = 2
    Faults = TRUE
SPECIFICATION Spec
SYMMETRY Symmetry
INVARIANTS
    TypeOK
    OneThankPerAddress
    KeyMeansThank
    OneFollowUp
    ShownIsCounted
CHECK_DEADLOCK FALSE
