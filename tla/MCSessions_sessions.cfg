CONSTANTS
    b1 = b1
    b2 = b2
    t1 = t1
    t2 = t2
    c1 = c1
    c2 = c2
    c3 = c3
    Browsers = {b1}
    Tabs = {t1, t2}
    Home <- OneBrowser
    Slots = {c1, c2}
    NoTab = NoTab
    MaxPairs = 3
    MaxRetries = 1
    Faults = TRUE
SPECIFICATION Spec
SYMMETRY Symmetry
INVARIANTS
    TypeOK
    OneSessionPerLogin
    OldPasswordIsOut
    StoredTokenIsLast
CHECK_DEADLOCK FALSE
