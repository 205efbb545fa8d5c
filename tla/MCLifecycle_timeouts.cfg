SPECIFICATION FairSpec
CONSTANTS
    Levi = Levi
    Dan = Dan
    Ora = Ora
    q1 = q1
    q2 = q2
    NoRabbi = NoRabbi
    s1 = s1
    s2 = s2
    Rabbis = {Levi, Ora}
    Admins = {Ora}
    Questions = {q1}
    TimeoutHours = 2
    Slots = {s1, s2}
    Offered = {"transfer", "answer"}
    SlaEnabled = TRUE
    Faults = TRUE
INVARIANTS
    LockWithinTenure
    EvictionNamesOwner
PROPERTIES
    ExpiredLockIsLost
