SPECIFICATION Spec
CONSTANTS
    Levi = Levi
    Dan = Dan
    Ora = Ora
    q1 = q1
    q2 = q2
    NoRabbi = NoRabbi
    s1 = s1
    s2 = s2
    Rabbis = {Levi, Dan}
    Admins = {}
    Questions = {q1}
    TimeoutHours = 2
    Slots = {s1}
    Offered = {"transfer"}
    SlaEnabled = TRUE
    Faults = FALSE
PROPERTIES EvictedWereWarned
