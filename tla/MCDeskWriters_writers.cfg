SPECIFICATION DeskSpec
CONSTANTS
    Levi = Levi
    Dan = Dan
    Ora = Ora
    q1 = q1
    s1 = s1
    m1 = m1
    m2 = m2
    NoRabbi = NoRabbi
    Rabbis = {Levi, Ora}
    Admins = {Ora}
    Questions = {q1}
    TimeoutHours = 1
    Slots = {s1}
    Offered = {"release", "answer", "transfer"}
    SlaEnabled = FALSE
    Faults = TRUE
    Mails = {m1, m2}
SYMMETRY MailSymmetry
INVARIANTS
    WritersTypeOK
    UnforcedIsSound
    ForeignTextNeedsRace
PROPERTIES
    TakenOnlyInRace
    AuthorsOnlyRemoved
