SPECIFICATION Spec
CONSTANTS
    Levi = Levi
    Dan = Dan
    Ora = Ora
    q1 = q1
    q2 = q2
    NoRabbi = NoRabbi
    s1 = s1
    s2 = s2
    Rabbis = {Levi, Dan, Ora}
    Admins = {Ora}
    Questions = {q1}
    TimeoutHours = 1
    Slots = {s1, s2}
    Offered = {"release", "transfer", "answer", "draft"}
    SlaEnabled = TRUE
    Faults = TRUE
SYMMETRY DeskSymmetry
INVARIANTS
    TypeOK
    InProcessIsLocked
    AnsweredIsAuthored
PROPERTIES
    AuthorIsFinal
    TakenOnlyByTransfer
    OnlyStaleReleaseReopens
    ImplementsAnswerOnce
