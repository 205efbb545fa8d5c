CONSTANTS
    r1 = r1
    r2 = r2
    p1 = p1
    form = form
    second = "urgent"
    changes = 3
    Posts <- TwoPosts
    NoPost = 0
    Form <- OneForm
    Urgency <- UrgencyOfPosts
    Blocked = {}
    PerPage = 2
    Requests = {r1, r2}
    Polls = {p1}
    Faults = TRUE
    MaxRev <- RevsOfPosts
SPECIFICATION Spec
SYMMETRY RequestSymmetry
INVARIANTS
    TypeOK
    StoredIsAnnounced
PROPERTIES
    OldTextFromStaleRead
CHECK_DEADLOCK FALSE
