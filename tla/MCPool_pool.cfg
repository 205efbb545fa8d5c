CONSTANTS
    h1 = h1
    h2 = h2
    h3 = h3
    c1 = c1
    c2 = c2
    Free = Free
    Handlers = {h1, h2, h3}
    Conns = {c1, c2}
    Offered = {"query", "transaction", "webhook", "deleteRabbi"}
SPECIFICATION Spec
SYMMETRY PoolSymmetry
INVARIANTS
    TypeOK
    AcknowledgedIsKept
    IdleIsClean
PROPERTY ImplementsAtomicStore
CHECK_DEADLOCK FALSE
