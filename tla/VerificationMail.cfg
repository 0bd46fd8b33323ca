SPECIFICATION Spec
CONSTANTS
    None = None
    b1 = b1
    b2 = b2
    m2 = m2
    m1 = m1
    p1 = p1
    w1 = w1
    w2 = w2
    Workers = {w1, w2}
    Boxes = {b1}
    Aliases = {m1, p1}
    Mains = {m1}
    BoxOf <- OneBox
    Apis <- AnyApi
    Window = 2
    SeenLimit = 1
    SeenKept = 1
    Tolerance = 1
    MaxSkew = 1
    MaxPolls = 2
    MaxRequests = 2
    MaxMail = 2
    MaxTime = 2
INVARIANTS
    TypeOK
    CodeIsForAlias
    OverlooksNothing
PROPERTIES
    CodeReturnedOnce
SYMMETRY WorkerSymmetry
CHECK_DEADLOCK FALSE
