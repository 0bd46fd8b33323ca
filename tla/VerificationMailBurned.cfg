SPECIFICATION Spec
CONSTANTS
    None = None
    b1 = b1
    b2 = b2
    m1 = m1
    m2 = m2
    p1 = p1
    w1 = w1
    w2 = w2
    Workers = {w1, w2}
    Boxes = {b1, b2}
    Aliases = {m1, p1, m2}
    Mains = {m1, m2}
    BoxOf <- TwoBoxes
    Apis <- ImapOnly
    Window = 2
    SeenLimit = 2
    SeenKept = 1
    Tolerance = 1
    MaxSkew = 0
    MaxPolls = 2
    MaxRequests = 2
    MaxMail = 1
    MaxTime = 0
INVARIANTS
    IdsAreSecondary
CHECK_DEADLOCK FALSE
