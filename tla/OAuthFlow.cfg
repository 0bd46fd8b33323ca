SPECIFICATION Spec
CONSTANTS
    None = None
    Callers = {t1, t2}
    Clients = {c1, c2}
    MaxServers = 3
    MaxCallbacks = 1
INVARIANTS
    PortIsReleased
PROPERTIES
    TokenMatchesClient
    ServerEnds
CHECK_DEADLOCK FALSE
