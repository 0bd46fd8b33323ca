SPECIFICATION Spec
CONSTANTS
    boot = boot
    web = web
    main = main
    Callers <- MCCallers
    Boot = boot
    Exit = main
    Children = {c1, c2}
    Ports = {p1, p2}
    Remote = remote
    None = None
    MaxFailures = 1
    MaxCalls = 1
    t1 = t1
    t2 = t2
    Tasks <- MCTasks
    Budgets <- MCBudgets
    Browsers = {b1}
    NoBrowser = NoBrowser
    Home = p1
INVARIANTS
    WaiterOwnsChild
    LostOnlyToANewStart
    BrowserHeldOnce
PROPERTIES
    WaitersAreServed
CHECK_DEADLOCK FALSE
