SPECIFICATION Spec
CONSTANTS
    None = None
    a1 = a1
    a2 = a2
    t1 = t1
    Aliases <- MCAliases
    Tokens <- MCTokens
    Configs <- SignupConfigs
    MaxRounds = 3
    MaxOrphans = 1
INVARIANTS
    TypeOK
    DistinctIdentities
    NoFalseDuplicate
    MutatesRecordedOnly
    BrowsersAreAccounted
PROPERTIES
    RecordsOwnIdentity
    StopIsHonoured
CHECK_DEADLOCK FALSE
