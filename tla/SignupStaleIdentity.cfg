SPECIFICATION Spec
CONSTANTS
    None = None
    a1 = a1
    a2 = a2
    t1 = t1
    Aliases <- MCAliases
    Tokens <- MCTokens
    Configs <- FallbackConfigs
    MaxRounds = 2
    MaxOrphans = 1
INVARIANTS
    StartsWithoutPriorSso
CHECK_DEADLOCK FALSE
