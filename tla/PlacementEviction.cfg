\* Two callers that evict, promote, demote and access two hashes of sizes 0, 2 and 4.
SPECIFICATION Spec
CONSTANTS
    Hashes = {h1, h2}
    Callers = {a1, a2}
    Configs <- MCEagerConfig
    Options <- MCSizes
    Null = Null
    MaxTime = 1
    MaxTxn = 1
    MaxAccesses = 2
SYMMETRY Symmetry
PROPERTIES
    EvictionReachesBudget
    EvictionSparesRecentlyUsed
