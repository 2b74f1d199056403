\* Accesses, promotion and demotion of one hash by two callers.
SPECIFICATION Spec
CONSTANTS
    Hashes = {h1}
    Callers = {a1, a2}
    Configs <- MCOneConfig
    Options <- MCAccesses
    Null = Null
    MaxTime = 4
    MaxTxn = 1
    MaxAccesses = 3
SYMMETRY Symmetry
INVARIANTS
    WindowCountsExact
    HotIsNeverIdle
    PinnedEarnedIt
