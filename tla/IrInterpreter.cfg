SPECIFICATION FairSpec
CONSTANTS
    Workers = {w1, w2, w3}
    Nodes = {"amounts", "discountBranch", "lineItems", "combineTotal"}
    NodeDef <- ExampleDef
    Outputs = {"combineTotal"}
    MaxSize = 3
    MaxLost = 1
    Nothing = Nothing
INVARIANT InputsReady
PROPERTIES
    ImplementsMapForEach
    RunCompletesUnlessSourceEmpty
CHECK_DEADLOCK FALSE
