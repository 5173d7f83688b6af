\* getAndRemoveMinKey() in a B-tree of height 3.
CONSTANTS
    TreeType = "B_TREE"
    Order = 2
    Keys = {1, 2, 3}
    NoKey = NoKey
    MaxSize = 10
    Clients = {"emptying"}
    FewKeys = {1, 2, 3}
    FewInserted = 0
    FewEmptied = 10
    FewMixed = 0
    MaxRemovals = 1
SPECIFICATION MCSpec
INVARIANT TakesMinKey
