\* A B*-tree of order 7, in which MinKeys is not MaxKeys / 2.
CONSTANTS
    TreeType = "B_STAR_TREE"
    Order = 7
    Keys = {1, 2, 3, 4, 5, 6, 7, 8, 9, 10}
    NoKey = NoKey
    MaxSize = 10
    Clients = {"ascending"}
    FewKeys = {1}
    FewInserted = 0
    FewEmptied = 0
    FewMixed = 0
    MaxRemovals = 2
SPECIFICATION MCSpec
PROPERTY OtherKeysKept
