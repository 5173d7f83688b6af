\* remove() in a B*-tree of height 3.
CONSTANTS
    TreeType = "B_STAR_TREE"
    Order = 4
    Keys = {1, 2, 3, 4, 5, 6, 7, 8, 9, 10, 11, 12, 13, 14, 15, 16, 17, 18, 19, 20, 21, 22, 23}
    NoKey = NoKey
    MaxSize = 23
    Clients = {"ascending"}
    FewKeys = {1}
    FewInserted = 0
    FewEmptied = 0
    FewMixed = 0
    MaxRemovals = 2
SPECIFICATION MCSpec
PROPERTY RemoveFindsStored
