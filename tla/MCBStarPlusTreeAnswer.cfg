\* The answer of remove() in a B*+-tree.
CONSTANTS
    TreeType = "B_STAR_PLUS_TREE"
    Order = 4
    Keys = {1, 2}
    NoKey = NoKey
    MaxSize = 4
    Clients = {"mixing"}
    FewKeys = {1, 2}
    FewInserted = 0
    FewEmptied = 0
    FewMixed = 4
    MaxRemovals = 1
SPECIFICATION MCSpec
PROPERTY RemoveFindsStored
