\* Insertion next to a page with too many keys.
CONSTANTS
    TreeType = "B_STAR_TREE"
    Order = 4
    Keys = {1, 2}
    NoKey = NoKey
    MaxSize = 12
    Clients = {"mixing"}
    FewKeys = {1, 2}
    FewInserted = 0
    FewEmptied = 0
    FewMixed = 12
    MaxRemovals = 1
SPECIFICATION MCSpec
INVARIANT NeverThrows
