\* A B*-tree of order 4: insertions and searches up to height 2, and every way to
\* fill a tree of height 2 and to empty it again.
CONSTANTS
    TreeType = "B_STAR_TREE"
    Order = 4
    Keys = {1, 2, 3}
    NoKey = NoKey
    MaxSize = 13
    Clients = {"inserting", "emptying"}
    FewKeys = {1, 2, 3}
    FewInserted = 13
    FewEmptied = 11
    FewMixed = 0
    MaxRemovals = 1
SPECIFICATION MCSpec
INVARIANT KeysInOrder
PROPERTIES ImplementsKeyBag CallsReturn
