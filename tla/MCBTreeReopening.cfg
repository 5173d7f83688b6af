\* A B-tree of order 2: any calls on up to 6 keys, and every way to fill it up to
\* height 3 and to empty it, one key short of the least tree in which
\* getAndRemoveMinKey() descends.
CONSTANTS
    TreeType = "B_TREE"
    Order = 2
    Keys = {1, 2, 3}
    NoKey = NoKey
    MaxSize = 9
    Clients = {"emptying", "mixing"}
    FewKeys = {1, 2, 3}
    FewInserted = 0
    FewEmptied = 9
    FewMixed = 6
    MaxRemovals = 1
SPECIFICATION MCSpec
INVARIANTS Occupancy KeysInOrder PagesAccounted
PROPERTIES ImplementsKeyBag
