\* The B-tree of order 2 with up to 10 keys, which reaches height 3, and keys
\* that repeat.
CONSTANTS
    TreeType = "B_TREE"
    Order = 2
    Keys = {1, 2, 3}
    NoKey = NoKey
    MaxSize = 10
SPECIFICATION BaseSpec
INVARIANTS TypeOK NeverThrows Occupancy KeysInOrder Balanced PagesAccounted RootInMemory
PROPERTY ImplementsKeyBag
