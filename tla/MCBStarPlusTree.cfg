\* A B*+-tree of order 4: insertions and searches up to height 2, every way to fill
\* a tree of height 2 and to empty it again, and two removals from a tree of height 3.
CONSTANTS
    TreeType = "B_STAR_PLUS_TREE"
    Order = 4
    Keys = {1, 2, 3, 4, 5, 6, 7, 8, 9, 10, 11, 12, 13, 14, 15, 16, 17, 18, 19, 20, 21, 22, 23, 24, 25, 26, 27, 28, 29, 30}
    NoKey = NoKey
    MaxSize = 30
    Clients = {"inserting", "emptying", "ascending"}
    FewKeys = {1, 2, 3}
    FewInserted = 8
    FewEmptied = 10
    FewMixed = 0
    MaxRemovals = 2
SPECIFICATION MCSpec
INVARIANTS Balanced PagesAccounted NeverThrows RemoveNeverThrows
PROPERTY OtherKeysKept
