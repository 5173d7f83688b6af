\* Two removals from a B*-tree of height 4.
CONSTANTS
    TreeType = "B_STAR_TREE"
    Order = 4
    Keys = {1, 2, 3, 4, 5, 6, 7, 8, 9, 10, 11, 12, 13, 14, 15, 16, 17, 18, 19, 20, 21, 22, 23, 24, 25, 26, 27, 28, 29, 30, 31, 32, 33, 34, 35, 36, 37, 38, 39, 40, 41, 42, 43, 44, 45, 46, 47, 48, 49, 50, 51, 52, 53, 54, 55, 56, 57, 58, 59, 60, 61, 62, 63, 64, 65, 66, 67, 68, 69, 70}
    NoKey = NoKey
    MaxSize = 70
    Clients = {"ascending"}
    FewKeys = {1}
    FewInserted = 0
    FewEmptied = 0
    FewMixed = 0
    MaxRemovals = 2
SPECIFICATION MCSpec
INVARIANT PagesAccounted
