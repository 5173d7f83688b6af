\* The shape of a B+-tree of order 2 and height 3 while it is emptied.
CONSTANTS
    TreeType = "B_PLUS_TREE"
    Order = 2
    Keys = {1, 2}
    NoKey = NoKey
    MaxSize = 10
SPECIFICATION BPlusReopeningSpec
INVARIANTS Balanced Occupancy PagesAccounted
PROPERTIES OtherKeysKept CallsReturn
