\* A client that keeps the file open after the root page in memory went stale.
CONSTANTS
    TreeType = "B_TREE"
    Order = 2
    Keys = {1, 2}
    NoKey = NoKey
    MaxSize = 8
SPECIFICATION Spec
PROPERTIES SearchAllFindsAll
