\* A client that keeps the file open after the root page in memory went stale.
CONSTANTS
    TreeType = "B_PLUS_TREE"
    Order = 2
    Keys = {1, 2}
    NoKey = NoKey
    MaxSize = 6
SPECIFICATION BPlusSpec
PROPERTIES RemovedKeysAreGone
