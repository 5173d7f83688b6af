\* A client that never meets a stale root page, so that only the routers matter.
CONSTANTS
    TreeType = "B_PLUS_TREE"
    Order = 2
    Keys = {1, 2, 3}
    NoKey = NoKey
    MaxSize = 6
SPECIFICATION BPlusReopeningSpec
PROPERTIES SearchFindsStored
