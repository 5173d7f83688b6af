\* A statement that rebuilds the tree and is then refused.
CONSTANTS
    Connections = {c1}
    Keys = {1, 2}
    KeyMod = 4
    KeyIsRowid = TRUE
    RebuildCount = 2
    RebuildMaxCount = 6
    UndefinedAnswers = {TRUE}
    MaxOps = 7
SPECIFICATION Spec
INVARIANTS RecordedTypeIsBuilt
