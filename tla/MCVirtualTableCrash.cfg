\* A crash while the tree is rebuilt.
CONSTANTS
    Connections = {c1}
    Keys = {1, 2}
    KeyMod = 4
    KeyIsRowid = TRUE
    RebuildCount = 2
    RebuildMaxCount = 6
    UndefinedAnswers = {TRUE}
    MaxOps = 7
SPECIFICATION CrashSpec
INVARIANTS TableHasFile
