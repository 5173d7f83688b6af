\* A transaction that is rolled back.  A table whose DROP was rolled back has no
\* tree file and can no longer be opened.
CONSTANTS
    Connections = {c1}
    Keys = {1, 2}
    KeyMod = 4
    KeyIsRowid = TRUE
    RebuildCount = 100
    RebuildMaxCount = 6
    UndefinedAnswers = {TRUE}
    MaxOps = 7
SPECIFICATION RollbackSpec
PROPERTIES FilterFindsRows
CHECK_DEADLOCK FALSE
