\* Inserts and searches with rollbacks and crashes.
CONSTANTS
    Connections = {c1, c2}
    Keys = {1, 2}
    KeyMod = 4
    KeyIsRowid = TRUE
    RebuildCount = 2
    RebuildMaxCount = 4
    UndefinedAnswers = {TRUE}
    MaxOps = 5
SPECIFICATION AppendingSpec
INVARIANTS RowsAreIndexed PagesFit
