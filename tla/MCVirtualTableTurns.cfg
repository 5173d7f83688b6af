\* Two connections by turns, statements that fail, the tree rebuilt up to three times.
CONSTANTS
    Connections = {c1, c2}
    Keys = {1, 2, 3}
    KeyMod = 4
    KeyIsRowid = TRUE
    RebuildCount = 2
    RebuildMaxCount = 6
    UndefinedAnswers = {TRUE}
    MaxOps = 6
SPECIFICATION TurnsSpec
INVARIANTS RecordedTypeIsBuilt IndexMatchesRows
PROPERTIES FilterFindsRows FoundRowsChange
