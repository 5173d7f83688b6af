\* Two connections with the table open.
CONSTANTS
    Connections = {c1, c2}
    Keys = {1, 2}
    KeyMod = 4
    KeyIsRowid = TRUE
    RebuildCount = 100
    RebuildMaxCount = 6
    UndefinedAnswers = {TRUE}
    MaxOps = 7
SPECIFICATION AgreeableSpec
PROPERTIES FilterFindsRows
