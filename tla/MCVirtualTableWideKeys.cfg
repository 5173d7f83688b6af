\* Primary keys with the same low bits.
CONSTANTS
    Connections = {c1}
    Keys = {1, 5}
    KeyMod = 4
    KeyIsRowid = TRUE
    RebuildCount = 100
    RebuildMaxCount = 6
    UndefinedAnswers = {TRUE}
    MaxOps = 7
SPECIFICATION AgreeableSpec
PROPERTIES FilterFindsRows
