\* unsigned long as wide as unsigned int (the Windows build of the library).
\* Pages of order 2 with keys of one byte: 2 + 1 * 3 + 4 * (3 + 1) bytes (setOrder()).
CONSTANTS
    UMod = 256
    LMod = 256
    NodePageSize = 21
    MaxPages = 4
    Contents = {c1, c2}
SPECIFICATION TidySpec
INVARIANTS TypeOK PagesAccounted HeldPagesIntact
PROPERTIES OpenRestores ImplementsFreePages
