\* unsigned long twice as wide as unsigned int (64-bit Linux and macOS).
\* Pages of order 2 with keys of one byte: 2 + 1 * 3 + 4 * (3 + 1) bytes (setOrder()).
CONSTANTS
    UMod = 256
    LMod = 65536
    NodePageSize = 21
    MaxPages = 4
    Contents = {c1, c2}
SPECIFICATION TidySpec
INVARIANT PagesNumberedFrom1
