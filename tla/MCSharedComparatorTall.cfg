\* A B*-tree of several pages that is rebuilt after the other table was used.
CONSTANTS
    wide = wide
    narrow = narrow
    Tables = {wide, narrow}
    KeySize <- KeySizes
    Bytes = {0, 1}
    PageCapacity = 2
SPECIFICATION Spec
INVARIANTS StoredKeysAreFound
