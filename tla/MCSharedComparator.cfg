\* Trees of one page: the keys of the old tree come in key order.
CONSTANTS
    wide = wide
    narrow = narrow
    Tables = {wide, narrow}
    KeySize <- KeySizes
    Bytes = {0, 1}
    PageCapacity = 4
SPECIFICATION Spec
INVARIANTS StoredKeysAreFound
