CONSTANTS
    Threads = {1, 2}
    Keys = {"a", "b", "c", "d", "e", "f"}
    Values = {v1}
    Home <- RowHome
    HashSize = 13
    PerThread = 6
    Loaded <- FiveKeys
    LoadedValue = v1
    Ops = {"insertOrSet", "remove"}
    MaxOps = 2
    MaxLockDepth = 13
    FREE = FREE
    LOCK = LOCK
    None = None
SPECIFICATION Spec
INVARIANT ElementsConserved
