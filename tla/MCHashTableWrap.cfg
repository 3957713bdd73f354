CONSTANTS
    Threads = {1}
    Keys = {"a", "b", "c", "d"}
    Values = {v1}
    Home <- WrapHome
    HashSize = 5
    PerThread = 4
    Loaded <- Nothing
    LoadedValue = v1
    Ops = {"insertOrSet"}
    MaxOps = 8
    MaxLockDepth = 5
    FREE = FREE
    LOCK = LOCK
    None = None
SPECIFICATION Spec
INVARIANT NoAbort
