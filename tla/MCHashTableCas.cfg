CONSTANTS
    Threads = {1, 2}
    Keys = {"a", "b"}
    Values = {v1}
    Home <- SomeHome
    HashSize = 5
    PerThread = 2
    Loaded <- OneKey
    LoadedValue = v1
    Ops = {"get"}
    CasOps = {"casText", "casBinary"}
    MaxOps = 2
    MaxLockDepth = 5
    FREE = FREE
    LOCK = LOCK
    None = None
SPECIFICATION CasSpec
PROPERTY CasReturns
CHECK_DEADLOCK FALSE
