CONSTANTS
    Keys = {"a", "b"}
    Absent = Absent
    Scripts <- OneGet
    NoCut = {}
    SizeRange = 256
    Radix = 2
    HashSize = 5
SPECIFICATION Spec
INVARIANT NoAbort
