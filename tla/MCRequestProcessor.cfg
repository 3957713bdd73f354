CONSTANTS
    Keys = {"a", "b"}
    Absent = Absent
    Scripts <- ThreeRequests
    NoCut = {"LF"}
    SizeRange = 256
    Radix = 2
    HashSize = 5
SPECIFICATION Spec
INVARIANTS TypeOK RepliesInOrder AllAnswered NoAbort
