CONSTANTS
    KeywordLists <- AllLists
    Inputs <- AllInputs
SPECIFICATION Spec
INVARIANTS TypeOK KeywordFound DecidesAsTree
