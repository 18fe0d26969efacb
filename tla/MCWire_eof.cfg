SPECIFICATION Spec
CONSTANTS
    MaxCount = 2
    StrSize = 3
    IntBits = 11
    LongBits = 22
    SkipChunk = 4
    Root = "Query"
    Inputs <- Cuts
INVARIANT EndOnlyBetweenFields
CHECK_DEADLOCK FALSE
