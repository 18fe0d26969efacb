SPECIFICATION Spec
CONSTANTS
    MaxCount = 2
    StrSize = 3
    IntBits = 11
    LongBits = 22
    SkipChunk = 4
    Root = "Query"
    Inputs <- All
INVARIANTS
    TypeOK
    FitsTheStruct
    FramesMeetTheEnd
    GotWhatWasSent
    CutAtTheEnd
CHECK_DEADLOCK FALSE
