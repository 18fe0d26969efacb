SPECIFICATION Spec
CONSTANTS
    Queries <- MCQueries
    Encodable <- MCEncodable
    Texts <- MCTexts
    Piece = 2
    Room = 2
    MaxQueries = 3
INVARIANTS
    TypeOK
    PiecesMakeTheAnswer
    NothingLeft
PROPERTIES
    ServiceSpec
    StatementsEnd
    ServerEnds
CHECK_DEADLOCK FALSE
