\* Loading and typed commands; the model stops when an offset leads astray.
SPECIFICATION CommandsSpec
CONSTANTS
    K = 2
    NText = 2
    NNum = 2
    MaxIds = 4
    HalfInt = 4
    WordSize = 32
    MaxLines = 4
    textA = textA
    textB = textB
    noText = noText
    junkText = junkText
    Junk = junkText
    LastNums <- NoFields
    LastTexts <- NoFields
    Texts <- MCTexts
    Given <- MCTexts
    Cut <- MCCut
    Scalars <- MCScalars
    Parents <- MCParents
    Garbage <- HeapWords
    NumType <- MCNumType
    Files <- MCFiles
    Lines <- MCLines
INVARIANTS
    CommandsTypeOK
    SchemaInFile
    StoredAsTyped
    LoadedLinesAreNodes
PROPERTIES
    FoundAsGiven
    InputEndsQuietly
CHECK_DEADLOCK FALSE
