\* One STRING, one INT and one BOOL field, three ids per unit.
SPECIFICATION HandlerSpec
CONSTANTS
    K = 3
    NText = 1
    NNum = 2
    MaxIds = 4
    textA = textA
    textB = textB
    noText = noText
    junkText = junkText
    Junk = junkText
    LastNums <- NoFields
    LastTexts <- NoFields
    Texts <- MCTexts
    Given <- MCGiven
    Cut <- MCCut
    Scalars <- MCScalars
    Parents <- MCParents
    Garbage <- HeapWords
    NumType <- IntAndBool
    Queries <- LoadQueries
INVARIANTS
    HandlerTypeOK
    AnswersAreMeant
    StoredAsAsked
    FoundAgain
PROPERTIES
    UpdatesAreUniform
    QueryEnds
\* wild states are the end of what is modelled.
CHECK_DEADLOCK FALSE
