\* One STRING and one INT field; deletes and updates of texts too.
SPECIFICATION HandlerSpec
CONSTANTS
    K = 3
    NText = 1
    NNum = 1
    MaxIds = 4
    textA = textA
    textB = textB
    noText = noText
    junkText = junkText
    Junk = junkText
    LastNums <- NoFields
    LastTexts <- NoFields
    Texts <- MCTexts
    Given <- MCGiven
    Cut <- MCCut
    Scalars <- MCScalars
    Parents <- MCParents
    Garbage <- HeapWords
    NumType <- OneInt
    Queries <- DamagingQueries
PROPERTIES
    DeletesAreAnswered
    IdsSpec
\* wild states are the end of what is modelled.
CHECK_DEADLOCK FALSE
