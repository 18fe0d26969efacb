\* One STRING and one INT field: the third node has an id the search does not look at.
SPECIFICATION HandlerSpec
CONSTANTS
    K = 3
    NText = 1
    NNum = 1
    MaxIds = 4
    textA = textA
    textB = textB
    noText = noText
    junkText = junkText
    Junk = junkText
    LastNums <- NoFields
    LastTexts <- NoFields
    Texts <- MCTexts
    Given <- MCGiven
    Cut <- MCCut
    Scalars <- MCScalars
    Parents <- MCParents
    Garbage <- HeapWords
    NumType <- OneInt
    Queries <- IntQueries
INVARIANT
    NoResultsMeansNone
