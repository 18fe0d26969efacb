\* Removing one node of several.
SPECIFICATION Spec
CONSTANTS
    K = 3
    NText = 1
    NNum = 1
    MaxIds = 3
    textA = textA
    textB = textB
    longText = longText
    cutText = cutText
    junkText = junkText
    Junk = junkText
    LastNums <- NoFields
    LastTexts <- NoFields
    Texts <- MCTexts
    Given <- OneText
    Cut <- MCCut
    Scalars <- OneNumber
    Parents <- OneParent
    Garbage <- HeapWords
PROPERTY
    RemoveTakesOnlySubtree
CHECK_DEADLOCK FALSE
