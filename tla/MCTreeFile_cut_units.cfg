\* Texts that fill their block, and a scalar field in the last bytes of a tuple.
SPECIFICATION LoadSpec
CONSTANTS
    K = 2
    NText = 1
    NNum = 1
    MaxIds = 4
    textA = textA
    textB = textB
    longText = longText
    cutText = cutText
    junkText = junkText
    Junk = junkText
    LastNums <- LastField
    LastTexts <- NoFields
    Texts <- MCTexts
    Given <- LongTexts
    Cut <- MCCut
    Scalars <- TwoNumbers
    Parents <- OneParent
    Garbage <- HeapWords
PROPERTY
    AddKeepsOthers
