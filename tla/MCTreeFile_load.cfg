\* One STRING and one scalar field, three ids per unit: two growths.
SPECIFICATION LoadSpec
CONSTANTS
    K = 3
    NText = 1
    NNum = 1
    MaxIds = 7
    textA = textA
    textB = textB
    longText = longText
    cutText = cutText
    junkText = junkText
    Junk = junkText
    LastNums <- NoFields
    LastTexts <- NoFields
    Texts <- MCTexts
    Given <- ShortTexts
    Cut <- MCCut
    Scalars <- TwoNumbers
    Parents <- AParent
    Garbage <- HeapWords
INVARIANTS
    TypeOK
    RootLeadsHome
    TextsLinkBack
    ReservedIsFree
    NoUnitLost
    NeverWild
PROPERTY
    TreeSpec
