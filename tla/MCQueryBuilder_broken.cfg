\* Statements that break off anywhere.
SPECIFICATION Spec
CONSTANTS
    c1 = c1
    c2 = c2
    s1 = s1
    s2 = s2
    none = none
    NoComparator = none
    Comparators <- TwoComparators
    Settings <- TwoSettings
    OrDepth = 1
    MaxFilters = 2
    MaxSettings = 2
    MaxStale = 2
SYMMETRY Names
INVARIANTS
    TypeOK
    CmpIsStack
    SentIsTypedThenStale
    SentLeavesNothing
