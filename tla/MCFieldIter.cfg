SPECIFICATION Spec
CONSTANTS
    Descriptors <- MCDescriptors
    Targets <- MCTargets
INVARIANTS
    TypeOK
    IndexesAgree
    SearchIsRight
PROPERTY
    SearchEnds
