SPECIFICATION Spec
CONSTANTS
    Flows = {f1, f2, f3}
    NULL = NULL
INVARIANTS
    TypeOK
    ListIsChain
    FindIsExact
PROPERTIES
    WalkIsComplete
    WalkEnds
