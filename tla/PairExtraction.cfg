SPECIFICATION Spec
CONSTANTS
    WordSize = 4
    InitialSeqs = {0, 14}
    MinSrcPkts = 2
    MaxRequests = 4
    MaxTicks = 3
    None = None
INVARIANTS
    TypeOK
    RequestsToldOnce
    ResponsesToldOnce
    ResponsesMatch
    AnsweredBeforeNext
