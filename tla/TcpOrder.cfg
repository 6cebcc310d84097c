SPECIFICATION Spec
CONSTANTS
    WordSize = 4
    InitialSeqs = {0, 8, 12}
    StreamLength = 6
    MaxArrivals = 4
CHECK_DEADLOCK FALSE
INVARIANTS
    TypeOK
    RetransmissionsAreTrimmed
    InOrderSurvivesWrap
    ReorderedIsSorted
