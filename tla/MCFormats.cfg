CONSTANTS
    Requests <- MCRequests
    Reports <- MCReports
    MaxReports = 2
    Starts <- MCStarts
    Alphabet <- MCAlphabet
    MaxGrowth <- MCMaxGrowth
    Memory <- MCMemory
SPECIFICATION Spec
CHECK_DEADLOCK FALSE
INVARIANTS
    MessagesSurvive
    RequestReadWhole
    FramesAreReadBack
    HeadersAreOneKind
    
