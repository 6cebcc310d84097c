SPECIFICATION Spec
CONSTANTS
    WordSize = 4
    InitialSeqs = {0, 8, 12}
    StreamLength = 6
    MaxArrivals = 3
CHECK_DEADLOCK FALSE
INVARIANT ListIsOrdered
