SPECIFICATION Spec
CONSTANTS
    WordSize = 4
    InitialSeqs = {0, 14}
    MinSrcPkts = 2
    MaxRequests = 3
    MaxTicks = 3
    None = None
INVARIANT CapturedPairsAreExported
