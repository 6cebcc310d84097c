SPECIFICATION Spec
CONSTANTS
    Flows = {f1, f2}
    client = client
    server = server
    Endpoint = {client, server}
    NBuckets = 2
    Hash <- MCHash
    Ticker = {t1}
    Packets <- MCPackets
    Selected <- MCSelected
    MinSrcPkts = 1
    FlowTimeout = 0
    ULongMax = 3
    MaxAge = 1
    MaxPackets = 2
    None = None
SYMMETRY Symmetry
INVARIANTS
    LastScrubCleansesAll
