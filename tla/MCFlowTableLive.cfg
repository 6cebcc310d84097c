SPECIFICATION FairSpec
CONSTANTS
    Flows = {f1, f2}
    client = client
    server = server
    Endpoint = {client, server}
    NBuckets = 1
    Hash <- MCHash
    Ticker = {}
    Packets <- FewPackets
    Selected <- MCSelected
    MinSrcPkts = 1
    FlowTimeout = 0
    ULongMax = 3
    MaxAge = 1
    MaxPackets = 2
    None = None
PROPERTIES
    QueuedFlowsFinish
    DeadFlowsAreScrubbed
    ThreadsExit
