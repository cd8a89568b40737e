SPECIFICATION SyncSpec
CONSTANTS
    SyncPeers = {1, 2}
    Faithful = {{}, {2}}
    Tip = 2
    Fanout = 1
    MaxWaiting = 1
    PageSize = 1
    MaxPages = 1
    Share = 1
    Lookback = 0
    MaxChurn = 1
INVARIANT WindowExact
PROPERTY CatchesUp
CHECK_DEADLOCK FALSE
