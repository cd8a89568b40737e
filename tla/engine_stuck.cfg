SPECIFICATION Spec
CONSTANTS
    Ids = {1, 2, 3, 4, 5, 6, 7}
    Worlds <- StuckWorlds
    SlotsPerEpoch = 3
    Tolerance = 1
    MaxParked = 2
    MaxOrphans = 2
    OrphansPerSource = 2
    MaxFuture = 2
    FuturePerSource = 1
    MaxVariants = 2
    MaxTxIndex = 3
INVARIANT OrphansNotJudgeable
CHECK_DEADLOCK FALSE
