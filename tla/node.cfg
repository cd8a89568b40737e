SPECIFICATION MCSpec
CONSTANTS
    MaxSlot = 3
    MaxEvents = 2
    Limit = 2
    MaxTail = 1
    CacheInterval = 2
    Trees = {1, 2, 3}
    Leaves = 2
    PeriodEpochs = 1
    BindDelay = 1
    RescueDelay = 2
    History = 2
    MaxEpoch = 6
    Horizon = 1
    MaxKesCrashes = 1
    MaxDuties = 2
INVARIANT AckedSurvives
INVARIANT ServedExactly
INVARIANT KeysAtHand
INVARIANT SignedLeafDurable
INVARIANT RetiredShredded
PROPERTY RecoveredIsLogged
PROPERTY RewriteLands
PROPERTY AuthorityFixed
PROPERTY HandoverAdopted
CHECK_DEADLOCK FALSE
