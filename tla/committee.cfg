SPECIFICATION MCSpec
CONSTANTS
    h1 = h1
    h2 = h2
    v1 = v1
    v2 = v2
    Validators <- TwoValidators
    Heads <- TwoHeads
    SlotsPerEpoch = 3
    GateEpoch = 1
    MaxSlot = 6
    MaxBody = 2
    MaxId = 4
    Voters <- TwoValidators
    Stake <- UnitStake
    Ids <- BlockIds
    SlotOf <- SlotOfId
    Justified = 0
    MaxVoteSlot = 2
    LastSlot = 3
    GenesisKeys = {g1}
    Applicants <- TwoValidators
    Principal = 64
    MinDeposit = 16
    Coins = 64
    Fee = 16
    Tip = 8
    EpochIssuance = 0
    BaseBps = 5000
    WhistleblowerQuotient = 4
    CorrelationWindow = 2
    ActivationDelay = 1
    MaxActivations = 1
    ExitDelay = 2
    MaxExits = 1
    WithdrawalDelay = 1
    LastEpoch = 4
    Never = 12
SYMMETRY AllSymmetry
INVARIANTS
    FoldExact
    HeadMatchesReference
    SharesExact
    EquivocationCaptured
    NoWaiterStranded
    BackedByIssuance
    ChurnBounded
PROPERTIES
    LateBlockNeverDisplaces
    RosterFrozen
    LockedAfterDuty
    PunishedOnce
CHECK_DEADLOCK FALSE
