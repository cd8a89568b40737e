SPECIFICATION MCSpec
CONSTANTS
  v1 = v1
  v2 = v2
  v3 = v3
  Validators <- MCValidators
  OwnRoot = own
  OtherRoot = other
  Rosters <- TwoRosters
  MaxEpoch = 6
  LeakThreshold = 10
  LeakQuotient = 2
  RecoveryQuotient = 2
  FloorNum = 1
  FloorDen = 2
  RecoveryFrom = 3
  FrozenFrom = 2
  OwnFrom = 3
  PruneAfter = 2
  ReformEpochs = {5}
  Misvotes = {"other", "double"}
  Never = 100
  LeakyEpochs = 11
INVARIANTS
  UniqueQuorum
  SetFollowsFinality
  LeakyThirdBacksQuorum
  LeakyFullParticipationFinalizes
PROPERTIES
  OwnFinalityAdvances
CHECK_DEADLOCK FALSE
