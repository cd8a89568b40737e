SPECIFICATION MCSpec
CONSTANTS
  v1 = v1
  v2 = v2
  v3 = v3
  v4 = v4
  b1 = b1
  b2 = b2
  Validators <- Four
  Honest = {v1, v2, v3}
  Roster <- Even
  Quorums <- ThreeOfFour
  Branches <- TwoBranches
  Roots <- RootSet
  ChainRoot <- ForkRoot
  ForkEpoch = 1
  MaxEpoch = 3
  Common = common
  Lossy = FALSE
  ForeignVotes = TRUE
  LeakThreshold = 10
  LeakQuotient = 1
  RecoveryQuotient = 2
  FloorNum = 1
  FloorDen = 2
  RecoveryFrom = 0
  PruneAfter = 100
  ReformEpochs = {}
  SplitEpoch = 3
  LastEpoch = 5
SYMMETRY Symmetric
INVARIANTS
  Agreement
  NetAgreement
PROPERTIES
  HistoryImplementsFFG
CHECK_DEADLOCK FALSE
