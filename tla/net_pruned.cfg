SPECIFICATION Spec
CONSTANTS
  v1 = v1
  v2 = v2
  v3 = v3
  v4 = v4
  Validators <- Four
  Faulty = {v2}
  Branches = {a, b}
  Common = common
  ForkEpoch = 3
  Roster <- Pruned
  Lossy = FALSE
  ForeignVotes = FALSE
  MaxEpoch = 5
  LeakThreshold = 10
  LeakQuotient = 1
  RecoveryQuotient = 2
  FloorNum = 1
  FloorDen = 2
  RecoveryFrom = 0
  FrozenFrom = 0
  OwnFrom = 0
  PruneAfter = 1
  ReformEpochs = {}
SYMMETRY BranchSymmetry
CONSTRAINT SplitAfterFinality
INVARIANTS
  Agreement
CHECK_DEADLOCK FALSE
