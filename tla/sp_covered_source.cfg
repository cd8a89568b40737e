SPECIFICATION OneDeployment
CONSTANTS
  Dirs = {d1}
  MaxSlot = 4
  MaxVoteSlot = 4
  Slots <- MCSlots
  SlotsPerEpoch = 1
  Roots = {r1}
  Generations = {}
  Commitments = {}
  NoCommitment = none
  AllowUnanchored = FALSE
  AllowRestore = FALSE
  RenameErrors = FALSE
  Kinds = {"vote"}
  FloorSlots = {}
  MaxSightings = 1
INVARIANTS
  SightedNeverContradicted
CHECK_DEADLOCK FALSE
