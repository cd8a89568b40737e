SPECIFICATION MCSpec
CONSTANTS
  Dirs = {d1}
  MaxSlot = 1
  MaxVoteSlot = 2
  Slots <- MCSlots
  SlotsPerEpoch = 1
  Roots = {r1, r2}
  Generations = {1}
  Commitments = {c1, c2}
  NoCommitment = none
  AllowUnanchored = FALSE
  AllowRestore = TRUE
  RenameErrors = TRUE
  Kinds = {"proposal", "vote", "recommit"}
  FloorSlots = {1}
  MaxSightings = 0
SYMMETRY ContentSymmetry
INVARIANTS
  NoContradiction
  RaisedNeverContradicted
  NeverRefusedWithoutRestore
CHECK_DEADLOCK FALSE
