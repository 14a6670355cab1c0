SPECIFICATION Spec
CONSTANTS
  Batches <- MCBatches
  Snapshots <- MCSnapshots
  Scores = {0, 51}
  Overrides = {51}
  MaxOverrides = 1
INVARIANTS
  VerdictsAccepted
  TotalIsFair
  BetterRanksHigher
  ListsAgree
CHECK_DEADLOCK FALSE
