SPECIFICATION Spec
CONSTANTS
  Batches <- MCBatches
  Snapshots <- MCSnapshots
  Scores = {0, 51}
  Overrides = {51}
  MaxOverrides = 1
INVARIANT
  MeetsUnlessUnmet
CHECK_DEADLOCK FALSE
