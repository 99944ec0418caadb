SPECIFICATION SafeSpec
CONSTANTS
  j1 = j1
  j2 = j2
  Jobs = {j1, j2}
  NumDatasets = 1
  FreezeHoldBound = 2
  SnapshotTimeout = 3
  MaxCrashes = 1
  Outsiders = FALSE
SYMMETRY Interchangeable
INVARIANTS TypeOK FrozenIsTracked EndedJobsHoldNothing FreezeCoversCreates
