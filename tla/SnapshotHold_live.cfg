SPECIFICATION Spec
CONSTANTS
  j1 = j1
  j2 = j2
  Jobs = {j1}
  NumDatasets = 2
  FreezeHoldBound = 3
  SnapshotTimeout = 4
  MaxCrashes = 1
  Outsiders = TRUE
INVARIANTS HoldWithinTwoBounds
PROPERTIES FrozenIsThawed
