SPECIFICATION Spec
CONSTANTS
  j1 = j1
  j2 = j2
  Jobs = {j1, j2}
  Requests <- MostRequests
  Outsiders = TRUE
INVARIANTS TypeOK RollbackOffUnlessRestarted PhasesInOrder VerdictMatchesPills
PROPERTIES EveryWorkerReturns
