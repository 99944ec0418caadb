SPECIFICATION Spec
CONSTANTS
  j1 = j1
  j2 = j2
  Jobs = {j1, j2}
  Domains = {"vm"}
  Verbs = {"start", "restore"}
  ActionTimeout = 1
  RebootTimeout = 1
  RebootSlack = 1
  SnapshotTimeout = 1
  JobRetention = 4
  Latency = 1
INVARIANTS TypeOK SingleFlight LiveListed
PROPERTIES VerdictStands EveryJobEnds ImplementsSlots
