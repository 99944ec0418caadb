SPECIFICATION Spec
CONSTANTS
  c1 = c1
  Callers = {c1}
  MaxDials = 2
  MaxAsks = 1
  MaxPings = 1
INVARIANTS TypeOK RepliesMatch PendingListens OneReader StatusTrue LossKnown
PROPERTIES LiveDropExplained
