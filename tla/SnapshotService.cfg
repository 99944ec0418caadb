SPECIFICATION Spec
CONSTANTS
  d1 = d1
  d2 = d2
  z1 = z1
  z2 = z2
  v1 = v1
  Domains = {d1, d2}
  Zvols = {z1, z2}
  ZvolsOf <- TwoAndNone
  Validators = {v1}
  Questions <- AboutOne
  AtStart = {z1}
  MaxWaiting = 1
  MaxChanges = 1
INVARIANTS TypeOK FetchingHasFetch CleanListHeld AnswersFollowLastFetch
PROPERTIES SweepsEnd
