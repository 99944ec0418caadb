SPECIFICATION Spec
CONSTANTS
  w1 = w1
  Workers = {w1}
  Ids = {1, 2}
  MaxDials = 2
  Events = TRUE
PROPERTIES FailedSubscriptionDegrades
