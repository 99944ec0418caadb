SPECIFICATION Spec
CONSTANTS
  j1 = j1
  j2 = j2
  Jobs = {j1}
  Requests <- StagedOnly
  Outsiders = FALSE
PROPERTIES BoundEndsTheSequence
