SPECIFICATION Spec
CONSTANTS
  MaxBoots = 3
  MaxCount = 2
  Width <- MCWidth
INVARIANTS RatesTrue
PROPERTIES TimerComesOn
