SPECIFICATION Spec
CONSTANTS
  Interval = 5
  NudgeInterval = 2
  MaxPoll = 2
  MaxPokes = 4
INVARIANTS TypeOK Remembered ServedInTime
PROPERTIES FallsQuiet
