SPECIFICATION Spec
CONSTANTS
  Enders = {e1}
  FileDuration = 1
  MaxTime = 2
  MaxGap = 2
  MaxFailures = 2
  MaxCommands = 3
INVARIANTS StopHolds
