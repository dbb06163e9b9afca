SPECIFICATION QuerySpec
CONSTANTS
  PerHour = 2
  HoursPerDate = 2
  Dates = 3
  Requested = 2
  MaxFolders = 10
  MaxKept = 4
INVARIANTS FileAtTime
CHECK_DEADLOCK FALSE
