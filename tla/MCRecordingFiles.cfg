SPECIFICATION RecordingSpec
CONSTANTS
  Enders = {e1}
  FileDuration = 1
  MaxTime = 2
  MaxGap = 2
  MaxFailures = 1
  MaxCommands = 3
  Capacity = 1
  LastDate = 2
  LastHour = 1
  LastFile = 2
  LastFileOfBoth = 1
  PerHour = 2
  HoursPerDate = 2
  Dates = 3
  Requested = 2
  MaxFolders = 10
  MaxKept = 4
INVARIANTS RecorderInv FilesAreWhole RotationInv AnswersRight
PROPERTIES KeepsRecording CallsReturn RotationDeletes SpaceComesBack
CHECK_DEADLOCK FALSE
