SPECIFICATION Spec
CONSTANTS
  None = None
  Requests = {r1, r2, r3}
  Sessions = {r1, r2}
INVARIANTS WhepInv
PROPERTIES CreatedSurvives WhepSettles
CHECK_DEADLOCK FALSE
