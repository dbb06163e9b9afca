SPECIFICATION Spec
CONSTANTS
  MaxFrames = 2
  SilenceTimeout = 2
  Untold = Untold
  MaxJoins = 2
  MaxSignals = 2
  MaxPings = 3
INVARIANTS SocketInv
PROPERTIES KeepsPromise ConnectionsEnd
CHECK_DEADLOCK FALSE
