SPECIFICATION Spec
CONSTANTS
  Roles <- RolesDef
  MaxBuffered = 1
  NoFrame = NoFrame
  MaxRequests = 2
  MaxPassed = 1
  MaxChunks = 0
  Clients = {c1, c2}
  Fds = {1, 2}
  Senders = {"signaling", "closer"}
  MaxMessages = 1
  Nothing = Nothing
  Remotes = {r1}
  MaxSequence = 2
  Chunks = 1
  IpcPrograms = {c1, c2}
  GamepadPrograms = {c1}
INVARIANTS DataInv EndpointInv
PROPERTIES PeerEnds FramesLeave NeverOlder ServerSettles
CHECK_DEADLOCK FALSE
