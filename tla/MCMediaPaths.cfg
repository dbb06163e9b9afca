SPECIFICATION Spec
CONSTANTS
  Roles = {"decoder", "scaler", "encoder", "rtsp", "libcamera", "audio"}
  Inputs = 2
  Buffers = {b1, b2}
  TaskLimit = 2
  MaxFrames = 3
  MaxFaults = 1
  Observers = {o1}
  Sizes = {s1, s2}
  MaxSessions = 2
  NoBuffer = NoBuffer
  Nothing = Nothing
  Layouts = {l1, l2}
  Unsupported = Unsupported
  MaxEpochs = 3
  Requests = {q1, q2}
  Streams = 2
  MaxControls = 3
  NoRequest = NoRequest
  MaxRecoveries = 2
  MaxRegistered = 2
INVARIANTS BuffersKept CallsEnd DecoderPrimed DevicesKept
PROPERTIES FramesInOrder DevicesReturn ControlsArrive
CHECK_DEADLOCK FALSE
