SPECIFICATION Spec
CONSTANTS
  Channels = {0, 1}
  Groups = {{0, 1}, {0}}
  Formats = {TRUE, FALSE}
  Frames = {0, 1, 3}
  Cells = 3
  QueueCap = 2
  Backlog = 3
  PlcHold = TRUE
  MaxHolds = 1
  FrameSize = 2
  Block = 2
  BufLen = 7
  CapFrames = 1
  KeepFrames = 0
  MinPrebuf = 2
  MaxPrebuf = 3
  Jitters = {0, 1}
  Threshold = 0
INVARIANTS
  PlanesFiled
  FramesIntact
  DelayBounded
PROPERTIES
  DispatchForward
  LandsAhead
CHECK_DEADLOCK FALSE
