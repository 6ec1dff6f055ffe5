SPECIFICATION Spec
CONSTANTS
  Channels = {0, 1}
  FrameSize = 2
  BufLen = 6
  Prebuffer = 1
  DriftFrames = 3
  DrainFrames = 1
  MaxTs = 9
  Timestamps <- SentTimes
  Lengths = {1, 2}
INVARIANTS
  DepthBounded
  WindowIntact
  FrameAligned
CHECK_DEADLOCK FALSE
