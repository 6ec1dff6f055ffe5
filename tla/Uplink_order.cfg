SPECIFICATION Spec
CONSTANTS
  Channels = {0, 1}
  Layout <- TwoCopies
  MaxFrames = 3
  FrameSize = 2
  TsMod = 7
  InboundCap = 2
INVARIANTS
  PayloadsAccountedFor
  DecodersForward
  NewestInboundKept
  NothingMisfiled
PROPERTIES
  OnlyLateDropped
CHECK_DEADLOCK FALSE
