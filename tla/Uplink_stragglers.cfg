SPECIFICATION Spec
CONSTANTS
  Channels = {0, 1}
  Layout <- TwoCopies
  MaxFrames = 3
  FrameSize = 2
  TsMod = 7
  InboundCap = 2
INVARIANTS
  StragglersDropped
CHECK_DEADLOCK FALSE
