SPECIFICATION FairSpec
CONSTANTS
  f1 = f1
  f2 = f2
  NoFrame = NoFrame
  Frames = {f1, f2}
  K = 2
  C = 2
  MixCap = 1
  JobCap = 1
  SendCap = 2
  Formats = {TRUE, FALSE}
  Layout <- TwoBundles
  MaxTicks = 2
INVARIANTS
  FrameExclusive
  PacketsWhole
  SendsInOrder
PROPERTIES
  ClockNeverStalls
  FramesReturn
  AllExit
CHECK_DEADLOCK FALSE
