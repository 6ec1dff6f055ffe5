SPECIFICATION DownlinkSpec
CONSTANTS
  High = 16
  Low = 6
  MaxPacket = 17
  FrameSizes <- ValidFrameSizes
  PayloadLen <- UnevenLengths
  FailedSets <- FewFailures
  MaxLost = 2
INVARIANTS
  BufferBounded
  OneLossOneOrder
  PayloadsExact
CHECK_DEADLOCK FALSE
