SPECIFICATION Spec
CONSTANTS
  p1 = p1
  p2 = p2
  p3 = p3
  None = None
  Participants = {p1, p2, p3}
  Samples <- SampleValues
  Limit = 3
  Threshold = 2
  Hangover = 1
  FrameSize = 2
  TsMod = 5
SYMMETRY Symmetric
INVARIANTS
  HearsOthers
  HangoverExact
PROPERTIES
  MixTimeContiguous
