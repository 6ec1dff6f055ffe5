SPECIFICATION FairSpec
CONSTANTS
  a1 = a1
  a2 = a2
  b1 = b1
  b2 = b2
  ClientCandidates = {a1, a2}
  ServerCandidates = {b1, b2}
  MaxBlips = 2
  MaxAttempts = 2
  MaxArms = 2
INVARIANTS
  FlagTracksTransport
PROPERTIES
  Trickles
  Answered
  UserCanAct
  RecordReturns
CHECK_DEADLOCK FALSE
