SPECIFICATION FairSpec
CONSTANTS
  s1 = s1
  s2 = s2
  i1 = i1
  i2 = i2
  a = a
  NoRoom = NoRoom
  Sessions <- TwoSessions
  RoomIds = {a}
  RoomOf <- SharedRoom
  Instances = {i1, i2}
  Goroutines <- OneWorker
INVARIANTS
  LiveRooms
  OneMixer
PROPERTIES
  ClosedClockStops
  MembersAreMixed
  CloseReturns
CHECK_DEADLOCK FALSE
