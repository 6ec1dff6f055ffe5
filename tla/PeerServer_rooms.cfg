SPECIFICATION Spec
CONSTANTS
  w1 = w1
  w2 = w2
  w3 = w3
  Sockets = {w1, w2, w3}
  RoomIds = {1}
  NoSocket = NoSocket
  NoPlace = NoPlace
  MaxJoins = 3
  Requests = {1, 2}
  Ttl = 3
  Threshold = 1
  FetchMax = 2
  MaxTime = 8
SYMMETRY SocketSymmetry
INVARIANTS
  PairsIntroduced
  DepartureTold
  RelayedToPeer
  RoomsReclaimed
  ServedWork
CHECK_DEADLOCK FALSE
