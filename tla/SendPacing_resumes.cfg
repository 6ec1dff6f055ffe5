SPECIFICATION FairPacing
CONSTANTS
  High = 10
  Low = 4
  MaxPacket = 3
PROPERTIES
  Resumes
CHECK_DEADLOCK FALSE
