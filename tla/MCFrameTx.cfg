\* A port that reports its room.
CONSTANTS
  ByteMod = 4
  StartByte = 3
  Requests <- MCRequests
  Capacity = 9
  ReportsRoom = TRUE
  MaxFrames = 3
  MaxFrameLen = 5
SPECIFICATION Spec
INVARIANTS
  TypeOK
  QueuedWhole
