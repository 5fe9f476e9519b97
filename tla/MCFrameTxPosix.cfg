\* The POSIX port: tx_free is INT_MAX and write() may take less.
CONSTANTS
  ByteMod = 4
  StartByte = 3
  Requests <- MCRequests
  Capacity = 9
  ReportsRoom = FALSE
  MaxFrames = 3
  MaxFrameLen = 5
SPECIFICATION Spec
INVARIANTS
  ZeroMeansQueued
