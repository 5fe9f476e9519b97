\* A build for POSIX, and frames the layer below refuses, the first of a block included.
SPECIFICATION Spec
CONSTANTS
  Mask = 3
  Byte = {"ACK", "NAK", "C", "CAN"}
  Erased = Erased
  Blocks = 2
  NumMod = 4
  StartChar = "C"
  MayFail = {"resend", "eot", "cancel", "start", "first"}
  WideInt = TRUE
  ClockMod = 2
  AckWait = 1
  FinalWait = 1
  MaxOut = 2
  MaxIn = 2
  MaxPayload = 2
  LengthMod = 3
  MaxSessions = 1
INVARIANTS InOrder
CHECK_DEADLOCK FALSE
