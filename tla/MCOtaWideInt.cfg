\* A build whose int is 32 bits wide.
SPECIFICATION FairSpec
CONSTANTS
  Mask = 3
  Byte = {"ACK", "NAK", "C", "CAN"}
  Erased = Erased
  Blocks = 2
  NumMod = 4
  StartChar = "C"
  MayFail = {"resend", "eot", "cancel", "start"}
  WideInt = TRUE
  ClockMod = 6
  AckWait = 1
  FinalWait = 1
  MaxOut = 1
  MaxIn = 1
  MaxPayload = 1
  LengthMod = 3
  MaxSessions = 1

PROPERTIES Ends
CHECK_DEADLOCK FALSE
