\* A two-block image over the air, int being 16 bits wide, or five pages through the
\* bootloader, two of them blank, in either of its protocols.
SPECIFICATION LoadersSpec
CONSTANTS
  Mask = 3
  Byte = {"ACK", "NAK", "C", "CAN"}
  Erased = Erased
  Blocks = 2
  NumMod = 4
  StartChar = "C"
  MayFail = {"resend", "eot", "cancel", "start"}
  WideInt = FALSE
  ClockMod = 2
  AckWait = 1
  FinalWait = 1
  MaxOut = 2
  MaxIn = 3
  MaxPayload = 3
  LengthMod = 3
  MaxSessions = 1
  Image <- ImageMC
  PageBytes = 2
  PageMod = 2
  TxRoom = 4
  MaxRx = 2
INVARIANTS TypeOK InOrder SuccessMeansWhole PagesInPlace Installed
PROPERTIES BufferIsQueue Ends HeaderFirst InstallEnds
CHECK_DEADLOCK FALSE
