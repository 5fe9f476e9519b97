\* The query shares the table with one user: xbee_cmd_query_status.
CONSTANTS
  Users = {"u1"}
  Outcomes = {"done", "resend"}
  Regs <- Regs3
  RefreshIdx = 2
  SeqMod = 256
  MaxFrameId = 255
  LocalTimeout = 1
  ReuseTimeout = 2
  RemoteTimeout = 2
  Unlimited <- NoLimit
  Bounds <- BoundsShared
  CoordStart = "coord"
  KeyEstablished = "key"
  Joined = "joined"
  Left = {"left"}
SPECIFICATION Spec
INVARIANT BusyMeansUnderway
