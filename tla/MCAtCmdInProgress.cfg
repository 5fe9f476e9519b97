\* The query alone, with answers that come after their deadline:
\* XBEE_DEV_FLAG_QUERY_INPROGRESS.
CONSTANTS
  Users = {}
  Outcomes = {"done"}
  Regs <- RegsRefresh
  RefreshIdx = 1
  SeqMod = 256
  MaxFrameId = 255
  LocalTimeout = 1
  ReuseTimeout = 2
  RemoteTimeout = 2
  Unlimited <- NoLimit
  Bounds <- BoundsLate
  CoordStart = "coord"
  KeyEstablished = "key"
  Joined = "joined"
  Left = {"left"}
SPECIFICATION Spec
INVARIANT InProgressMeansUnderway
