\* The query alone: every answer, error, timeout and modem status.
SPECIFICATION FairSpec
CONSTANTS
  Users = {}
  Outcomes = {"done"}
  Regs <- RegsRefresh
  RefreshIdx = 1
  SeqMod = 3
  MaxFrameId = 3
  LocalTimeout = 1
  ReuseTimeout = 2
  RemoteTimeout = 2
  Unlimited <- NoLimit
  Bounds <- BoundsQuery
  CoordStart = "coord"
  KeyEstablished = "key"
  Joined = "joined"
  Left = {"left"}
INVARIANTS StuckIsReported BusyMeansUnderway AddressSought
PROPERTIES RefreshServed BusyEnds
