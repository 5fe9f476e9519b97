\* Two users and the driver share the two slots.
SPECIFICATION Spec
CONSTANTS
  Users = {u1, u2}
  Outcomes = {"done", "resend"}
  Regs <- Regs1
  RefreshIdx = 0
  SeqMod = 256
  MaxFrameId = 255
  LocalTimeout = 1
  ReuseTimeout = 1
  RemoteTimeout = 2
  Unlimited <- NoLimit
  Bounds <- BoundsUsers
  CoordStart = "joined"
  KeyEstablished = "joined"
  Joined = "joined"
  Left = {}
INVARIANTS TypeOK HandleSafe OwnResponse
SYMMETRY UserSymmetry
