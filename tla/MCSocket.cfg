\* Two slots, two module sockets.
SPECIFICATION Spec
CONSTANTS
  SocketCount = 2
  MaxFrameId = 255
  ModuleIds = {m1, m2}
  Bounds <- BoundsSocket
  LineMax = 2
INVARIANTS TypeOK HandleSafe OwnNotice CallbackFits HostViewTrue NoneForgotten
SYMMETRY IdSymmetry
CHECK_DEADLOCK FALSE
