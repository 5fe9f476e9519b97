\* A ZDO endpoint and a ZCL endpoint with two entries each.
SPECIFICATION Spec
CONSTANTS
  r1 = r1
  r2 = r2
  r3 = r3
  EndpointTable <- TableMC
  AnyProfile = 99
  BroadcastEp = 255
  Requests = {r1, r2, r3}
  Style <- StyleMC
  Slots = 2
  TransMod = 2
  TimeMod = 8
  Timeouts <- TimeoutsMC
  RowsOf <- RowsMC
  Traffic <- TrafficMC
  PauseMax = 1
  SentMax = 1
  IssueMax <- IssueMC
INVARIANTS TypeOK OpenHeld OwnAnswer OwnCluster NoStorm Timely
PROPERTIES NotEarly
CHECK_DEADLOCK FALSE
