\* Chunking, damage, the dispatch cap, re-entrant handlers, resynchronisation.
CONSTANTS
  ByteMod = 4
  StartByte = 3
  MaxFrameLen = 5
  DispatchCap = 2
  Handlers <- MCHandlers
  ModemStatusType = 2
  Streams <- MCStreams
  CoordStart = 3
  KeyEstablished = 1
  Joined = 2
  Left = {0}
  GarbageLen = 3
SPECIFICATION FairSpec
INVARIANTS
  TypeOK
  NoOverrun
  OneTick
  HandledAsDecoded
  WpanAsDecoded
  ResyncAfterQuiet
PROPERTIES
  FrameStable AllHandled
