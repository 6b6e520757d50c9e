CONSTANTS
  Base = 8
  SYNC1 = 6
  SYNC2 = 5
  Filler = 7
  NAV = 1
  ACK = 2
  CFG = 3
  PVT = 4
  NAK = 0
  ACKED = 1
  NAV5 = 2
  Airborne = 4
  DynModel = 1
  BufSize = 4
  PvtSize = 3
  Nav5Size = 1
  Messages <- MCMessages
  NumConfigs = 2
  MaxDamage = 1
SPECIFICATION FairSpec
INVARIANTS
  NoPhantoms
PROPERTIES
  DispatchesIntactFrames
  ReturnsToIdle
