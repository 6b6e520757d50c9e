CONSTANTS
  Sources <- MCSources
  PoolItems = 2
  CacheSize = 2
  CardSize = 5
  MaxPackets = 2
  MaxFaults = 2
SPECIFICATION FairSpec
INVARIANTS
  TypeOK
  PoolConserved
  NothingLost
  FilesInOrder
PROPERTIES
  PoolRecovers
