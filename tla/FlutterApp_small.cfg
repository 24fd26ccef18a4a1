SPECIFICATION FairSpec
CONSTANTS
  Chars = 4
  Lat = 3
  Lon = 4
  MaxConnections = 3
  MaxPackets = 2
INVARIANTS
  RemovedUnlessInterrupted
  MixesNeighbours
PROPERTIES
  ComesToListen
CHECK_DEADLOCK FALSE
