SPECIFICATION FairSpec
CONSTANTS
  FifoSize = 4
  Lengths = {1, 3}
  MaxPackets = 3
  Size = 2
INVARIANTS
  TypeOK
  NoTornPacket
  NoLostPacket
  DiscardsAreDamage
PROPERTIES
  ImplementsFreshest
  LastPacketFetched
