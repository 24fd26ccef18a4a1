SPECIFICATION Spec
CONSTANTS
  FifoSize = 3
  Lengths = {2}
  MaxPackets = 3
  Size = 2
INVARIANT
  PublishesOnlyReceived
