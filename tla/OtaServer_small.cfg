SPECIFICATION FairSpec
CONSTANTS
  Images = {1, 2}
  First = 0
  Chunks = 2
  Declared = {0, 1, 2, 3}
  MaxFaults = 2
INVARIANTS
  ToldTruth
PROPERTIES
  Implements
  StaysUpdatable
CHECK_DEADLOCK FALSE
