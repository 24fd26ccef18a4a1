SPECIFICATION FairSpec
CONSTANTS
  Phones = {p1, p2}
  MaxOffset = 2
  Lengths = {3, 4}
  MaxMade = 2
  MaxLinks = 2
  MaxConfs = 2
INVARIANTS
  ReadsWhole
PROPERTIES
  CommitsUnfinished
  WaitsForConfirmation
  IndicationEnds
CHECK_DEADLOCK FALSE
