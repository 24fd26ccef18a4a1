SPECIFICATION FairSpec
CONSTANTS
  HeaderLength = 2
  N = 3
  PayloadValues = {0, 1}
  Frames = 2
  MaxFaults = 1
  Order <- Fields
INVARIANTS
  SentWhole
  TornOnlyByArrival
PROPERTIES
  KeepsSending
CHECK_DEADLOCK FALSE
