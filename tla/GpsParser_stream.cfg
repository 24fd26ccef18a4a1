SPECIFICATION GpsFairSpec
CONSTANTS
  HeaderLength = 3
  N = 3
  PayloadValues = {0, 1, 2, 3}
  Frames = 3
  MaxFaults = 3
INVARIANTS
  GpsTypeOK
  CleanFrameStored
PROPERTIES
  StaysInStep
  Resynchronises
