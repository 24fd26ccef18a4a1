SPECIFICATION ConfigSpec
CONSTANTS
  CounterSize = 17
  TicksPerUs = 1
  Window = 14
  MaxConfigFaults = 1
  MaxRestarts = 2
INVARIANTS
  OkMeansConfigured
  UndetectedIsSilent
  SilentOnlyIfCut
PROPERTIES
  ConfigReturns
CHECK_DEADLOCK FALSE
