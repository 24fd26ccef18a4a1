SPECIFICATION FairSpec
CONSTANTS
  MaxClients = 3
  MaxFaults = 2
  FirstApp = 3
  FirstIf = 3
INVARIANTS
  FlagFollowsLink
  OneHearer
PROPERTIES
  CallsReturn
CHECK_DEADLOCK FALSE
