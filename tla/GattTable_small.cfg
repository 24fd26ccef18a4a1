SPECIFICATION FairSpec
CONSTANTS
  Chars = 3
  Limits = {1, 3, 6, 7, 9, 10}
  MaxErrors = 2
INVARIANTS
  HandlesMatchTable
  CompleteWithRoom
PROPERTIES
  InitReturns
CHECK_DEADLOCK FALSE
