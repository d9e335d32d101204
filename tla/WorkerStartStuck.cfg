SPECIFICATION FairSpec
CONSTANTS
  Requesters = {r1, r2}
  MaxCreates = 2
CHECK_DEADLOCK FALSE
PROPERTIES
  CreateReturns
