SPECIFICATION FairSpec
CONSTANTS
  Requesters = {r1, r2}
  MaxCreates = 3
CHECK_DEADLOCK FALSE
INVARIANTS
  OneDrainLoop
  NoRowForgotten
PROPERTIES
  QueueDrains
