SPECIFICATION MCFairSpec
CONSTANTS
  Procs = {p1}
  Threads = 2
  MaxTasks = 2
  MaxUpsets = 2
CHECK_DEADLOCK FALSE
INVARIANTS
  CancelIsHonoured
PROPERTIES
  ImplementsQueue
  OutcomeIsFinal
  QueuedIsTaken
