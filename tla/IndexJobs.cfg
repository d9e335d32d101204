SPECIFICATION MCFairSpec
CONSTANTS
  Procs = {p1, p2}
  MaxJobs = 2
  MaxUpsets = 1
  Disturbed = {p1}
CHECK_DEADLOCK FALSE
INVARIANTS
  OneIndexer
  ExecutedJobStaysOpen
  OutcomeMatchesIndex
PROPERTIES
  ImplementsQueue
  QueuedIsTaken
  LockGivenBack
