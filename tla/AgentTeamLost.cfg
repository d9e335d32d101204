SPECIFICATION Spec
CONSTANTS
  MaxWorkers = 1
  StartWorkers = 1
  Candidates = {c1}
  Threads = 1
  MaxSteps = 4
  MaxErrors = 1
  MaxProgress = 1
CHECK_DEADLOCK FALSE
INVARIANTS
  ResultsReachMain
