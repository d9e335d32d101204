SPECIFICATION MCFairSpec
CONSTANTS
  MaxWorkers = 2
  StartWorkers = 1
  Candidates = {c1}
  Threads = 2
  MaxSteps = 4
  MaxErrors = 1
  MaxProgress = 1
CHECK_DEADLOCK FALSE
INVARIANTS
  SharedBudget
  ReserveKept
  ReportAfterDelivery
  NothingLeftRunning
PROPERTIES
  ResumedAtMostOnce
  AuditEnds
