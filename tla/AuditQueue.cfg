SPECIFICATION MCSpec
CONSTANTS
  Procs = {p1, p2}
  Threads = 1
  MaxTasks = 2
  MaxUpsets = 1
SYMMETRY ProcSymmetry
CHECK_DEADLOCK FALSE
INVARIANTS
  OneAudit
  ExecutedTaskIsLeased
  RunsAtMostOnce
