\* Two workers, one of them from a parent split by scope, two threads, two
\* paths, one continuation. MaxRuns never holds a scheduler up: at most three
\* runs are under way in this instance.
SPECIFICATION FairSpec
CONSTANTS
  Workers = {w1, w2}
  ScopeWorkers = {w1}
  MaxPaths = 2
  BatchSize = 2
  Threads = 2
  MaxRuns = 4
  MaxResumes = 1
INVARIANTS
  PacketsDisjoint
  QueuedIsCovered
  NothingForgotten
PROPERTIES
  WaitEnds
\* The audit is over when main has reported.
CHECK_DEADLOCK FALSE
