CONSTANTS
  MaxCandidates = 2
  Needs <- MCNeeds
  Routes <- MCRoutes
  Place <- MCPlace
  MaxRecords = 3
  MaxTasks = 2
SPECIFICATION Spec
CHECK_DEADLOCK FALSE
INVARIANTS FindingsAreReviewed NoCandidateLost CitedEvidenceKept
