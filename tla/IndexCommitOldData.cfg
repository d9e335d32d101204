CONSTANTS
  MaxUploads = 2
  Chunks <- MCChunks
  ChunksOf <- MCChunksOf
  Langs <- MCLangs
  LangOf <- MCLangOf
  MaxAttempts = 2
  MaxFaults = 1
SPECIFICATION Spec
CHECK_DEADLOCK FALSE
INVARIANT OldDataSurvives
