CONSTANTS
  MaxUploads = 2
  Chunks <- MCChunks
  ChunksOf <- MCChunksOf
  Langs <- MCLangs
  LangOf <- MCLangOf
  MaxAttempts = 3
  MaxFaults = 1
SPECIFICATION Spec
CHECK_DEADLOCK FALSE
INVARIANTS
  BoundRunIsWhole RolledBackClean RetiredIsGone SourceLostOnlyInRace LastUploadKept
