SPECIFICATION Spec
CONSTANTS
  MaxNodes = 5
  MaxCalls = 3
  AllTypes <- Kinds3
  Takers <- Kinds3
  Methods <- MCMethods
  StartRows <- MCRows
  Chunks <- MCChunks
  JoernCalls <- MCJoernCalls
  Corpus <- MCCorpus
  Traits <- MCTraits
  Volatile <- MCVolatile
  Queries <- MCQueries
  Settings <- MCSettings
  Outputs <- MCOutputs
INVARIANTS CallsOwnedOnce ReceiverFollowsScope LinksFollowImports InheritanceOrderFree CallSitesAccounted RankingIsWhole
CHECK_DEADLOCK FALSE
