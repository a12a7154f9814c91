SPECIFICATION Spec
CONSTANTS
  Pools <- MCPools
  Batch = 2
  EpochCandidates = 5
  NumPatterns = 2
  Degenerate <- MCDegenerate
  MaxEpochs = 2
  MaxHits <- MCMaxHits
INVARIANTS
  TypeOK
  ScalarMatchesPoint
  EveryMatchPushedOnce
  TotalNeverOverstates
PROPERTIES
  TotalNeverFalls
  StopReturns
  EveryWorkerPublishes
