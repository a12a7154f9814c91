SPECIFICATION Spec
CONSTANTS
  Pools <- MCOneWorker
  Batch = 2
  EpochCandidates = 5
  NumPatterns = 1
  Degenerate = {}
  MaxEpochs = 2
  MaxHits <- MCTwoHits
INVARIANTS
  OneScalarPerEpoch
