SPECIFICATION MCSpec
CONSTANTS
  Depth = 2
  MaxHitSlots = 2
  Degenerate = {2}
  MaxWinners = 3
  MaxEpochs = 4
  MaxConstPatterns = 2
  PatternCounts = {0, 1, 2, 3}
  DefaultThreads = 4
  DefaultBlock = 2
  EnvThreads = {0, 3, 5}
  EnvBlock = {0, 3}
INVARIANTS
  TypeOK
  NoHostRace
  HarvestsExact
  HarvestedInOrder
  NoSilentLoss
  ReturnsIdle
  WorkHasResources
PROPERTIES
  StopReturns
