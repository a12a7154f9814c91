SPECIFICATION MCSpec
CONSTANTS
  Depth = 1
  MaxHitSlots = 2
  Degenerate = {2}
  MaxWinners = 3
  MaxEpochs = 3
  MaxConstPatterns = 2
  PatternCounts = {0, 1, 2, 3}
  DefaultThreads = 4
  DefaultBlock = 2
  EnvThreads = {0, 3, 5}
  EnvBlock = {0, 3}
INVARIANTS
  NoHostRace
