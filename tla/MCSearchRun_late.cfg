SPECIFICATION Spec
CONSTANTS
  k1 = k1
  k2 = k2
  k3 = k3
  Keys = {k1, k2, k3}
  NoKey = NoKey
  Cpu = {c1}
  Gpu = {g1}
  Unreliable = {}
  Refusals = {{}}
  MaxHitSlots = 1
  MaxWinners = 2
  NumPatterns = 2
  Matching <- MCMatching
  Counts = {0, 1}
  Nothing = Nothing
  Waiting = Waiting
INVARIANTS
  NothingLeftBehind
