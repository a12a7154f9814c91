SPECIFICATION FieldSpec
CONSTANTS
  W = 11
  Loads <- MCLoads
  Spare = 2
  MaxCalls = 2
  Unsettled = TRUE
INVARIANTS
  RepresentativesAreClosed
CHECK_DEADLOCK FALSE
