SPECIFICATION MCSpec
CONSTANTS
  AccBits = 12
  KeyBytes = 7
  W = 11
  Checksum <- MCChecksum
  Keys <- MCKeys
  Requests <- MCPrefixes
  Texts <- MCTexts
  Loads <- MCLoads
  Spare = 2
  MaxCalls = 2
  Unsettled = FALSE
INVARIANTS
  MatchIsPrefix
  TextIsCanonical
  AddressIsExact
  ResultIsExact
  InversionIsFermat
CHECK_DEADLOCK FALSE
