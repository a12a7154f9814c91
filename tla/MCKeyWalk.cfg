SPECIFICATION MCSpec
CONSTANTS
  F <- MCField
  Zero = 0
  One = 1
  Add <- MCAdd
  Sub <- MCSub
  Mul <- MCMul
  Inv <- MCInv
  D2 = 6
  Basepoint <- MCBasepoint
  ByteBits = 5
  ScalarBytes = 2
  Batch = 3
  BaseScalars <- MCEarlyScalars
  Threads = 3
  EpochCandidates = 7
  ByteAt <- MCByteAt
  Pieces = {1, 15, 32, 88}
  MaxUpdates = 4
INVARIANTS
  PointsStayValid
  YRecovered
  RebuiltKeyIsThePoint
  HashIsFips202
