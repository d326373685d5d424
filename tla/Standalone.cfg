SPECIFICATION MCSpec
CONSTANTS
  Scalar <- MCScalar
  Zero = 0
  One = 1
  Add <- MCAdd
  Mul <- MCMul
  EC_KEY = {k1, k2}
  Data = {d1, d2}
  None = None
  MaxLength = 8
INVARIANTS
  KeysAgree
  SymbolsAreRight
  EveryKeyVerifies
  AsPrinted
  LeavesSwept
  ErasesHalf
CHECK_DEADLOCK FALSE
