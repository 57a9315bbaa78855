CONSTANTS
  Keys <- MCKeys
  Vals <- MCVals
  EncLen = 2
  ByteBase = 2
  ChunkSize = 6
  MaxPuts = 2
  MaxRecoveries = 1
  None = None

SPECIFICATION Spec

INVARIANT RecoverTableRebuildsIndex
