CONSTANTS
  Keys <- MCKeys
  Vals <- MCChunkVals
  EncLen = 2
  ByteBase = 4
  ChunkSize = 10
  MaxPuts = 3
  MaxRecoveries = 2
  None = None

SPECIFICATION Spec

\* readTableIndexPanic ends the program: a Go panic is a final state.
CHECK_DEADLOCK FALSE

INVARIANTS
  TypeOK
  RecoverOneChunk
  TableReadReturnsLastPut
