CONSTANTS
  Users <- MCUsers
  Deliverers <- MCDeliverers
  Ids <- MCIds
  Msgs <- MCLongMsgs
  ChunkSize = 2
  MaxCrashes = 0
  NoFile = NoFile
  DeleteOnce = TRUE

SPECIFICATION Spec

CONSTRAINT MCReadBound

INVARIANT ReadTracksOffset
