CONSTANTS
  Users <- MCUsers
  Deliverers <- MCDeliverers
  Ids <- MCIds
  Msgs <- MCShortMsgs
  ChunkSize = 2
  MaxCrashes = 0
  NoFile = NoFile
  DeleteOnce = TRUE

SPECIFICATION FilesSpec

INVARIANT DescriptorsHeldByRunningCalls
