CONSTANTS
  Users <- MCUsers
  Deliverers <- MCDeliverers
  Ids <- MCIds
  Msgs <- MCLongMsgs
  ChunkSize = 2
  MaxCrashes = 1
  NoFile = NoFile
  DeleteOnce = TRUE

SPECIFICATION Spec

CONSTRAINT MCReadBound

INVARIANT DeliveredDurable
INVARIANT DeliveredOnce
INVARIANT SpoolOnlyLive
PROPERTY StoreSpec
