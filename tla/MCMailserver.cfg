CONSTANTS
  Users <- MCUsers
  Deliverers <- MCDeliverers
  Ids <- MCIds
  Msgs <- MCShortMsgs
  ChunkSize = 2
  MaxCrashes = 1
  NoFile = NoFile
  DeleteOnce = FALSE

SPECIFICATION FairSpec

INVARIANT TypeOK
INVARIANT DeliveredDurable
INVARIANT DeliveredOnce
INVARIANT PickupWholeMessages
INVARIANT SpoolOnlyLive

PROPERTY DeliverTerminates
