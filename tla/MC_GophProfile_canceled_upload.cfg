\* The client goes away while the original is written.
SPECIFICATION SystemSpec
CONSTANTS
  a1 = a1  a2 = a2  alice = alice  bob = bob  d1 = d1  d2 = d2  d3 = d3
  AvatarId = {a1}
  UserId = {alice, bob}
  Owner <- AliceOwnsAll
  Decodable = {a1}
  ThumbnailSizes <- OneSize
  DatabaseFaults = {}
  BucketFaults = {}
  PublishMayFail = FALSE
  DeleteRequest = {}
  Requester <- AliceDeletes
  NoAvatar = NoAvatar
  ClientMayCancel = TRUE
  ServerMayCrash = FALSE
  Message <- MCEvent
  NoMessage = NoMessage
  Queue <- MCQueue
  Route <- MCRoute
  CallbackQueue <- MCCallbackQueue
  Worker = {w1}
  Prefetch = 1
  MaxRetries = 1
  MaxDisruptions = 0
CHECK_DEADLOCK FALSE
PROPERTIES FailedWriteLeavesFailedRow
