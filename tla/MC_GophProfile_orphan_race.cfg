\* The worker builds thumbnails while the user deletes the avatar.
SPECIFICATION SystemSpec
CONSTANTS
  a1 = a1  a2 = a2  alice = alice  bob = bob  d1 = d1  d2 = d2  d3 = d3
  AvatarId = {a1}
  UserId = {alice, bob}
  Owner <- AliceOwnsAll
  Decodable = {a1}
  ThumbnailSizes <- OneSize
  DatabaseFaults = {}
  BucketFaults = {}
  PublishMayFail = FALSE
  DeleteRequest = {d1}
  Requester <- AliceDeletes
  NoAvatar = NoAvatar
  ClientMayCancel = FALSE
  ServerMayCrash = FALSE
  Message <- MCEvent
  NoMessage = NoMessage
  Queue <- MCQueue
  Route <- MCRoute
  CallbackQueue <- MCCallbackQueue
  Worker = {w1}
  Prefetch = 1
  MaxRetries = 0
  MaxDisruptions = 0
CHECK_DEADLOCK FALSE
INVARIANTS DeletedLeavesNoThumbnail
