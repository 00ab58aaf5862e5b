\* A worker cut off from the broker goes on while another one redoes its work.
SPECIFICATION SystemSpec
CONSTANTS
  a1 = a1  a2 = a2  alice = alice  bob = bob  d1 = d1  d2 = d2  d3 = d3
  AvatarId = {a1}
  UserId = {alice, bob}
  Owner <- AliceOwnsAll
  Decodable = {a1}
  ThumbnailSizes <- OneSize
  DatabaseFaults = {}
  BucketFaults = {}
  PublishMayFail = FALSE
  DeleteRequest = {}
  Requester <- AliceDeletes
  NoAvatar = NoAvatar
  ClientMayCancel = FALSE
  ServerMayCrash = FALSE
  Message <- MCEvent
  NoMessage = NoMessage
  Queue <- MCQueue
  Route <- MCRoute
  CallbackQueue <- MCCallbackQueue
  Worker = {w1, w2}
  Prefetch = 1
  MaxRetries = 0
  MaxDisruptions = 2
CHECK_DEADLOCK FALSE
INVARIANTS AckedUploadsSettled
