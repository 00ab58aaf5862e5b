\* One avatar, one deletion, one worker: every fault, cancellation and crash.
SPECIFICATION SystemSpec
CONSTANTS
  a1 = a1  a2 = a2  alice = alice  bob = bob  d1 = d1  d2 = d2  d3 = d3
  AvatarId = {a1}
  UserId = {alice, bob}
  Owner <- AliceOwnsAll
  Decodable = {a1}
  ThumbnailSizes <- TwoSizes
  DatabaseFaults = {"refused", "lostReply"}
  BucketFaults = {"refused", "lostReply"}
  PublishMayFail = TRUE
  DeleteRequest = {d1}
  Requester <- AliceDeletes
  NoAvatar = NoAvatar
  ClientMayCancel = TRUE
  ServerMayCrash = TRUE
  Message <- MCEvent
  NoMessage = NoMessage
  Queue <- MCQueue
  Route <- MCRoute
  CallbackQueue <- MCCallbackQueue
  Worker = {w1}
  Prefetch = 1
  MaxRetries = 1
  MaxDisruptions = 2
CHECK_DEADLOCK FALSE
INVARIANTS TypeOK AdvertisedThumbnailsExist UploadedOriginalStored AckedUploadsSettled
  DeletionsRemoveOriginal
PROPERTIES ClientPromise
