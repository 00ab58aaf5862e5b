\* Two workers, one of which may be cut off from the broker, and a reader.
SPECIFICATION ApiSpec
CONSTANTS
  a1 = a1  alice = alice
  AvatarId = {a1}
  UserId = {alice}
  Owner <- AliceOwnsAll
  Decodable = {a1}
  ThumbnailSizes <- OneSize
  DatabaseFaults = {}
  BucketFaults = {"refused"}
  PublishMayFail = FALSE
  DeleteRequest = {d1}
  Requester <- AliceDeletes
  NoAvatar = NoAvatar
  ClientMayCancel = FALSE
  ServerMayCrash = FALSE
  Message <- MCEvent
  NoMessage = NoMessage
  Queue <- MCQueue
  Route <- MCRoute
  CallbackQueue <- MCCallbackQueue
  Worker = {w1, w2}
  Prefetch = 1
  MaxRetries = 0
  MaxDisruptions = 1
  Reader = {r1}
  NoLink = NoLink
CHECK_DEADLOCK FALSE
INVARIANTS AdvertisedThumbnailsExist UploadedOriginalStored  NothingDoubled
  AckedUploadsRecorded
PROPERTIES ClientPromise
