\* Two avatars of one user, three deletions, one of them by somebody else.
SPECIFICATION SystemSpec
CONSTANTS
  a1 = a1  a2 = a2  alice = alice  bob = bob  d1 = d1  d2 = d2  d3 = d3
  AvatarId = {a1, a2}
  UserId = {alice, bob}
  Owner <- AliceOwnsAll
  Decodable = {}
  ThumbnailSizes <- OneSize
  DatabaseFaults = {"lostReply"}
  BucketFaults = {}
  PublishMayFail = FALSE
  DeleteRequest = {d1, d2, d3}
  Requester <- BobDeletesToo
  NoAvatar = NoAvatar
  ClientMayCancel = FALSE
  ServerMayCrash = FALSE
  Message <- MCEvent
  NoMessage = NoMessage
  Queue <- MCQueue
  Route <- MCRoute
  CallbackQueue <- MCCallbackQueue
  Worker = {w1}
  Prefetch = 1
  MaxRetries = 0
  MaxDisruptions = 0
SYMMETRY AliceSymmetry
CHECK_DEADLOCK FALSE
INVARIANTS OneDeletion OwnAvatarsOnly
 
