\* An upload and two deletions, by the owner and by a stranger.
SPECIFICATION FairHttpSpec
CONSTANTS
  alice = alice  bob = bob  d1 = d1  d2 = d2
  AvatarId = {a1}
  UserId = {alice, bob}
  Owner <- AliceOwnsAll
  Decodable = {a1}
  ThumbnailSizes <- OneSize
  DatabaseFaults = {"refused", "lostReply"}
  BucketFaults = {"refused"}
  DeleteRequest = {d1, d2}
  Requester <- BobDeletesToo
  NoAvatar = NoAvatar
  ClientMayCancel = FALSE
  ServerMayCrash = FALSE
  Limit = 3
  Envelope = 1
  FileSize = {2, 3}
  HandlerMayPanic = TRUE
CHECK_DEADLOCK FALSE
INVARIANTS HttpTypeOK EventsOnlyLostLate LimitHolds DenialsTruthful SuccessTruthful 
PROPERTIES ServesAsProcess RequestsEnd ShutdownEnds
