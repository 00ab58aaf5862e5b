---------------------------- MODULE GophProfile -----------------------------
(***************************************************************************)
(* The whole system: requests of the server, the broker, the workers and   *)
(* the two stores they share.                                              *)
(***************************************************************************)
EXTENDS Service, Processor

CONSTANT PublishMayFail     \* whether an event may get lost on its way

ASSUME PublishAssumption == PublishMayFail \in BOOLEAN

vars == <<storageVars, serviceVars, consumerVars, processorVars>>

TypeOK == StorageTypeOK /\ ServiceTypeOK /\ ConsumerTypeOK /\ ProcessorTypeOK

Init == StorageInit /\ ServiceInit /\ ConsumerInit /\ ProcessorInit

-----------------------------------------------------------------------------
(* The server.  There are no publisher confirms: an event that is refused, *)
(* or accepted by the client library and lost, is not published again.     *)

Publish(m) ==
  /\ Enqueue(m) \/ (PublishMayFail /\ UNCHANGED consumerVars)
  /\ UNCHANGED processorVars

UploadStep(a) ==
  \/ (UploadPut(a) \/ UploadMarkFailed(a) \/ UploadMarkUploaded(a))
       /\ UNCHANGED <<consumerVars, processorVars>>
  \/ UploadPublish(a) /\ Publish(UploadEvent(a))

DeleteStep(d) ==
  \/ DeleteHide(d) /\ UNCHANGED <<consumerVars, processorVars>>
  \/ DeletePublish(d) /\ Publish(DeleteEvent(target[d], delKeys[d]))

\* What the handlers refuse (no X-User-ID, no file, too large) takes no step.
NewRequest ==
  /\ \/ \E a \in AvatarId : UploadCreate(a)
     \/ \E d \in DeleteRequest :
          DeleteLatestForeign(d) \/ DeleteLatestRead(d) \/ \E a \in AvatarId : DeleteRead(d, a)
  /\ UNCHANGED <<consumerVars, processorVars>>

ServerCrash ==
  /\ (\E a \in AvatarId : UploadCrash(a)) \/ (\E d \in DeleteRequest : DeleteCrash(d))
  /\ UNCHANGED <<consumerVars, processorVars>>

-----------------------------------------------------------------------------
(* The worker. *)

WorkerLoopStep(l) ==
  /\ \/ \E m \in buffer[l] : TakeAndHandle(l, m)
     \/ RetryHandler(l)
     \/ HandlerCall(l)
     \/ PlainLoopStep(l) /\ UNCHANGED <<storageVars, processorVars>>
  /\ UNCHANGED serviceVars

BrokerStep(l) ==
  /\ \E m \in ready : Deliver(l, m)
  /\ UNCHANGED <<storageVars, serviceVars, processorVars>>

WorkerRunStep(w) ==
  RunStep(w) /\ UNCHANGED <<storageVars, serviceVars, processorVars>>

\* A crash ends the handlers of the process wherever they are.
WorkerDisruption(w) ==
  /\ \/ (Terminate(w) \/ LoseConn(w)) /\ UNCHANGED processorVars
     \/ /\ Crash(w)
        /\ step' = [l \in Loop |-> IF l[1] = w THEN "none" ELSE step[l]]
        /\ todo' = [l \in Loop |-> IF l[1] = w THEN {} ELSE todo[l]]
  /\ UNCHANGED <<storageVars, serviceVars>>

SystemNext ==
  \/ NewRequest \/ ServerCrash
  \/ \E a \in AvatarId : UploadStep(a)
  \/ \E d \in DeleteRequest : DeleteStep(d)
  \/ \E l \in Loop : WorkerLoopStep(l) \/ BrokerStep(l)
  \/ \E w \in Worker : WorkerRunStep(w) \/ WorkerDisruption(w)

SystemSpec == Init /\ [][SystemNext]_vars

\* Requests that started run on (unless they crash), goroutines run, external
\* calls return, the broker delivers and Kubernetes restarts the worker.
\* Nothing obliges clients to come, and no fault to happen.
SystemFairness ==
  /\ \A a \in AvatarId : WF_vars(UploadStep(a))
  /\ \A d \in DeleteRequest : WF_vars(DeleteStep(d))
  /\ \A l \in Loop : WF_vars(WorkerLoopStep(l)) /\ WF_vars(BrokerStep(l))
  /\ \A w \in Worker : WF_vars(WorkerRunStep(w))

FairSystemSpec == SystemSpec /\ SystemFairness

-----------------------------------------------------------------------------
(* Properties *)

\* AdvertisedThumbnailsExist: every thumbnail key a live record shows names an
\* object in the bucket, so ThumbnailFile never runs into a missing object.
\* The worker stores before it records, and removal events exist only for
\* records that are hidden already.
AdvertisedThumbnailsExist ==
  \A a \in AvatarId : Visible(a) => row[a].thumbs \subseteq object[a]

\* UploadedOriginalStored: a live record that says "uploaded" has its original.
UploadedOriginalStored ==
  \A a \in AvatarId :
    Visible(a) /\ row[a].upload = "uploaded" => OriginalKey \in object[a]

\* What an upload request knows about its row and its object.
UploadBooks(a) ==
  /\ upload[a] = "none" => row[a].stage = "absent"
  /\ UploadInFlight(a) => Exists(a)
  /\ upload[a] = "markUploaded" /\ Visible(a) => OriginalKey \in object[a]

\* Past the soft delete the row is hidden, and of all requests for the same
\* avatar one at most gets there.
Won(d) == del[d] \in {"publish", "deleted"}

DeleteBooks(d) ==
  /\ del[d] \in {"hide", "publish", "deleted"} => target[d] \in AvatarId
  /\ Won(d) => row[target[d]].stage = "deleted"
  /\ \A e \in DeleteRequest : Won(d) /\ Won(e) /\ target[d] = target[e] => d = e

\* An event is published after what it speaks of: a row, or its deletion.
EventBooks(m) ==
  /\ Exists(m.avatar)
  /\ m.kind = "delete" =>
       /\ row[m.avatar].stage = "deleted"
       /\ \E d \in DeleteRequest : del[d] = "deleted" /\ target[d] = m.avatar
  /\ \A n \in published :
       m.kind = "delete" /\ n.kind = "delete" /\ m.avatar = n.avatar => m = n

\* A handler runs exactly while its loop is in "handle"; the thumbnails it has
\* stored are still there as long as the avatar is visible.
HandlerBooks(l) ==
  /\ step[l] # "none" <=> pc[l] = "handle"
  /\ step[l] \in {"read", "mark", "fetch", "store", "save"} => cur[l].kind = "upload"
  /\ step[l] \in {"remove", "markDeleted"} => cur[l].kind = "delete"
  /\ step[l] \in {"store", "save"} /\ Visible(Goal(l)) => ThumbnailSizes \ todo[l] \subseteq object[Goal(l)]
  /\ step[l] = "save" => todo[l] = {}

\* The inductive invariant.
SystemInv ==
  /\ ConsumerInv /\ TypeOK
  /\ \A a \in AvatarId : UploadBooks(a)
  /\ \A d \in DeleteRequest : DeleteBooks(d)
  /\ \A m \in published : EventBooks(m)
  /\ \A l \in Loop : HandlerBooks(l)
  /\ AdvertisedThumbnailsExist /\ UploadedOriginalStored

\* OneDeletion: of several deletions of one avatar, by id or as the latest one,
\* at most one hides it, to answer 204 and publish; and at most one delete event
\* of the avatar ever exists.
OneDeletion ==
  /\ \A d, e \in DeleteRequest : Won(d) /\ Won(e) /\ target[d] = target[e] => d = e
  /\ \A m, n \in published : m.kind = "delete" /\ n.kind = "delete" /\ m.avatar = n.avatar => m = n

\* OwnAvatarsOnly: an avatar is hidden only if its own user asked for it.
OwnAvatarsOnly ==
  \A a \in AvatarId : row[a].stage = "deleted" =>
    \E d \in DeleteRequest : target[d] = a /\ Requester[d] = Owner[a]

\* A request that has chosen an avatar has started, and chose one of its user's.
OwnBooks(d) == target[d] # NoAvatar => del[d] # "none" /\ Requester[d] = Owner[target[d]]

\* The inductive invariant behind it.
OwnInv == OwnAvatarsOnly /\ \A d \in DeleteRequest : OwnBooks(d)

\* AckedUploadsSettled: once the upload event is acknowledged, and so will never
\* be delivered again, no live avatar is left pending or processing.
AckedUploadsSettled ==
  \A a \in AvatarId :
    UploadEvent(a) \in acked /\ Visible(a) => row[a].processing \in {"completed", "failed"}

\* What it rests on with a single worker: nobody works on a copy of what is
\* acknowledged, and what is about to be acknowledged is settled.
SettledBooks(l) ==
  /\ (buffer[l] \cup {cur[l]}) \cap acked = {}
  /\ pc[l] = "ack" /\ cur[l].kind = "upload" /\ Visible(Goal(l))
       => row[Goal(l)].processing \in {"completed", "failed"}

\* The inductive invariant behind it.
SettledInv ==
  /\ AckedUploadsSettled
  /\ \A l \in Loop : SettledBooks(l)
  /\ \A a \in AvatarId : Visible(a) => row[a].processing # "deleted"

\* AckedUploadsRecorded: what an acknowledged upload leaves behind, whatever stale
\* workers do to the avatar's status: the record of a live avatar names every
\* thumbnail, unless its original was no image, and the bucket holds nothing that
\* the record does not name, so a deletion captures everything.
AckedUploadsRecorded ==
  \A a \in AvatarId : UploadEvent(a) \in acked /\ Visible(a) =>
    /\ a \in Decodable => row[a].thumbs = ThumbnailSizes
    /\ object[a] \subseteq {OriginalKey} \cup row[a].thumbs

\* What it rests on: "completed" stands for recorded thumbnails, only images have
\* any, and no handler finishes an upload's event without them.
RecordedBooks(a) ==
  /\ row[a].processing = "completed" => row[a].thumbs = ThumbnailSizes
  /\ Visible(a) => row[a].processing # "deleted"
  /\ a \notin Decodable => object[a] \cap ThumbnailSizes = {}
  /\ UploadEvent(a) \in handled /\ Visible(a) /\ a \in Decodable => row[a].thumbs = ThumbnailSizes

\* The inductive invariant behind it.
RecordedInv ==
  /\ acked \subseteq handled /\ handled \subseteq published /\ AckBooks
  /\ \A a \in AvatarId : RecordedBooks(a)

\* DeletionsRemoveOriginal: when the deletion of an avatar that had thumbnails is
\* acknowledged, its original has left the bucket for good.  A deletion may
\* overtake an upload that has yet to store its original; such an avatar has no
\* thumbnails.
DeletionsRemoveOriginal ==
  \A m \in acked : m.kind = "delete" /\ m.keys # {OriginalKey} => OriginalKey \notin object[m.avatar]

\* Keys that show that the upload they were captured from is over.
Finished(a, K) == OriginalKey \in K /\ (K # {OriginalKey} => upload[a] = "created")

\* A handler that has gone past the original has removed it, and stores none.
RemovalBooks(l) ==
  /\ step[l] = "store" => OriginalKey \notin todo[l]
  /\ step[l] = "markDeleted" => todo[l] = {}
  /\ /\ step[l] \in {"remove", "markDeleted"}
     /\ OriginalKey \notin todo[l] /\ cur[l].keys # {OriginalKey}
     => OriginalKey \notin object[Goal(l)]

\* The inductive invariant behind it: captured and published keys include the
\* original, and a handled deletion has removed it.
RemovalInv ==
  /\ \A d \in DeleteRequest : del[d] \in {"hide", "publish"} => Finished(target[d], delKeys[d])
  /\ \A m \in published : m.kind = "delete" => Finished(m.avatar, m.keys)
  /\ \A m \in handled : m.kind = "delete" /\ m.keys # {OriginalKey} => OriginalKey \notin object[m.avatar]
  /\ \A l \in Loop : RemovalBooks(l)

\* LatestChangesForCause: who is the latest avatar of a user, or are the latest
\* where created_at ties, changes by an upload that becomes the latest or by the
\* deletion of one that was; neither the worker's writes nor the deletion of an
\* older avatar move it.
LatestChangesForCause ==
  [][/\ \A u \in UserId : LatestByUser(u)' # LatestByUser(u) =>
          \/ \E a \in LatestByUser(u)' : ~Exists(a)
          \/ \E a \in LatestByUser(u) : ~Visible(a)'
     /\ \A a \in AvatarId : ~Exists(a) /\ Exists(a)' => a \in LatestByUser(Owner[a])']_vars

\* The clock is never behind a record.
ClockBooks == \A a \in AvatarId : row[a].created <= clock

\* No store call ever fails, and a handler may be retried.
FaultFree == DatabaseFaults = {} /\ BucketFaults = {} /\ MaxRetries > 0

\* OnlyFaultsBury: where no store call fails, no message is buried and no image is
\* marked failed, whatever crashes, shutdowns, lost connections and deletions do.
\* The one failure the system brings about by itself, an original removed under a
\* running handler, is absorbed by a single retry.
OnlyFaultsBury == FaultFree => dead = {} /\ \A a \in Decodable : row[a].processing # "failed"

\* The failure it speaks of: the avatar is deleted, and the next attempt sees it.
FaultFreeBooks(l) ==
  failures[l] > 0 =>
    /\ failures[l] = 1 /\ cur[l].kind = "upload"
    /\ row[Goal(l)].stage = "deleted" /\ step[l] \in {"none", "read"}

\* The inductive invariant behind it, on top of PromiseInv.
FaultFreeInv == FaultFree => OnlyFaultsBury /\ \A l \in Loop : FaultFreeBooks(l)

\* What clients can download of avatar a.
Shown(a) == IF Visible(a) THEN object[a] \cap ({OriginalKey} \cup row[a].thumbs) ELSE {}

\* ClientPromise: the clients' view implements AvatarPromise.
View == INSTANCE AvatarPromise WITH
  Original <- OriginalKey,
  Thumbnails <- ThumbnailSizes,
  life <- [a \in AvatarId |-> row[a].stage],
  files <- [a \in AvatarId |-> Shown(a)]

ClientPromise == View!Spec

\* The order behind it: the original comes before the event, the event before the
\* thumbnails, and the thumbnails are recorded all at once.
PromiseBooks(a) ==
  /\ row[a].thumbs \in {{}, ThumbnailSizes}
  /\ upload[a] \in {"none", "put"} => object[a] = {}
  /\ upload[a] \in {"publish", "created"} /\ Visible(a) => OriginalKey \in object[a]
  /\ IF UploadEvent(a) \in published THEN upload[a] = "created" ELSE row[a].thumbs = {}

PromiseInv == \A a \in AvatarId : PromiseBooks(a)

\* UploadsSettleForGood: a published upload event leads to an avatar that is
\* completed, failed or deleted from then on, or to a dead letter.
UploadsSettleForGood ==
  \A a \in AvatarId :
    UploadEvent(a) \in published ~>
      [](\/ row[a].stage = "deleted"
         \/ row[a].processing \in {"completed", "failed"}
         \/ UploadEvent(a) \in dead)

\* Somebody works on the upload of avatar a: its request or a handler.
AtWork(a) == UploadInFlight(a) \/ \E l \in Loop : cur[l] = UploadEvent(a)

\* CapturedKeysGo: if nobody works on the avatar's upload when it is hidden, the
\* objects whose keys the deletion captured leave the bucket and stay away, or
\* the event ends in the dead queue.  Neither a redelivered upload event nor a
\* worker's restart brings them back.
CapturedKeysGo ==
  \A d \in DeleteRequest, a \in AvatarId, K \in SUBSET Key :
    (del[d] = "publish" /\ target[d] = a /\ delKeys[d] = K /\ ~AtWork(a))
      ~> [](object[a] \cap K = {} \/ DeleteEvent(a, K) \in dead)

-----------------------------------------------------------------------------
(* Statements of the repository's documentation that the code breaks. *)

\* DeletedLeavesNoThumbnail: the worker cleans up the objects of a deleted avatar
\* (README.md:16): when the delete event is done and nobody works on the avatar's
\* upload any more, no thumbnail is left.
DeletedLeavesNoThumbnail ==
  \A m \in acked : m.kind = "delete" /\ ~AtWork(m.avatar) =>
    object[m.avatar] \cap ThumbnailSizes = {}

\* CaptureIsComplete: when the upload event is settled, the keys a delete
\* captures, the original's and the recorded thumbnails', are all the objects
\* there are to remove (service.go:198-199).
CaptureIsComplete ==
  \A a \in AvatarId :
    Visible(a) /\ ~AtWork(a) /\ UploadEvent(a) \in acked \cup dead =>
    object[a] \subseteq {OriginalKey} \cup row[a].thumbs

\* FailedWriteLeavesFailedRow: a failed S3 write leaves a visible failed row
\* (service.go:84-86), unless the row is deleted meanwhile.
FailedWriteLeavesFailedRow ==
  [][\A a \in AvatarId :
       upload[a] = "markFailed" /\ upload'[a] = "error" /\ Visible(a)'
         => row'[a].upload = "failed"]_vars

\* CompletedStaysCompleted: a repeated delivery of an event breaks nothing
\* (README.md:15): a live avatar whose thumbnails are ready stays "completed".
CompletedStaysCompleted ==
  [][\A a \in AvatarId :
       row[a].processing = "completed" /\ Visible(a) /\ Visible(a)'
         => row[a]'.processing = "completed"]_vars

\* What keeps it true of a single worker whose database never fails: a handler that
\* is past its check, and the callback, work on an avatar that is not completed.
UnfinishedBooks(l) ==
  /\ \/ step[l] \in {"mark", "fetch", "store", "save"}
     \/ pc[l] \in {"backoff", "callback"}
     \/ pc[l] = "failed" /\ Live(l[1])
  /\ Visible(Goal(l))
  => row[Goal(l)].processing # "completed"

UnfinishedInv == \A l \in Loop : UnfinishedBooks(l)

\* DeletionsLeaveNothing: when the deletion of an avatar that had thumbnails is
\* acknowledged, nothing of it is left in the bucket, nor ever comes back.  With one
\* worker and a database that never fails this bounds the race of a deletion with a
\* handler: once thumbnails are recorded, nobody stores any more.
DeletionsLeaveNothing ==
  \A m \in acked : m.kind = "delete" /\ m.keys # {OriginalKey} => object[m.avatar] = {}

\* Keys with a thumbnail among them are all there can be, of recorded thumbnails.
Whole(a, K) == K # {OriginalKey} => K = Key /\ row[a].thumbs # {}

\* A handler that may store works on an avatar without recorded thumbnails; one that
\* removes has yet to remove all that is there.
CleanupBooks(l) ==
  /\ step[l] \in {"mark", "fetch", "store", "save"} => row[Goal(l)].thumbs = {}
  /\ step[l] \in {"remove", "markDeleted"} /\ cur[l].keys # {OriginalKey}
       => object[Goal(l)] \subseteq todo[l]

\* The inductive invariant behind it, on top of UnfinishedInv and RemovalInv.
CleanupInv ==
  /\ \A a \in AvatarId : Visible(a) /\ row[a].thumbs # {} => row[a].processing = "completed"
  /\ \A d \in DeleteRequest : del[d] \in {"hide", "publish"} => Whole(target[d], delKeys[d])
  /\ \A m \in published : m.kind = "delete" => Whole(m.avatar, m.keys)
  /\ \A m \in handled : m.kind = "delete" /\ m.keys # {OriginalKey} => object[m.avatar] = {}
  /\ \A l \in Loop : CleanupBooks(l)

=============================================================================
