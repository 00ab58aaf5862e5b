-------------------------- MODULE Recording_proofs --------------------------
(***************************************************************************)
(* What the worker leaves behind: the records of acknowledged uploads, the *)
(* objects of acknowledged deletions, and, where no store call fails, no   *)
(* dead letter.                                                            *)
(***************************************************************************)
EXTENDS Promise_proofs, Settling_proofs

-----------------------------------------------------------------------------
(* What is acknowledged was handled. *)

\* An event of one kind is none of the other, and tells its avatar.
LEMMA EventsApart ==
  /\ \A a \in AvatarId : UploadEvent(a).kind = "upload" /\ UploadEvent(a).avatar = a
  /\ \A a, K : /\ DeleteEvent(a, K).kind = "delete"
               /\ DeleteEvent(a, K).avatar = a /\ DeleteEvent(a, K).keys = K
  BY DEF UploadEvent, DeleteEvent

\* What is acknowledged was handled, whatever the handlers do.
LEMMA HandledStep ==
  ASSUME ConsumerInv, acked \subseteq handled, handled \subseteq published, AckBooks,
         [Next]_consumerVars
  PROVE  acked' \subseteq handled' /\ handled' \subseteq published'
  <1> USE DEF brokerVars, loopVars, workerVars, historyVars, consumerVars, AckBooks
  <1>types. /\ pc \in [Loop -> LoopState] /\ cur \in [Loop -> Message \cup {NoMessage}]
            /\ \A l \in Loop : pc[l] \notin {"select", "done"} => cur[l] \in published
    BY DEF ConsumerInv, ConsumerTypeOK, LoopBooks, Issued
  <1>1. CASE UNCHANGED consumerVars
    BY <1>1
  <1>2. ASSUME NEW m \in Message, Enqueue(m)
        PROVE  acked' \subseteq handled' /\ handled' \subseteq published'
    BY <1>2 DEF Enqueue
  <1>3. ASSUME NEW l \in Loop, NEW m \in Message, Deliver(l, m)
        PROVE  acked' \subseteq handled' /\ handled' \subseteq published'
    BY <1>3 DEF Deliver
  <1>4. ASSUME NEW l \in Loop, LoopStep(l)
        PROVE  acked' \subseteq handled' /\ handled' \subseteq published'
    <2>1. CASE \E m \in Message : Take(l, m)
      BY <1>types, <2>1 DEF Take, Goto
    <2>2. CASE Retry(l)
      BY <1>types, <2>2 DEF Retry, Goto
    <2>3. CASE StopLoop(l) \/ LoseChannel(l) \/ BackoffCanceled(l) \/ GiveUp(l)
      BY <1>types, <2>3 DEF StopLoop, LoseChannel, BackoffCanceled, GiveUp, Goto
    <2>4. CASE Ack(l) \/ Requeue(l) \/ Bury(l)
      BY <1>types, <2>4 DEF Ack, Requeue, Bury, Release, Goto
    <2>5. CASE HandlerStep(l)
      BY <1>types, <2>5 DEF HandlerStep, HandlerOK, HandlerFails, CallbackReturns, Goto
    <2>6. QED
      BY <1>4, <2>1, <2>2, <2>3, <2>4, <2>5 DEF LoopStep, PlainLoopStep
  <1>5. ASSUME NEW w \in Worker, RunStep(w) \/ Disruption(w)
        PROVE  acked' \subseteq handled' /\ handled' \subseteq published'
    BY <1>5, <1>types
      DEF RunStep, Disruption, CloseConn, Restart, Terminate, LoseConn, Crash, LoopsOf
  <1>6. QED
    BY <1>1, <1>2, <1>3, <1>4, <1>5 DEF Next

\* A handler's call ends the handling of its message, or leaves the history alone.
LEMMA CallHandles ==
  ASSUME NEW l \in Loop, HandlerCall(l)
  PROVE  HandlerOK(l) \/ UNCHANGED handled
  BY DEF HandlerCall, ReadAvatar, MarkProcessing, FetchOriginal, StoreThumbnail,
    RemoveObject, RejectOriginal, SaveThumbnails, MarkDeleted, UploadFailed, CallbackReturns,
    Finish, Succeed, Fail, HandlerFails, Continue, consumerVars, historyVars

\* Only a handler's call adds to what is handled.
LEMMA HandledGrows ==
  ASSUME [SystemNext]_vars
  PROVE  \/ UNCHANGED handled
         \/ \E l \in Loop : WorkerLoopStep(l) /\ HandlerCall(l)
  <1> USE DEF consumerVars, historyVars
  <1>1. CASE UNCHANGED vars \/ NewRequest \/ ServerCrash
    BY <1>1 DEF vars, NewRequest, ServerCrash
  <1>2. CASE (\E a \in AvatarId : UploadStep(a)) \/ (\E d \in DeleteRequest : DeleteStep(d))
    BY <1>2 DEF UploadStep, DeleteStep, Publish, Enqueue
  <1>3. ASSUME NEW l \in Loop, WorkerLoopStep(l)
        PROVE  \/ UNCHANGED handled
               \/ HandlerCall(l)
    <2>1. CASE PlainLoopStep(l) \/ RetryHandler(l) \/ \E m \in buffer[l] : TakeAndHandle(l, m)
      BY <2>1 DEF PlainLoopStep, StopLoop, LoseChannel, BackoffCanceled, Ack, Requeue, GiveUp, Bury,
        RetryHandler, Retry, TakeAndHandle, Take
    <2>2. CASE HandlerCall(l)
      BY <1>3, <2>2, CallHandles DEF WorkerLoopStep
    <2>3. QED
      BY <1>3, <2>1, <2>2 DEF WorkerLoopStep
  <1>4. CASE \/ \E l \in Loop : BrokerStep(l)
             \/ \E w \in Worker : WorkerRunStep(w) \/ WorkerDisruption(w)
    BY <1>4 DEF BrokerStep, Deliver, WorkerRunStep, RunStep, CloseConn, Restart,
      WorkerDisruption, Terminate, LoseConn, Crash
  <1>5. QED
    BY <1>1, <1>2, <1>3, <1>4 DEF SystemNext

-----------------------------------------------------------------------------
(* Acknowledged uploads. *)

\* What a call of a handler does to the avatar it works on, and what it leaves
\* behind when the message is done.
CallKeepsBooks(l, a) ==
  /\ \/ row'[a].processing \in {row[a].processing, "processing", "failed"}
     \/ row'[a].processing = "completed" /\ row'[a].thumbs = ThumbnailSizes
     \/ row'[a].processing = "deleted" /\ ~Visible(a)
  /\ row'[a].thumbs \in {row[a].thumbs, ThumbnailSizes}
  /\ a \notin Decodable => object'[a] \cap ThumbnailSizes \subseteq object[a]
  /\ pc'[l] = "ack" /\ cur[l].kind = "upload" /\ Visible(a) /\ a \in Decodable
       => row'[a].thumbs = ThumbnailSizes

LEMMA CallRecords ==
  ASSUME SystemInv, RecordedInv, NEW l \in Loop, HandlerCall(l), NEW a \in AvatarId, a = Goal(l)
  PROVE  CallKeepsBooks(l, a)
  <1>types. StorageTypeOK /\ HandlerBooks(l) /\ ConsumerTypeOK
    BY DEF SystemInv, TypeOK
  <1>goal. pc[l] \in {"handle", "callback"} =>
             Exists(a) /\ (cur[l].kind = "delete" => ~Visible(a))
    BY HandlerGoal
  <1>books. RecordedBooks(a)
    BY DEF RecordedInv
  <1>ends. /\ Succeed(l) => pc'[l] = "ack"
           /\ Fail(l) => pc'[l] # "ack"
           /\ \A next, left : Continue(l, next, left) => pc'[l] = pc[l]
    BY <1>types DEF Succeed, Fail, HandlerOK, HandlerFails, Goto, ConsumerTypeOK, Continue,
      consumerVars, loopVars
  <1>1. CASE ReadAvatar(l)
    <2>1. pc[l] = "handle" /\ UNCHANGED <<row, object>>
      BY <1>1 DEF ReadAvatar, At, storageVars
    <2>2. pc'[l] = "ack" => ~Visible(a) \/ row[a].processing \in {"completed", "deleted"}
      BY <1>1, <1>ends, <2>1 DEF ReadAvatar
    <2>3. QED
      BY <1>books, <2>1, <2>2 DEF CallKeepsBooks, RecordedBooks
  <1>2. CASE MarkProcessing(l)
    <2>1. PICK o \in WorkerOutcome(l, DatabaseFaults) :
            /\ SetProcessingStatus(a, "processing", o)
            /\ IF o = "ok" THEN Continue(l, "fetch", {}) ELSE Fail(l)
      BY <1>2 DEF MarkProcessing
    <2>2. pc[l] = "handle" /\ pc'[l] # "ack"
      BY <1>2, <1>ends, <2>1 DEF MarkProcessing, At
    <2>3. QED
      BY <1>types, <1>goal, <2>1, <2>2, StatusWritten DEF CallKeepsBooks
  <1>3. CASE FetchOriginal(l)
    <2>1. UNCHANGED <<row, object>> /\ pc'[l] # "ack"
      BY <1>3, <1>ends DEF FetchOriginal, At, storageVars
    <2>2. QED
      BY <2>1 DEF CallKeepsBooks
  <1>4. ASSUME NEW key \in Key, StoreThumbnail(l, key) \/ RemoveObject(l, key)
        PROVE  CallKeepsBooks(l, a)
    <2>1. UNCHANGED row /\ pc'[l] # "ack"
      BY <1>4, <1>ends DEF StoreThumbnail, RemoveObject, At, Put, Remove
    <2>2. a \notin Decodable => object'[a] \subseteq object[a]
      BY <1>types, <1>4 DEF StoreThumbnail, RemoveObject, Remove, StorageTypeOK
    <2>3. QED
      BY <2>1, <2>2 DEF CallKeepsBooks
  <1>5. CASE RejectOriginal(l)
    <2>1. pc[l] = "handle" /\ a \notin Decodable /\ \E o : SetProcessingStatus(a, "failed", o)
      BY <1>5 DEF RejectOriginal, At
    <2>2. QED
      BY <1>types, <1>goal, <2>1, StatusWritten DEF CallKeepsBooks
  <1>6. CASE SaveThumbnails(l)
    <2>1. PICK o \in WorkerOutcome(l, DatabaseFaults) :
            SetThumbnails(a, ThumbnailSizes, o) /\ Finish(l, o)
      BY <1>6 DEF SaveThumbnails
    <2>2. pc[l] = "handle" /\ (pc'[l] = "ack" => o = "ok")
      BY <1>6, <1>ends, <2>1 DEF SaveThumbnails, At, Finish
    <2>3. QED
      BY <1>types, <1>goal, <2>1, <2>2, StatusWritten DEF CallKeepsBooks
  <1>7. CASE MarkDeleted(l)
    <2>1. /\ pc[l] = "handle" /\ ~Visible(a) /\ \E o : SetProcessingStatus(a, "deleted", o)
      BY <1>7, <1>types, <1>goal DEF MarkDeleted, At, HandlerBooks
    <2>2. QED
      BY <1>types, <1>goal, <2>1, StatusWritten DEF CallKeepsBooks
  <1>8. CASE UploadFailed(l)
    <2>1. pc[l] = "callback" /\ pc'[l] # "ack" /\ \E o : SetProcessingStatus(a, "failed", o)
      BY <1>8, <1>types DEF UploadFailed, CallbackReturns, Goto, ConsumerTypeOK
    <2>2. QED
      BY <1>types, <1>goal, <2>1, StatusWritten DEF CallKeepsBooks
  <1>9. QED
    BY <1>1, <1>2, <1>3, <1>4, <1>5, <1>6, <1>7, <1>8 DEF HandlerCall

LEMMA RecordedStep ==
  ASSUME SystemInv, RecordedInv, [SystemNext]_vars
  PROVE  RecordedInv'
  <1>types. StorageTypeOK
    BY DEF SystemInv, TypeOK
  <1>1. acked' \subseteq handled' /\ handled' \subseteq published' /\ AckBooks'
    BY HandledStep, DeliveryStep, ConsumerSide DEF RecordedInv, SystemInv
  <1>exists. \A b \in AvatarId : UploadEvent(b) \in handled => Exists(b)
    BY EventsApart DEF RecordedInv, SystemInv, EventBooks
  <1>2. ASSUME NEW b \in AvatarId, UNCHANGED handled,
               Served(b), object'[b] \subseteq object[b] \cup {OriginalKey}
        PROVE  RecordedBooks(b)'
    <2>1. RecordedBooks(b)
      BY DEF RecordedInv
    <2>2. object'[b] \cap ThumbnailSizes \subseteq object[b] \cap ThumbnailSizes
      BY <1>2, SizesAssumption DEF OriginalKey
    <2>3. CASE Exists(b)
      BY <1>2, <2>1, <2>2, <2>3 DEF RecordedBooks, Served, Visible
    <2>4. CASE ~Exists(b)
      BY <1>2, <1>exists, <2>1, <2>2, <2>4 DEF RecordedBooks, Served, Visible, FreshRow
    <2>5. QED
      BY <2>3, <2>4
  <1>3. ASSUME RequestCall, UNCHANGED handled PROVE RecordedInv'
    BY <1>1, <1>2, <1>3, RequestWrites DEF RecordedInv
  <1>4. ASSUME UNCHANGED storageVars, UNCHANGED handled PROVE RecordedInv'
    BY <1>1, <1>4 DEF RecordedInv, RecordedBooks, Visible, storageVars
  <1>5. ASSUME NEW l \in Loop, WorkerLoopStep(l), HandlerCall(l) PROVE RecordedInv'
    <2>0. pc[l] \in {"handle", "callback"}
      BY <1>5 DEF HandlerCall, ReadAvatar, MarkProcessing, FetchOriginal, StoreThumbnail,
        RemoveObject, RejectOriginal, SaveThumbnails, MarkDeleted, UploadFailed, At, CallbackReturns
    <2>1. PICK a \in AvatarId : a = Goal(l)
      BY <2>0, HandlerGoal
    <2>2. CallKeepsBooks(l, a)
      BY <1>5, <2>1, CallRecords
    <2>3. \/ UNCHANGED handled
          \/ handled' = handled \cup {cur[l]} /\ pc'[l] = "ack"
      BY <1>5, CallHandles DEF HandlerOK, Goto, SystemInv, TypeOK, ConsumerTypeOK
    <2>4. ASSUME NEW b \in AvatarId \ {a} PROVE RecordedBooks(b)'
      <3>1. row'[b] = row[b] /\ object'[b] = object[b]
        BY <1>5, <2>1, WorkerWrites
      <3>2. UploadEvent(b) \in handled' => UploadEvent(b) \in handled
        BY <2>1, <2>3, EventsApart DEF Goal
      <3>3. QED
        BY <3>1, <3>2 DEF RecordedInv, RecordedBooks, Visible
    <2>5. RecordedBooks(a)'
      <3>1. RecordedBooks(a) /\ (Visible(a)' <=> Visible(a))
        BY <1>5, WorkerWrites DEF RecordedInv, Visible
      <3>2. UploadEvent(a) \in handled' =>
              UploadEvent(a) \in handled \/ (cur[l].kind = "upload" /\ pc'[l] = "ack")
        BY <2>3, EventsApart
      <3>3. QED
        BY <2>2, <3>1, <3>2 DEF RecordedBooks, CallKeepsBooks
    <2>6. QED
      BY <1>1, <2>4, <2>5 DEF RecordedInv
  <1>6. ASSUME UNCHANGED handled PROVE RecordedInv'
    <2>1. ASSUME NEW l \in Loop, WorkerLoopStep(l) PROVE HandlerCall(l) \/ UNCHANGED storageVars
      BY <2>1 DEF WorkerLoopStep, TakeAndHandle, RetryHandler
    <2>2. QED
      BY <1>3, <1>4, <1>5, <1>6, <2>1, RequestOrWorker
  <1>7. QED
    BY <1>5, <1>6, HandledGrows

\* The record-keeping of the handlers is an invariant of the system.
LEMMA RecordedInvariant == SystemSpec => []RecordedInv
  <1>1. Init => RecordedInv
    BY DEF Init, StorageInit, ConsumerInit, FreshRow, RecordedInv, RecordedBooks, AckBooks
  <1>2. SystemInv /\ RecordedInv /\ [SystemNext]_vars => RecordedInv'
    BY RecordedStep
  <1>3. QED
    BY <1>1, <1>2, SystemInvariant, PTL DEF SystemSpec

\* UploadsRecorded: with any number of workers, and whatever fails or comes twice, an
\* acknowledged upload has all its thumbnails on record, or was no image, and leaves
\* no object that a deletion would not capture.
THEOREM UploadsRecorded == SystemSpec => []AckedUploadsRecorded
  <1>1. SystemInv /\ RecordedInv => AckedUploadsRecorded
    <2> SUFFICES ASSUME SystemInv, RecordedInv, NEW a \in AvatarId, UploadEvent(a) \in acked, Visible(a)
                 PROVE  /\ a \in Decodable => row[a].thumbs = ThumbnailSizes
                        /\ object[a] \subseteq {OriginalKey} \cup row[a].thumbs
      BY DEF AckedUploadsRecorded
    <2>1. RecordedBooks(a) /\ UploadEvent(a) \in handled
      BY DEF RecordedInv
    <2>2. object[a] \subseteq {OriginalKey} \cup ThumbnailSizes
      BY DEF SystemInv, TypeOK, StorageTypeOK, Key
    <2>3. QED
      BY <2>1, <2>2 DEF RecordedBooks
  <1>2. QED
    BY <1>1, RecordedInvariant, SystemInvariant, PTL

-----------------------------------------------------------------------------
(* Acknowledged deletions. *)

\* The order that the promise to the clients rests on is an invariant too.
LEMMA PromiseInvariant == SystemSpec => []PromiseInv
  <1>1. Init => PromiseInv
    BY PromiseInit
  <1>2. SystemInv /\ PromiseInv /\ [SystemNext]_vars => PromiseInv'
    BY PromiseStep DEF Kept
  <1>3. QED
    BY <1>1, <1>2, SystemInvariant, PTL DEF SystemSpec

\* An upload that is over stays over, and its original never comes back.
LEMMA CreatedStands ==
  ASSUME SystemInv, RemovalInv, [SystemNext]_vars, NEW a \in AvatarId, upload[a] = "created"
  PROVE  upload'[a] = "created" /\ (OriginalKey \in object'[a] => OriginalKey \in object[a])
  <1>types. StorageTypeOK /\ upload \in [AvatarId -> UploadState]
    BY DEF SystemInv, TypeOK, ServiceTypeOK
  <1>1. ASSUME NEW b \in AvatarId,
               \/ UploadCreate(b) \/ UploadPut(b) \/ UploadMarkFailed(b)
               \/ UploadMarkUploaded(b) \/ UploadPublish(b) \/ UploadCrash(b)
        PROVE  upload'[a] = "created" /\ object'[a] = object[a]
    <2>1. upload[b] # "created" /\ \E label : upload' = [upload EXCEPT ![b] = label]
      BY <1>1 DEF UploadCreate, UploadPut, UploadMarkFailed, UploadMarkUploaded, UploadPublish,
        UploadCrash, UploadCall, UploadInFlight
    <2>2. UNCHANGED object \/ \E o : Put(b, OriginalKey, o)
      BY <1>1 DEF UploadCreate, UploadPut, UploadMarkFailed, UploadMarkUploaded, UploadPublish,
        UploadCrash, Create, SetUploadStatus, Update, storageVars
    <2>3. QED
      BY <1>types, <2>1, <2>2 DEF Put, StorageTypeOK
  <1>2. ASSUME NEW d \in DeleteRequest,
               \/ DeleteLatestForeign(d) \/ DeleteLatestRead(d) \/ \E b \in AvatarId : DeleteRead(d, b)
               \/ DeleteHide(d) \/ DeletePublish(d) \/ DeleteCrash(d)
        PROVE  UNCHANGED <<upload, object>>
    BY <1>2 DEF DeleteLatestForeign, DeleteLatestRead, DeleteRead, DeleteHide, DeletePublish,
      DeleteCrash, SoftDelete, Update, storageVars, uploadVars
  <1>3. ASSUME NEW l \in Loop, WorkerLoopStep(l)
        PROVE  UNCHANGED upload /\ (OriginalKey \in object'[a] => OriginalKey \in object[a])
    <2>1. UNCHANGED upload
      BY <1>3 DEF WorkerLoopStep, serviceVars, uploadVars
    <2>2. ASSUME NEW key \in Key, StoreThumbnail(l, key)
          PROVE  OriginalKey \in object'[a] => OriginalKey \in object[a]
      BY <1>types, <2>2 DEF StoreThumbnail, At, Put, StorageTypeOK, RemovalInv, RemovalBooks
    <2>3. ASSUME NEW key \in Key, RemoveObject(l, key) PROVE object'[a] \subseteq object[a]
      BY <1>types, <2>3 DEF RemoveObject, Remove, StorageTypeOK
    <2>4. ASSUME ~HandlerCall(l) PROVE UNCHANGED object
      BY <1>3, <2>4 DEF WorkerLoopStep, TakeAndHandle, RetryHandler, storageVars
    <2>5. ASSUME \/ ReadAvatar(l) \/ MarkProcessing(l) \/ FetchOriginal(l) \/ RejectOriginal(l)
                 \/ SaveThumbnails(l) \/ MarkDeleted(l) \/ UploadFailed(l)
          PROVE  UNCHANGED object
      BY <2>5 DEF ReadAvatar, MarkProcessing, FetchOriginal, RejectOriginal, SaveThumbnails,
        MarkDeleted, UploadFailed, SetProcessingStatus, SetThumbnails, Update, storageVars
    <2>6. QED
      BY <2>1, <2>2, <2>3, <2>4, <2>5 DEF HandlerCall
  <1>4. QED
    BY <1>1, <1>2, <1>3, RequestOrWorker DEF RequestCall, storageVars, serviceVars, uploadVars

\* Keys that show a finished upload go on to show it.
LEMMA FinishedStands ==
  ASSUME SystemInv, RemovalInv, [SystemNext]_vars, NEW a \in AvatarId, NEW K, Finished(a, K)
  PROVE  Finished(a, K)'
  BY CreatedStands DEF Finished

\* The keys of a deletion are captured from its avatar's row, and then stand.
LEMMA CapturedOrKept ==
  ASSUME SystemInv, [SystemNext]_vars, NEW d \in DeleteRequest, del'[d] \in {"hide", "publish"}
  PROVE  \/ /\ del[d] \in {"hide", "publish"}
            /\ target'[d] = target[d] /\ delKeys'[d] = delKeys[d]
         \/ \E a \in AvatarId : /\ target'[d] = a /\ delKeys'[d] = {OriginalKey} \cup row[a].thumbs
                                /\ UNCHANGED upload
  <1>types. /\ del \in [DeleteRequest -> DeleteState] /\ target \in [DeleteRequest -> AvatarId \cup {NoAvatar}]
            /\ delKeys \in [DeleteRequest -> SUBSET Key]
    BY DEF SystemInv, TypeOK, ServiceTypeOK
  <1> DEFINE Claim == \/ /\ del[d] \in {"hide", "publish"}
                         /\ target'[d] = target[d] /\ delKeys'[d] = delKeys[d]
                      \/ \E a \in AvatarId : /\ target'[d] = a
                                             /\ delKeys'[d] = {OriginalKey} \cup row[a].thumbs
                                             /\ UNCHANGED upload
  <1>1. ASSUME NEW a \in AvatarId, Capture(d, a), UNCHANGED upload PROVE Claim
    BY <1>types, <1>1 DEF Capture
  <1>2. ASSUME NEW e \in DeleteRequest,
               \/ DeleteLatestForeign(e) \/ DeleteLatestRead(e) \/ \E a \in AvatarId : DeleteRead(e, a)
               \/ DeleteHide(e) \/ DeletePublish(e) \/ DeleteCrash(e)
        PROVE  Claim
    <2>1. UNCHANGED upload
      BY <1>2 DEF DeleteLatestForeign, DeleteLatestRead, DeleteRead, DeleteHide, DeletePublish,
        DeleteCrash, uploadVars
    <2>2. \/ \E a \in AvatarId : Capture(e, a)
          \/ \E label \in DeleteState \ {"hide", "publish"} : EndDelete(e, label) /\ UNCHANGED target
          \/ /\ del[e] = "hide" /\ del' = [del EXCEPT ![e] = "publish"]
             /\ UNCHANGED <<target, delKeys>>
      BY <1>2 DEF DeleteLatestForeign, DeleteLatestRead, LatestByUser, DeleteRead, DeleteHide,
        DeletePublish, DeleteCrash, Reject, DeleteState
    <2>3. ASSUME NEW a \in AvatarId, Capture(e, a), d # e
          PROVE  del'[d] = del[d] /\ target'[d] = target[d] /\ delKeys'[d] = delKeys[d]
      BY <1>types, <2>3 DEF Capture
    <2>4. ASSUME NEW label \in DeleteState \ {"hide", "publish"}, EndDelete(e, label)
          PROVE  d # e /\ del'[d] = del[d] /\ delKeys'[d] = delKeys[d]
      BY <1>types, <2>4 DEF EndDelete
    <2>5. QED
      BY <1>types, <1>1, <2>1, <2>2, <2>3, <2>4
  <1>3. QED
    BY <1>2, RequestOrWorker
      DEF RequestCall, UploadCreate, UploadPut, UploadMarkFailed, UploadMarkUploaded, UploadPublish,
        UploadCrash, UploadCall, WorkerLoopStep, serviceVars, deleteVars

\* Thumbnails are recorded after the upload is over, so keys that name any show it.
LEMMA CapturedKeys ==
  ASSUME SystemInv, PromiseInv, RemovalInv, [SystemNext]_vars, NEW d \in DeleteRequest,
         del'[d] \in {"hide", "publish"}
  PROVE  Finished(target[d], delKeys[d])'
  <1>1. CASE del[d] \in {"hide", "publish"} /\ target'[d] = target[d] /\ delKeys'[d] = delKeys[d]
    <2>1. target[d] \in AvatarId /\ Finished(target[d], delKeys[d])
      BY <1>1 DEF SystemInv, DeleteBooks, RemovalInv
    <2>2. PICK a \in AvatarId, K \in {delKeys[d]} : a = target[d]
      BY <2>1
    <2>3. Finished(a, K)'
      BY <2>1, <2>2, FinishedStands
    <2>4. QED
      BY <1>1, <2>2, <2>3 DEF Finished
  <1>2. ASSUME NEW a \in AvatarId, target'[d] = a, delKeys'[d] = {OriginalKey} \cup row[a].thumbs,
               UNCHANGED upload
        PROVE  Finished(target[d], delKeys[d])'
    <2>1. row[a].thumbs # {} => upload[a] = "created"
      BY DEF PromiseInv, PromiseBooks
    <2>2. QED
      BY <1>2, <2>1 DEF Finished
  <1>3. QED
    BY <1>1, <1>2, CapturedOrKept

\* What a step publishes: an upload's event, or what a deletion has captured.
LEMMA NewlyPublished ==
  ASSUME [SystemNext]_vars, NEW m \in published' \ published
  PROVE  \/ \E a \in AvatarId : m = UploadEvent(a)
         \/ \E d \in DeleteRequest : del[d] = "publish" /\ m = DeleteEvent(target[d], delKeys[d])
  <1> USE DEF consumerVars, historyVars
  <1>1. CASE UNCHANGED vars \/ NewRequest \/ ServerCrash
    BY <1>1 DEF vars, NewRequest, ServerCrash
  <1>2. ASSUME NEW a \in AvatarId, UploadStep(a) PROVE m = UploadEvent(a)
    BY <1>2, PublishedGrows DEF UploadStep
  <1>3. ASSUME NEW d \in DeleteRequest, DeleteStep(d)
        PROVE  del[d] = "publish" /\ m = DeleteEvent(target[d], delKeys[d])
    BY <1>3, PublishedGrows DEF DeleteStep, DeletePublish
  <1>4. ASSUME NEW l \in Loop, WorkerLoopStep(l) PROVE FALSE
    <2>1. CASE PlainLoopStep(l)
      BY <2>1 DEF PlainLoopStep, StopLoop, LoseChannel, BackoffCanceled, Ack, Requeue, GiveUp, Bury
    <2>2. CASE RetryHandler(l) \/ \E n \in buffer[l] : TakeAndHandle(l, n)
      BY <2>2 DEF RetryHandler, Retry, TakeAndHandle, Take
    <2>3. CASE HandlerCall(l)
      BY <2>3 DEF HandlerCall, ReadAvatar, MarkProcessing, FetchOriginal, StoreThumbnail,
        RemoveObject, RejectOriginal, SaveThumbnails, MarkDeleted, UploadFailed, CallbackReturns,
        Finish, Succeed, Fail, HandlerOK, HandlerFails, Continue
    <2>4. QED
      BY <1>4, <2>1, <2>2, <2>3 DEF WorkerLoopStep
  <1>5. CASE \/ \E l \in Loop : BrokerStep(l)
             \/ \E w \in Worker : WorkerRunStep(w) \/ WorkerDisruption(w)
    BY <1>5 DEF BrokerStep, Deliver, WorkerRunStep, RunStep, CloseConn, Restart,
      WorkerDisruption, Terminate, LoseConn, Crash
  <1>6. QED
    BY <1>1, <1>2, <1>3, <1>4, <1>5 DEF SystemNext

\* A published deletion is of an avatar whose upload is over, or takes the original only.
LEMMA PublishedKeys ==
  ASSUME SystemInv, RemovalInv, [SystemNext]_vars, NEW m \in published', m.kind = "delete"
  PROVE  Finished(m.avatar, m.keys)'
  <1>1. CASE m \in published
    <2>1. m.avatar \in AvatarId
      BY <1>1, EventFields DEF SystemInv, ConsumerInv, ConsumerTypeOK
    <2>2. Finished(m.avatar, m.keys)
      BY <1>1 DEF RemovalInv
    <2>3. PICK a \in AvatarId, K \in {m.keys} : a = m.avatar
      BY <2>1
    <2>4. Finished(a, K)'
      BY <2>2, <2>3, FinishedStands
    <2>5. QED
      BY <2>3, <2>4 DEF Finished
  <1>2. CASE m \notin published
    <2>1. PICK d \in DeleteRequest : del[d] = "publish" /\ m = DeleteEvent(target[d], delKeys[d])
      BY <1>2, NewlyPublished, EventsApart
    <2>2. target[d] \in AvatarId /\ Finished(target[d], delKeys[d])
      BY <2>1 DEF SystemInv, DeleteBooks, RemovalInv
    <2>3. PICK a \in AvatarId, K \in {delKeys[d]} : a = target[d]
      BY <2>2
    <2>4. Finished(a, K)'
      BY <2>2, <2>3, FinishedStands
    <2>5. QED
      BY <2>1, <2>3, <2>4, EventsApart DEF Finished
  <1>3. QED
    BY <1>1, <1>2

\* A deletion is handled by the last call of its handler.
LEMMA DeletionHandled ==
  ASSUME SystemInv, [SystemNext]_vars, NEW m \in handled' \ handled, m.kind = "delete"
  PROVE  \E l \in Loop : m = cur[l] /\ step[l] = "markDeleted" /\ UNCHANGED object
  <1>1. PICK l \in Loop : HandlerCall(l)
    BY HandledGrows
  <1>2. HandlerOK(l) /\ m = cur[l]
    BY <1>1, CallHandles DEF HandlerOK
  <1>3. pc[l] = "handle" /\ handled' # handled
    BY <1>2 DEF HandlerOK
  <1>4. step[l] \notin {"read", "mark", "fetch", "store", "save"}
    BY <1>2 DEF SystemInv, HandlerBooks
  <1>5. ~UploadFailed(l)
    BY <1>3 DEF UploadFailed, CallbackReturns
  <1>6. \A key \in Key : ~RemoveObject(l, key)
    BY <1>3 DEF RemoveObject, Fail, HandlerFails, Continue, consumerVars, historyVars
  <1>7. MarkDeleted(l)
    BY <1>1, <1>4, <1>5, <1>6 DEF HandlerCall, ReadAvatar, MarkProcessing, FetchOriginal,
      StoreThumbnail, RejectOriginal, SaveThumbnails, At
  <1>8. QED
    BY <1>2, <1>7 DEF MarkDeleted, At, SetProcessingStatus, Update

\* A deletion that is handled has removed its original.
LEMMA HandledDeletion ==
  ASSUME SystemInv, RecordedInv, RemovalInv, [SystemNext]_vars,
         NEW m \in handled', m.kind = "delete", m.keys # {OriginalKey}
  PROVE  OriginalKey \notin object'[m.avatar]
  <1>1. CASE m \in handled
    <2>1. m \in published /\ m.avatar \in AvatarId
      BY <1>1, EventFields DEF RecordedInv, SystemInv, ConsumerInv, ConsumerTypeOK
    <2>2. upload[m.avatar] = "created" /\ OriginalKey \notin object[m.avatar]
      BY <1>1, <2>1 DEF RemovalInv, Finished
    <2>3. QED
      BY <2>1, <2>2, CreatedStands
  <1>2. CASE m \notin handled
    BY <1>2, DeletionHandled DEF RemovalInv, RemovalBooks, Goal
  <1>3. QED
    BY <1>1, <1>2

\* A loop whose handler does not move keeps its books, whatever the others do.
LEMMA RemovalKept ==
  ASSUME SystemInv, RemovalInv, [SystemNext]_vars, NEW l \in Loop,
         step'[l] = step[l], todo'[l] = todo[l], step[l] # "none" => cur'[l] = cur[l]
  PROVE  RemovalBooks(l)'
  <1>1. RemovalBooks(l)
    BY DEF RemovalInv
  <1>2. CASE step[l] \in {"remove", "markDeleted"} /\ cur[l].keys # {OriginalKey}
    <2>1. pc[l] = "handle" /\ cur[l].kind = "delete"
      BY <1>2 DEF SystemInv, HandlerBooks
    <2>2. PICK a \in AvatarId : a = Goal(l)
      BY <2>1, HandlerGoal
    <2>3. upload[a] = "created" /\ Goal(l)' = a
      BY <1>2, <2>1, <2>2, HandlerGoal DEF RemovalInv, Finished, Goal
    <2>4. OriginalKey \in object'[a] => OriginalKey \in object[a]
      BY <2>3, CreatedStands
    <2>5. QED
      BY <1>1, <1>2, <2>2, <2>3, <2>4 DEF RemovalBooks
  <1>3. CASE ~(step[l] \in {"remove", "markDeleted"} /\ cur[l].keys # {OriginalKey})
    BY <1>1, <1>3 DEF RemovalBooks
  <1>4. QED
    BY <1>2, <1>3

\* The captured keys start with the original.
LEMMA RemovalMoves ==
  ASSUME SystemInv, RemovalInv, NEW l \in Loop,
         \/ \E m \in buffer[l] : TakeAndHandle(l, m)
         \/ RetryHandler(l)
         \/ HandlerCall(l)
  PROVE  RemovalBooks(l)'
  <1>types. /\ StorageTypeOK /\ ConsumerTypeOK /\ ProcessorTypeOK /\ HandlerBooks(l)
            /\ RemovalBooks(l)
    BY DEF SystemInv, TypeOK, RemovalInv
  <1>1. ASSUME NEW m \in published, StartHandler(l, m), cur'[l] = m PROVE RemovalBooks(l)'
    <2>1. m.kind \in {"upload", "delete"} /\ (m.kind = "delete" => OriginalKey \in m.keys)
      BY EventFields DEF SystemInv, ConsumerInv, ConsumerTypeOK, RemovalInv, Finished
    <2>2. QED
      BY <1>types, <1>1, <2>1 DEF StartHandler, RemovalBooks, ProcessorTypeOK
  <1>2. ASSUME NEW m \in buffer[l], TakeAndHandle(l, m) PROVE RemovalBooks(l)'
    <2>1. m \in published
      BY DEF SystemInv, ConsumerInv, Issued
    <2>2. cur'[l] = m
      BY <1>types, <1>2 DEF TakeAndHandle, Take, ConsumerTypeOK
    <2>3. QED
      BY <1>1, <1>2, <2>1, <2>2 DEF TakeAndHandle
  <1>3. CASE RetryHandler(l)
    <2>1. pc[l] = "backoff" /\ UNCHANGED cur
      BY <1>3 DEF RetryHandler, Retry
    <2>2. QED
      BY <1>1, <1>3, <2>1, HandlerGoal DEF RetryHandler
  <1>4. ASSUME \/ Succeed(l) \/ Fail(l)
               \/ pc[l] = "callback" /\ UNCHANGED processorVars
        PROVE  RemovalBooks(l)'
    <2>1. step'[l] = "none"
      BY <1>types, <1>4 DEF Succeed, Fail, EndHandler, processorVars, ProcessorTypeOK, HandlerBooks, Step
    <2>2. QED
      BY <2>1 DEF RemovalBooks
  <1>continue. ASSUME NEW next, NEW left, Continue(l, next, left)
               PROVE  step'[l] = next /\ todo'[l] = left /\ UNCHANGED cur /\ Goal(l)' = Goal(l)
    BY <1>types, <1>continue DEF Continue, ProcessorTypeOK, consumerVars, loopVars, Goal
  <1>5. CASE ReadAvatar(l) \/ MarkProcessing(l) \/ FetchOriginal(l)
    <2>1. \/ Succeed(l) \/ Fail(l)
          \/ \E next \in {"mark", "fetch"} : Continue(l, next, {})
          \/ Continue(l, "store", ThumbnailSizes)
      BY <1>5 DEF ReadAvatar, MarkProcessing, FetchOriginal
    <2>2. QED
      BY <1>4, <1>continue, <2>1, SizesAssumption DEF RemovalBooks, OriginalKey
  <1>6. ASSUME NEW size \in Key, StoreThumbnail(l, size) PROVE RemovalBooks(l)'
    <2>1. /\ step[l] = "store"
          /\ \/ Fail(l)
             \/ \E next \in {"store", "save"} : Continue(l, next, todo[l] \ {size})
      BY <1>6 DEF StoreThumbnail, At
    <2>2. QED
      BY <1>types, <1>4, <1>continue, <2>1 DEF RemovalBooks
  <1>7. ASSUME NEW key \in Key, RemoveObject(l, key) PROVE RemovalBooks(l)'
    <2>0. PICK o \in WorkerOutcome(l, BucketFaults) :
            /\ Remove(Goal(l), key, o)
            /\ IF o = "ok"
                 THEN Continue(l, IF todo[l] = {key} THEN "markDeleted" ELSE "remove", todo[l] \ {key})
                 ELSE Fail(l)
      BY <1>7 DEF RemoveObject
    <2>1. step[l] = "remove" /\ Goal(l) \in AvatarId /\ key \in todo[l]
          /\ (OriginalKey \in todo[l] => key = OriginalKey)
      BY <1>types, <1>7, HandlerGoal DEF RemoveObject, At
    <2>2. CASE o = "ok"
      <3>1. object'[Goal(l)] = object[Goal(l)] \ {key}
        BY <1>types, <2>0, <2>1, <2>2 DEF Remove, Applied, StorageTypeOK
      <3>2. /\ todo'[l] = todo[l] \ {key} /\ UNCHANGED cur /\ Goal(l)' = Goal(l)
            /\ step'[l] = IF todo[l] = {key} THEN "markDeleted" ELSE "remove"
        BY <1>continue, <2>0, <2>2
      <3>3. OriginalKey \notin todo'[l] /\ cur[l].keys # {OriginalKey}
              => OriginalKey \notin object'[Goal(l)]
        BY <1>types, <2>1, <3>1, <3>2 DEF RemovalBooks
      <3>4. QED
        BY <3>2, <3>3 DEF RemovalBooks
    <2>3. QED
      BY <1>4, <2>0, <2>2
  <1>8. CASE RejectOriginal(l) \/ SaveThumbnails(l) \/ MarkDeleted(l) \/ UploadFailed(l)
    BY <1>4, <1>8 DEF RejectOriginal, SaveThumbnails, MarkDeleted, UploadFailed, Finish, CallbackReturns
  <1>9. QED
    BY <1>2, <1>3, <1>5, <1>6, <1>7, <1>8 DEF HandlerCall

\* How a loop's handler moves in a step of the system: not at all, by a step of its
\* own, or to its end in a crash.
LEMMA HandlerMoves ==
  ASSUME SystemInv, [SystemNext]_vars, NEW l \in Loop
  PROVE  \/ /\ step'[l] = step[l] /\ todo'[l] = todo[l]
            /\ step[l] # "none" => cur'[l] = cur[l]
         \/ step'[l] = "none"
         \/ (\E m \in buffer[l] : TakeAndHandle(l, m)) \/ RetryHandler(l) \/ HandlerCall(l)
  <1>idle. step[l] # "none" <=> pc[l] = "handle"
    BY DEF SystemInv, HandlerBooks
  <1>1. CASE UNCHANGED vars \/ NewRequest \/ ServerCrash
    BY <1>1 DEF vars, NewRequest, ServerCrash, consumerVars, loopVars, processorVars
  <1>2. CASE (\E a \in AvatarId : UploadStep(a)) \/ (\E d \in DeleteRequest : DeleteStep(d))
    BY <1>2 DEF UploadStep, DeleteStep, Publish, Enqueue, consumerVars, loopVars, processorVars
  <1>3. ASSUME NEW k \in Loop, PlainLoopStep(k), UNCHANGED processorVars
        PROVE  step'[l] = step[l] /\ todo'[l] = todo[l] /\ (step[l] # "none" => cur'[l] = cur[l])
    <2>1. \/ UNCHANGED cur
          \/ pc[k] # "handle" /\ cur' = [cur EXCEPT ![k] = NoMessage]
      BY <1>3 DEF PlainLoopStep, StopLoop, LoseChannel, BackoffCanceled, Ack, Requeue, GiveUp,
        Bury, Release
    <2>2. QED
      BY <1>idle, <1>3, <2>1 DEF SystemInv, TypeOK, ConsumerTypeOK, processorVars
  <1>4. ASSUME NEW k \in Loop, k # l,
               (\E m \in buffer[k] : TakeAndHandle(k, m)) \/ RetryHandler(k) \/ HandlerCall(k)
        PROVE  step'[l] = step[l] /\ todo'[l] = todo[l] /\ cur'[l] = cur[l]
    BY <1>4, HandlerStepSound DEF HandlerSound, OthersUntouched
  <1>5. CASE \E k \in Loop : WorkerLoopStep(k)
    BY <1>3, <1>4, <1>5 DEF WorkerLoopStep
  <1>6. CASE \E w \in Worker : WorkerDisruption(w)
    BY <1>6 DEF WorkerDisruption, Terminate, LoseConn, Crash, loopVars, processorVars
  <1>7. CASE (\E k \in Loop : BrokerStep(k)) \/ (\E w \in Worker : WorkerRunStep(w))
    BY <1>7 DEF BrokerStep, Deliver, WorkerRunStep, RunStep, CloseConn, Restart, loopVars, processorVars
  <1>8. QED
    BY <1>1, <1>2, <1>5, <1>6, <1>7 DEF SystemNext

LEMMA RemovalBooksStep ==
  ASSUME SystemInv, RemovalInv, [SystemNext]_vars, NEW l \in Loop
  PROVE  RemovalBooks(l)'
  <1>1. CASE step'[l] = "none"
    BY <1>1 DEF RemovalBooks
  <1>2. QED
    BY <1>1, HandlerMoves, RemovalKept, RemovalMoves

\* DeletionsComplete: whatever fails, crashes or comes twice, an acknowledged deletion of
\* an avatar that had thumbnails has removed the original, and no request and no
\* handler brings it back.
THEOREM DeletionsComplete == SystemSpec => []DeletionsRemoveOriginal
  <1>1. Init => RemovalInv
    BY DEF Init, ServiceInit, ConsumerInit, ProcessorInit, RemovalInv, RemovalBooks
  <1>2. SystemInv /\ PromiseInv /\ RecordedInv /\ RemovalInv /\ [SystemNext]_vars => RemovalInv'
    BY CapturedKeys, PublishedKeys, HandledDeletion, RemovalBooksStep DEF RemovalInv
  <1>3. RecordedInv /\ RemovalInv => DeletionsRemoveOriginal
    BY DEF RecordedInv, RemovalInv, DeletionsRemoveOriginal
  <1>4. QED
    BY <1>1, <1>2, <1>3, RecordedInvariant, PromiseInvariant, SystemInvariant, PTL DEF SystemSpec

-----------------------------------------------------------------------------
(* Where no store call fails. *)

\* A deleted avatar stays deleted.
LEMMA DeletedStays ==
  ASSUME SystemInv, [SystemNext]_vars, NEW a \in AvatarId, row[a].stage = "deleted"
  PROVE  row'[a].stage = "deleted"
  <1>1. Exists(a) /\ ~Visible(a)
    BY DEF Exists, Visible
  <1>2. QED
    BY <1>1, RequestOrWorker, RequestWrites, WorkerWrites DEF Served, storageVars

\* With faultless stores a call of a live handler fails only if the original is gone,
\* which takes a deletion, and nobody gives up.
LEMMA FaultFreeCall ==
  ASSUME FaultFree, SystemInv, PromiseInv, FaultFreeInv, NEW l \in Loop, HandlerCall(l)
  PROVE  /\ FaultFreeBooks(l)'
         /\ \A a \in Decodable : row'[a].processing = "failed" => row[a].processing = "failed"
  <1>types. /\ StorageTypeOK /\ ConsumerTypeOK /\ ProcessorTypeOK
            /\ HandlerBooks(l) /\ LoopBooks(l) /\ FaultFreeBooks(l)
            /\ MaxRetries \in Nat /\ MaxRetries > 0 /\ failures[l] \in Nat
    BY BoundsAssumption DEF SystemInv, ConsumerInv, ConsumerTypeOK, TypeOK, FaultFreeInv, FaultFree
  <1>running. pc[l] = "handle"
    <2>1. pc[l] # "callback"
      BY <1>types DEF LoopBooks, FaultFreeBooks
    <2>2. QED
      BY <2>1 DEF HandlerCall, ReadAvatar, MarkProcessing, FetchOriginal, StoreThumbnail,
        RemoveObject, RejectOriginal, SaveThumbnails, MarkDeleted, UploadFailed, At, CallbackReturns
  <1>goal. Goal(l) \in AvatarId /\ Exists(Goal(l)) /\ cur[l] \in published /\ cur[l] \in Message
    BY <1>running, HandlerGoal
  <1>stage. \A a \in AvatarId : row'[a].stage = row[a].stage
    BY HandlerStepSound DEF HandlerSound, StoresStep, RowsStand
  <1>outcome. \A faults : faults = {} =>
                WorkerOutcome(l, faults) = IF Live(l[1]) THEN {"ok"} ELSE {"refused"}
    BY DEF WorkerOutcome
  <1>quiet. ASSUME UNCHANGED cur, failures'[l] = failures[l],
                   step'[l] \in {"none", "read"} \/ failures[l] = 0
            PROVE  FaultFreeBooks(l)'
    <2>1. PICK a \in AvatarId : a = Goal(l) /\ Goal(l)' = a
      BY <1>goal, <1>quiet DEF Goal
    <2>2. QED
      BY <1>types, <1>stage, <1>quiet, <2>1 DEF FaultFreeBooks
  <1>first. step[l] \notin {"none", "read"} => failures[l] = 0
    BY <1>types DEF FaultFreeBooks
  <1>succeed. Succeed(l) => FaultFreeBooks(l)'
    BY <1>types, <1>quiet DEF Succeed, HandlerOK, EndHandler, ProcessorTypeOK
  <1>fail. ASSUME Fail(l), ~Live(l[1]) PROVE FaultFreeBooks(l)'
    BY <1>types, <1>fail, <1>quiet DEF Fail, HandlerFails, EndHandler, ProcessorTypeOK, ConsumerTypeOK
  <1>continue. ASSUME NEW next, NEW left, Continue(l, next, left), failures[l] = 0
               PROVE  FaultFreeBooks(l)'
    BY <1>types, <1>continue, <1>quiet DEF Continue, consumerVars, loopVars
  <1>1. CASE ReadAvatar(l)
    <2>1. \/ Succeed(l)
          \/ ~Live(l[1]) /\ Fail(l)
          \/ Visible(Goal(l)) /\ Continue(l, "mark", {})
      BY <1>1, <1>outcome DEF ReadAvatar, FaultFree
    <2>2. Visible(Goal(l)) => failures[l] = 0
      BY <1>types DEF FaultFreeBooks, Visible
    <2>3. QED
      BY <1>1, <1>succeed, <1>fail, <1>continue, <2>1, <2>2 DEF ReadAvatar, storageVars
  <1>2. CASE MarkProcessing(l)
    <2>1. /\ step[l] = "mark" /\ \E o : SetProcessingStatus(Goal(l), "processing", o)
          /\ Continue(l, "fetch", {}) \/ (~Live(l[1]) /\ Fail(l))
      BY <1>2, <1>outcome DEF MarkProcessing, At, FaultFree
    <2>2. \A a \in AvatarId : row'[a].processing \in {row[a].processing, "processing"}
      BY <1>types, <1>goal, <2>1, StatusWritten
    <2>3. QED
      BY <1>first, <1>fail, <1>continue, <2>1, <2>2, DecodableAssumption
  <1>3. CASE FetchOriginal(l)
    <2>1. /\ step[l] = "fetch" /\ UNCHANGED row
          /\ \/ Continue(l, "store", ThumbnailSizes)
             \/ ~Live(l[1]) /\ Fail(l)
             \/ OriginalKey \notin object[Goal(l)] /\ Fail(l)
      BY <1>3, <1>outcome DEF FetchOriginal, At, FaultFree, storageVars
    <2>2. ASSUME OriginalKey \notin object[Goal(l)], Fail(l), Live(l[1]) PROVE FaultFreeBooks(l)'
      <3>1. PICK a \in AvatarId : a = Goal(l)
        BY <1>goal
      <3>2. cur[l].kind = "upload" /\ UploadEvent(a) \in published
        BY <1>types, <1>goal, <2>1, <3>1, UploadEventOf DEF HandlerBooks, Goal
      <3>3. row[a].stage = "deleted"
        BY <1>types, <1>goal, <2>2, <3>1, <3>2
          DEF PromiseInv, PromiseBooks, Visible, Exists, StorageTypeOK, Row
      <3>4. failures'[l] = 1 /\ UNCHANGED cur /\ step'[l] = "none"
        BY <1>types, <1>first, <2>1, <2>2
          DEF Fail, HandlerFails, EndHandler, ConsumerTypeOK, ProcessorTypeOK
      <3>5. Goal(l)' = a
        BY <3>1, <3>4 DEF Goal
      <3>6. QED
        BY <1>stage, <3>2, <3>3, <3>4, <3>5 DEF FaultFreeBooks
    <2>3. QED
      BY <1>first, <1>fail, <1>continue, <2>1, <2>2
  <1>4. ASSUME NEW key \in Key, StoreThumbnail(l, key) \/ RemoveObject(l, key)
        PROVE  FaultFreeBooks(l)' /\ UNCHANGED row
    <2>1. /\ step[l] \in {"store", "remove"} /\ UNCHANGED row
          /\ (\E next, left : Continue(l, next, left)) \/ (~Live(l[1]) /\ Fail(l))
      BY <1>4, <1>outcome DEF StoreThumbnail, RemoveObject, At, Put, Remove, FaultFree
    <2>2. QED
      BY <1>first, <1>fail, <1>continue, <2>1
  <1>5. ASSUME \/ RejectOriginal(l) \/ SaveThumbnails(l) \/ MarkDeleted(l)
        PROVE  FaultFreeBooks(l)'
    <2>1. Succeed(l) \/ (~Live(l[1]) /\ Fail(l))
      BY <1>5, <1>outcome DEF RejectOriginal, SaveThumbnails, MarkDeleted, Finish, FaultFree
    <2>2. QED
      BY <1>succeed, <1>fail, <2>1
  <1>6. ASSUME \/ RejectOriginal(l) \/ SaveThumbnails(l) \/ MarkDeleted(l), NEW a \in Decodable,
               row'[a].processing = "failed"
        PROVE  row[a].processing = "failed"
    <2>1. \/ \E o : SetProcessingStatus(Goal(l), "deleted", o) \/ SetThumbnails(Goal(l), ThumbnailSizes, o)
          \/ Goal(l) # a /\ \E o : SetProcessingStatus(Goal(l), "failed", o)
      BY <1>6 DEF RejectOriginal, SaveThumbnails, MarkDeleted
    <2>2. QED
      BY <1>types, <1>goal, <1>6, <2>1, StatusWritten, DecodableAssumption
  <1>7. QED
    BY <1>running, <1>1, <1>2, <1>3, <1>4, <1>5, <1>6 DEF HandlerCall, UploadFailed, CallbackReturns

\* A loop that does not move keeps its one failure, or forgets it with its message.
LEMMA FaultFreeKept ==
  ASSUME FaultFree, SystemInv, FaultFreeInv, [SystemNext]_vars, NEW l \in Loop,
         \/ failures'[l] = 0
         \/ /\ failures'[l] = failures[l]
            /\ failures[l] > 0 => cur'[l] = cur[l] /\ step'[l] \in {step[l], "read"}
  PROVE  FaultFreeBooks(l)'
  <1>1. FaultFreeBooks(l)
    BY DEF FaultFreeInv
  <1>2. CASE failures'[l] = failures[l] /\ failures[l] > 0
    <2>1. pc[l] \notin {"select", "done"}
      BY <1>2 DEF SystemInv, ConsumerInv, LoopBooks
    <2>2. PICK a \in AvatarId : a = Goal(l)
      BY <2>1, HeldMessage
    <2>3. row'[a].stage = "deleted" /\ Goal(l)' = a
      BY <1>1, <1>2, <2>2, DeletedStays DEF FaultFreeBooks, Goal
    <2>4. QED
      BY <1>1, <1>2, <2>3 DEF FaultFreeBooks
  <1>3. CASE failures'[l] = 0 \/ (failures'[l] = failures[l] /\ ~(failures[l] > 0))
    BY <1>3 DEF FaultFreeBooks
  <1>4. QED
    BY <1>2, <1>3

LEMMA FaultFreeBooksStep ==
  ASSUME FaultFree, SystemInv, PromiseInv, FaultFreeInv, [SystemNext]_vars, NEW l \in Loop
  PROVE  FaultFreeBooks(l)'
  <1>types. ConsumerTypeOK /\ ProcessorTypeOK /\ FaultFreeBooks(l)
    BY DEF SystemInv, TypeOK, FaultFreeInv
  <1>1. ASSUME UNCHANGED <<failures, cur, processorVars>> PROVE FaultFreeBooks(l)'
    BY <1>1, FaultFreeKept DEF processorVars
  <1>2. CASE UNCHANGED vars \/ NewRequest \/ ServerCrash
    BY <1>1, <1>2 DEF vars, NewRequest, ServerCrash, consumerVars, loopVars
  <1>3. CASE (\E a \in AvatarId : UploadStep(a)) \/ (\E d \in DeleteRequest : DeleteStep(d))
    BY <1>1, <1>3 DEF UploadStep, DeleteStep, Publish, Enqueue, consumerVars, loopVars
  <1>4. ASSUME NEW k \in Loop, WorkerLoopStep(k) PROVE FaultFreeBooks(l)'
    <2>1. CASE PlainLoopStep(k) /\ UNCHANGED processorVars
      <3>1. \/ UNCHANGED <<cur, failures>>
            \/ cur' = [cur EXCEPT ![k] = NoMessage] /\ failures' = [failures EXCEPT ![k] = 0]
        BY <2>1 DEF PlainLoopStep, StopLoop, LoseChannel, BackoffCanceled, Ack, Requeue, GiveUp,
          Bury, Release
      <3>2. QED
        BY <1>types, <1>1, <2>1, <3>1, FaultFreeKept DEF ConsumerTypeOK, processorVars
    <2>2. CASE HandlerCall(k)
      <3>1. CASE k = l
        BY <2>2, <3>1, FaultFreeCall
      <3>2. CASE k # l
        <4>1. failures'[l] = failures[l]
          BY <1>types, <2>2, <3>2 DEF HandlerCall, ReadAvatar, MarkProcessing, FetchOriginal,
            StoreThumbnail, RemoveObject, RejectOriginal, SaveThumbnails, MarkDeleted, UploadFailed,
            CallbackReturns, Finish, Succeed, Fail, HandlerOK, HandlerFails, Continue,
            consumerVars, loopVars, ConsumerTypeOK
        <4>2. QED
          BY <2>2, <3>2, <4>1, HandlerStepSound, FaultFreeKept DEF HandlerSound, OthersUntouched
      <3>3. QED
        BY <3>1, <3>2
    <2>3. CASE RetryHandler(k) \/ \E m \in buffer[k] : TakeAndHandle(k, m)
      <3>1. UNCHANGED failures
        BY <2>3 DEF RetryHandler, Retry, TakeAndHandle, Take
      <3>2. CASE k # l
        BY <2>3, <3>1, <3>2, HandlerStepSound, FaultFreeKept DEF HandlerSound, OthersUntouched
      <3>3. CASE RetryHandler(l)
        <4>1. UNCHANGED cur /\ (cur[l].kind = "upload" => step'[l] = "read")
          BY <1>types, <3>3 DEF RetryHandler, Retry, StartHandler, ProcessorTypeOK
        <4>2. QED
          BY <1>types, <3>1, <4>1, FaultFreeKept DEF FaultFreeBooks
      <3>4. CASE \E m \in buffer[l] : TakeAndHandle(l, m)
        <4>1. failures[l] = 0
          BY <3>4 DEF TakeAndHandle, Take, SystemInv, ConsumerInv, LoopBooks
        <4>2. QED
          BY <3>1, <4>1, FaultFreeKept
      <3>5. QED
        BY <2>3, <3>2, <3>3, <3>4
    <2>4. QED
      BY <1>4, <2>1, <2>2, <2>3 DEF WorkerLoopStep
  <1>5. ASSUME NEW w \in Worker, WorkerDisruption(w) PROVE FaultFreeBooks(l)'
    <2>1. ASSUME Crash(w), step'[l] = IF l[1] = w THEN "none" ELSE step[l] PROVE FaultFreeBooks(l)'
      <3>1. /\ failures'[l] = IF l[1] = w THEN 0 ELSE failures[l]
            /\ cur'[l] = IF l[1] = w THEN NoMessage ELSE cur[l]
        BY <2>1 DEF Crash
      <3>2. QED
        BY <2>1, <3>1, FaultFreeKept
    <2>2. CASE (Terminate(w) \/ LoseConn(w)) /\ UNCHANGED processorVars
      BY <1>1, <2>2 DEF Terminate, LoseConn, loopVars
    <2>3. QED
      BY <1>5, <2>1, <2>2 DEF WorkerDisruption
  <1>6. CASE (\E k \in Loop : BrokerStep(k)) \/ (\E w \in Worker : WorkerRunStep(w))
    BY <1>1, <1>6 DEF BrokerStep, Deliver, WorkerRunStep, RunStep, CloseConn, Restart, loopVars
  <1>7. QED
    BY <1>2, <1>3, <1>4, <1>5, <1>6 DEF SystemNext

\* OnlyFaultsFail: where no store call fails and MaxRetries allows one retry, no message is
\* ever buried and no image marked failed: shutdowns, crashes, lost connections, canceled
\* requests, redeliveries and deletions at any moment are not enough.
THEOREM OnlyFaultsFail == SystemSpec => []OnlyFaultsBury
  <1>1. Init => FaultFreeInv
    <2>1. Init => dead = {} /\ \A a \in Decodable : row[a].processing = "pending"
      BY DecodableAssumption DEF Init, StorageInit, ConsumerInit, FreshRow
    <2>2. Init => \A l \in Loop : failures[l] = 0
      BY DEF Init, ConsumerInit
    <2>3. QED
      BY <2>1, <2>2 DEF FaultFreeInv, FaultFreeBooks, OnlyFaultsBury
  <1>2. SystemInv /\ PromiseInv /\ FaultFreeInv /\ [SystemNext]_vars => FaultFreeInv'
    <2> SUFFICES ASSUME FaultFree, SystemInv, PromiseInv, FaultFreeInv, [SystemNext]_vars
                 PROVE  OnlyFaultsBury' /\ \A l \in Loop : FaultFreeBooks(l)'
      BY DEF FaultFreeInv
    <2>1. \A l \in Loop : FaultFreeBooks(l)'
      BY FaultFreeBooksStep
    <2>2. dead' = {}
      <3>1. ASSUME NEW m \in dead' \ dead PROVE FALSE
        <4>1. PICK l \in Loop : failures[l] = MaxRetries + 1
          BY <3>1, ConsumerSide, OnlyBuryBuries DEF SystemInv
        <4>2. MaxRetries \in Nat /\ MaxRetries > 0 /\ FaultFreeBooks(l)
          BY BoundsAssumption DEF FaultFree, FaultFreeInv
        <4>3. QED
          BY <4>1, <4>2 DEF FaultFreeBooks
      <3>2. dead = {}
        BY DEF FaultFreeInv, OnlyFaultsBury
      <3>3. QED
        BY <3>1, <3>2
    <2>3. ASSUME NEW a \in Decodable PROVE row'[a].processing # "failed"
      <3>1. a \in AvatarId /\ row[a].processing # "failed"
        BY DecodableAssumption DEF FaultFreeInv, OnlyFaultsBury
      <3>2. CASE RequestCall
        BY <3>1, <3>2, RequestWrites DEF Served, FreshRow
      <3>3. ASSUME NEW l \in Loop, WorkerLoopStep(l) PROVE row'[a].processing # "failed"
        <4>1. CASE HandlerCall(l)
          BY <3>1, <4>1, FaultFreeCall
        <4>2. CASE ~HandlerCall(l)
          BY <3>1, <3>3, <4>2 DEF WorkerLoopStep, TakeAndHandle, RetryHandler, storageVars
        <4>3. QED
          BY <4>1, <4>2
      <3>4. QED
        BY <3>1, <3>2, <3>3, RequestOrWorker DEF storageVars
    <2>4. QED
      BY <2>1, <2>2, <2>3 DEF OnlyFaultsBury
  <1>3. FaultFreeInv => OnlyFaultsBury
    BY DEF FaultFreeInv, OnlyFaultsBury
  <1>4. QED
    BY <1>1, <1>2, <1>3, PromiseInvariant, SystemInvariant, PTL DEF SystemSpec

-----------------------------------------------------------------------------
(* Deletions that leave nothing. *)

\* Thumbnails are recorded by one call only, and no other takes them off the record.
LEMMA ThumbnailsMove ==
  ASSUME SystemInv, PromiseInv, [SystemNext]_vars, NEW a \in AvatarId
  PROVE  \/ row'[a].thumbs = row[a].thumbs
         \/ \E l \in Loop : /\ SaveThumbnails(l) /\ WorkerLoopStep(l) /\ a = Goal(l)
                            /\ row'[a].thumbs = ThumbnailSizes /\ row'[a].processing = "completed"
  <1>types. StorageTypeOK
    BY DEF SystemInv, TypeOK
  <1>1. CASE RequestCall
    <2>1. CASE Exists(a)
      BY <1>1, <2>1, RequestWrites DEF Served
    <2>2. CASE ~Exists(a)
      <3>1. UploadEvent(a) \notin published
        BY <2>2, EventsApart DEF SystemInv, EventBooks
      <3>2. row[a].thumbs = {}
        BY <3>1 DEF PromiseInv, PromiseBooks
      <3>3. QED
        BY <1>1, <2>2, <3>2, RequestWrites DEF Served, FreshRow
    <2>3. QED
      BY <2>1, <2>2
  <1>2. ASSUME NEW l \in Loop, WorkerLoopStep(l)
        PROVE  \/ row'[a].thumbs = row[a].thumbs
               \/ SaveThumbnails(l) /\ a = Goal(l)
                    /\ row'[a].thumbs = ThumbnailSizes /\ row'[a].processing = "completed"
    <2>goal. pc[l] \in {"handle", "callback"} => Goal(l) \in AvatarId /\ Exists(Goal(l))
      BY HandlerGoal
    <2>1. CASE SaveThumbnails(l)
      <3>1. PICK o \in WorkerOutcome(l, DatabaseFaults) : SetThumbnails(Goal(l), ThumbnailSizes, o)
        BY <2>1 DEF SaveThumbnails
      <3>2. Goal(l) \in AvatarId /\ Exists(Goal(l))
        BY <2>1, <2>goal DEF SaveThumbnails, At
      <3>3. QED
        BY <1>types, <2>1, <3>1, <3>2, StatusWritten
    <2>2. ASSUME NEW o, NEW status, SetProcessingStatus(Goal(l), status, o),
                 pc[l] \in {"handle", "callback"}
          PROVE  row'[a].thumbs = row[a].thumbs
      BY <1>types, <2>goal, <2>2, StatusWritten
    <2>3. CASE MarkProcessing(l) \/ RejectOriginal(l) \/ MarkDeleted(l) \/ UploadFailed(l)
      BY <2>2, <2>3 DEF MarkProcessing, RejectOriginal, MarkDeleted, UploadFailed, CallbackReturns, At
    <2>4. ASSUME \/ ReadAvatar(l) \/ FetchOriginal(l)
                 \/ \E key \in Key : StoreThumbnail(l, key) \/ RemoveObject(l, key)
                 \/ ~HandlerCall(l)
          PROVE  UNCHANGED row
      BY <1>2, <2>4 DEF WorkerLoopStep, TakeAndHandle, RetryHandler, ReadAvatar, FetchOriginal,
        StoreThumbnail, RemoveObject, Put, Remove, storageVars
    <2>5. QED
      BY <2>1, <2>3, <2>4 DEF HandlerCall
  <1>3. QED
    BY <1>1, <1>2, RequestOrWorker DEF storageVars

\* Recorded thumbnails stay recorded, and nothing is stored after them.
LEMMA NothingStored ==
  ASSUME SystemInv, PromiseInv, CleanupInv, [SystemNext]_vars,
         NEW a \in AvatarId, row[a].thumbs # {}
  PROVE  row'[a].thumbs # {} /\ object'[a] \subseteq object[a]
  <1>types. StorageTypeOK
    BY DEF SystemInv, TypeOK
  <1>1. row'[a].thumbs # {}
    <2>1. row[a].thumbs = ThumbnailSizes
      BY DEF PromiseInv, PromiseBooks
    <2>2. QED
      BY <2>1, ThumbnailsMove
  <1>2. CASE RequestCall
    <2>1. upload[a] = "created"
      BY DEF PromiseInv, PromiseBooks
    <2>2. ASSUME NEW b \in AvatarId, UploadPut(b) PROVE object'[a] \subseteq object[a]
      <3>1. a # b /\ \E o : Put(b, OriginalKey, o)
        BY <2>1, <2>2 DEF UploadPut, UploadCall
      <3>2. QED
        BY <1>types, <3>1 DEF Put, StorageTypeOK
    <2>3. ASSUME \A b \in AvatarId : ~UploadPut(b) PROVE UNCHANGED object
      BY <1>2, <2>3 DEF RequestCall, UploadCreate, UploadMarkFailed, UploadMarkUploaded,
        UploadPublish, UploadCrash, Create, SetUploadStatus, SoftDelete, Update, DeleteLatestForeign,
        DeleteLatestRead, DeleteRead, DeleteHide, DeletePublish, DeleteCrash, storageVars
    <2>4. QED
      BY <1>1, <2>2, <2>3
  <1>3. ASSUME NEW l \in Loop, WorkerLoopStep(l) PROVE object'[a] \subseteq object[a]
    <2>1. ASSUME NEW key \in Key, StoreThumbnail(l, key) PROVE object'[a] = object[a]
      <3>1. a # Goal(l) /\ \E o : Put(Goal(l), key, o)
        BY <2>1 DEF StoreThumbnail, At, CleanupInv, CleanupBooks
      <3>2. QED
        BY <1>types, <3>1 DEF Put, StorageTypeOK
    <2>2. ASSUME NEW key \in Key, RemoveObject(l, key) PROVE object'[a] \subseteq object[a]
      BY <1>types, <2>2 DEF RemoveObject, Remove, StorageTypeOK
    <2>3. ASSUME \/ ReadAvatar(l) \/ MarkProcessing(l) \/ FetchOriginal(l) \/ RejectOriginal(l)
                 \/ SaveThumbnails(l) \/ MarkDeleted(l) \/ UploadFailed(l)
                 \/ ~HandlerCall(l)
          PROVE  UNCHANGED object
      BY <1>3, <2>3 DEF WorkerLoopStep, TakeAndHandle, RetryHandler, ReadAvatar, MarkProcessing,
        FetchOriginal, RejectOriginal, SaveThumbnails, MarkDeleted, UploadFailed,
        SetProcessingStatus, SetThumbnails, Update, storageVars
    <2>4. QED
      BY <2>1, <2>2, <2>3 DEF HandlerCall
  <1>4. QED
    BY <1>1, <1>2, <1>3, RequestOrWorker DEF storageVars

\* A live avatar with recorded thumbnails is completed.
LEMMA RecordedAreCompleted ==
  ASSUME SystemInv, PromiseInv, CleanupInv, CompletionStands, [SystemNext]_vars,
         NEW a \in AvatarId, Visible(a)', row'[a].thumbs # {}
  PROVE  row'[a].processing = "completed"
  <1>1. CASE row'[a].thumbs = row[a].thumbs
    <2>1. UploadEvent(a) \in published
      BY <1>1 DEF PromiseInv, PromiseBooks
    <2>2. Exists(a)
      BY <2>1, EventsApart DEF SystemInv, EventBooks
    <2>3. Visible(a)
      BY <2>2, RequestOrWorker, RequestWrites, WorkerWrites DEF Served, Visible, storageVars
    <2>4. QED
      BY <1>1, <2>3 DEF CleanupInv, CompletionStands
  <1>2. QED
    BY <1>1, ThumbnailsMove

\* Whole keys go on to be whole.
LEMMA WholeStands ==
  ASSUME SystemInv, PromiseInv, CleanupInv, [SystemNext]_vars, NEW a \in AvatarId, NEW K, Whole(a, K)
  PROVE  Whole(a, K)'
  BY NothingStored DEF Whole

\* A deletion captures the original alone, or all there can be.
LEMMA CapturedWhole ==
  ASSUME SystemInv, PromiseInv, CleanupInv, [SystemNext]_vars, NEW d \in DeleteRequest,
         del'[d] \in {"hide", "publish"}
  PROVE  Whole(target[d], delKeys[d])'
  <1>1. CASE del[d] \in {"hide", "publish"} /\ target'[d] = target[d] /\ delKeys'[d] = delKeys[d]
    <2>1. target[d] \in AvatarId /\ Whole(target[d], delKeys[d])
      BY <1>1 DEF SystemInv, DeleteBooks, CleanupInv
    <2>2. PICK a \in AvatarId, K \in {delKeys[d]} : a = target[d]
      BY <2>1
    <2>3. Whole(a, K)'
      BY <2>1, <2>2, WholeStands
    <2>4. QED
      BY <1>1, <2>2, <2>3 DEF Whole
  <1>2. ASSUME NEW a \in AvatarId, target'[d] = a, delKeys'[d] = {OriginalKey} \cup row[a].thumbs
        PROVE  Whole(target[d], delKeys[d])'
    <2>1. row[a].thumbs \in {{}, ThumbnailSizes}
      BY DEF PromiseInv, PromiseBooks
    <2>2. Whole(a, {OriginalKey} \cup row[a].thumbs)
      BY <2>1 DEF Whole, Key
    <2>3. PICK K \in {delKeys'[d]} : Whole(a, K)
      BY <1>2, <2>2
    <2>4. Whole(a, K)'
      BY <2>3, WholeStands
    <2>5. QED
      BY <1>2, <2>3, <2>4 DEF Whole
  <1>3. QED
    BY <1>1, <1>2, CapturedOrKept

LEMMA PublishedWhole ==
  ASSUME SystemInv, PromiseInv, CleanupInv, [SystemNext]_vars,
         NEW m \in published', m.kind = "delete"
  PROVE  Whole(m.avatar, m.keys)'
  <1>1. m.avatar \in AvatarId /\ Whole(m.avatar, m.keys)
    <2>1. CASE m \in published
      BY <2>1, EventFields DEF SystemInv, ConsumerInv, ConsumerTypeOK, CleanupInv
    <2>2. CASE m \notin published
      <3>1. PICK d \in DeleteRequest : del[d] = "publish" /\ m = DeleteEvent(target[d], delKeys[d])
        BY <2>2, NewlyPublished, EventsApart
      <3>2. QED
        BY <3>1, EventsApart DEF SystemInv, DeleteBooks, CleanupInv
    <2>3. QED
      BY <2>1, <2>2
  <1>2. PICK a \in AvatarId, K \in {m.keys} : a = m.avatar
    BY <1>1
  <1>3. Whole(a, K)'
    BY <1>1, <1>2, WholeStands
  <1>4. QED
    BY <1>2, <1>3 DEF Whole

\* A deletion that is handled has removed everything.
LEMMA HandledCleanly ==
  ASSUME SystemInv, PromiseInv, RecordedInv, RemovalInv, CleanupInv, [SystemNext]_vars,
         NEW m \in handled', m.kind = "delete", m.keys # {OriginalKey}
  PROVE  object'[m.avatar] = {}
  <1>1. CASE m \in handled
    <2>1. m \in published /\ m.avatar \in AvatarId
      BY <1>1, EventFields DEF RecordedInv, SystemInv, ConsumerInv, ConsumerTypeOK
    <2>2. row[m.avatar].thumbs # {} /\ object[m.avatar] = {}
      BY <1>1, <2>1 DEF CleanupInv, Whole
    <2>3. QED
      BY <2>1, <2>2, NothingStored
  <1>2. CASE m \notin handled
    <2>1. PICK l \in Loop : m = cur[l] /\ step[l] = "markDeleted" /\ UNCHANGED object
      BY <1>2, DeletionHandled
    <2>2. object[Goal(l)] \subseteq todo[l] /\ todo[l] = {}
      BY <2>1 DEF RemovalInv, RemovalBooks, CleanupInv, CleanupBooks
    <2>3. QED
      BY <2>1, <2>2 DEF Goal
  <1>3. QED
    BY <1>1, <1>2

\* Two loops of one worker never handle an upload of the same avatar.
LEMMA UploadsApart ==
  ASSUME SystemInv, SingleWorker, NEW k \in Loop, NEW l \in Loop, k # l,
         pc[k] = "handle", pc[l] = "handle", cur[k].kind = "upload", cur[l].kind = "upload"
  PROVE  Goal(k) # Goal(l)
  <1>1. /\ cur[k] \in Message /\ Route[cur[k]] = k[2]
        /\ cur[l] \in Message /\ Route[cur[l]] = l[2]
    BY HeldMessage
  <1>2. k[2] # l[2]
    BY LoopsApart
  <1>3. QED
    BY <1>1, <1>2, EventAssumption, TopologyAssumption

\* A loop whose handler does not move keeps its books, whatever the others do.
LEMMA CleanupKept ==
  ASSUME SystemInv, PromiseInv, CleanupInv, SingleWorker, [SystemNext]_vars, NEW l \in Loop,
         step'[l] = step[l], todo'[l] = todo[l], step[l] # "none" => cur'[l] = cur[l]
  PROVE  CleanupBooks(l)'
  <1>1. CleanupBooks(l) /\ HandlerBooks(l) /\ StorageTypeOK /\ ProcessorTypeOK
    BY DEF CleanupInv, SystemInv, TypeOK
  <1>2. CASE step[l] \in {"mark", "fetch", "store", "save"}
    <2>1. pc[l] = "handle" /\ cur[l].kind = "upload" /\ row[Goal(l)].thumbs = {}
      BY <1>1, <1>2 DEF HandlerBooks, CleanupBooks
    <2>2. PICK a \in AvatarId : a = Goal(l)
      BY <2>1, HandlerGoal
    <2>3. ASSUME NEW k \in Loop, SaveThumbnails(k), a = Goal(k) PROVE FALSE
      <3>1. pc[k] = "handle" /\ cur[k].kind = "upload"
        BY <2>3 DEF SaveThumbnails, At, SystemInv, HandlerBooks
      <3>2. k = l
        BY <2>1, <2>2, <2>3, <3>1, UploadsApart
      <3>3. step'[l] = "none"
        BY <1>1, <2>3, <3>2 DEF SaveThumbnails, Finish, Succeed, Fail, EndHandler, ProcessorTypeOK
      <3>4. QED
        BY <1>2, <3>3
    <2>4. row'[a].thumbs = {}
      BY <2>1, <2>2, <2>3, ThumbnailsMove
    <2>5. QED
      BY <1>2, <2>2, <2>4 DEF CleanupBooks, Goal
  <1>3. CASE step[l] \in {"remove", "markDeleted"} /\ cur[l].keys # {OriginalKey}
    <2>1. pc[l] = "handle" /\ cur[l].kind = "delete"
      BY <1>1, <1>3 DEF HandlerBooks
    <2>2. PICK a \in AvatarId : a = Goal(l)
      BY <2>1, HandlerGoal
    <2>3. row[a].thumbs # {}
      BY <1>3, <2>1, <2>2, HandlerGoal DEF CleanupInv, Whole, Goal
    <2>4. object'[a] \subseteq object[a]
      BY <2>3, NothingStored
    <2>5. QED
      BY <1>1, <1>3, <2>2, <2>4 DEF CleanupBooks, Goal
  <1>4. CASE /\ step[l] \notin {"mark", "fetch", "store", "save"}
             /\ ~(step[l] \in {"remove", "markDeleted"} /\ cur[l].keys # {OriginalKey})
    BY <1>4 DEF CleanupBooks
  <1>5. QED
    BY <1>2, <1>3, <1>4

\* A handler starts to store only where nothing is recorded, and removes key by key.
LEMMA CleanupMoves ==
  ASSUME SystemInv, PromiseInv, CleanupInv, NEW l \in Loop,
         \/ \E m \in buffer[l] : TakeAndHandle(l, m)
         \/ RetryHandler(l)
         \/ HandlerCall(l)
  PROVE  CleanupBooks(l)'
  <1>types. /\ StorageTypeOK /\ ConsumerTypeOK /\ ProcessorTypeOK /\ HandlerBooks(l)
            /\ CleanupBooks(l)
    BY DEF SystemInv, TypeOK, CleanupInv
  <1>1. ASSUME NEW m \in published, StartHandler(l, m), cur'[l] = m, UNCHANGED object
        PROVE  CleanupBooks(l)'
    <2>1. m.kind \in {"upload", "delete"} /\ m.avatar \in AvatarId
      BY EventFields DEF SystemInv, ConsumerInv, ConsumerTypeOK
    <2>2. CASE m.kind = "upload"
      BY <1>types, <1>1, <2>2 DEF StartHandler, CleanupBooks, ProcessorTypeOK
    <2>3. CASE m.kind = "delete"
      <3>1. step'[l] = "remove" /\ todo'[l] = m.keys /\ Goal(l)' = m.avatar
        BY <1>types, <1>1, <2>3 DEF StartHandler, ProcessorTypeOK, Goal
      <3>2. m.keys # {OriginalKey} => object[m.avatar] \subseteq m.keys
        BY <1>types, <2>1, <2>3 DEF CleanupInv, Whole, StorageTypeOK
      <3>3. QED
        BY <1>1, <3>1, <3>2 DEF CleanupBooks
    <2>4. QED
      BY <2>1, <2>2, <2>3
  <1>2. ASSUME NEW m \in buffer[l], TakeAndHandle(l, m) PROVE CleanupBooks(l)'
    <2>1. m \in published
      BY DEF SystemInv, ConsumerInv, Issued
    <2>2. cur'[l] = m
      BY <1>types, <1>2 DEF TakeAndHandle, Take, ConsumerTypeOK
    <2>3. QED
      BY <1>1, <1>2, <2>1, <2>2 DEF TakeAndHandle, storageVars
  <1>3. CASE RetryHandler(l)
    <2>1. pc[l] = "backoff" /\ UNCHANGED cur
      BY <1>3 DEF RetryHandler, Retry
    <2>2. QED
      BY <1>1, <1>3, <2>1, HandlerGoal DEF RetryHandler, storageVars
  <1>4. ASSUME \/ Succeed(l) \/ Fail(l)
               \/ pc[l] = "callback" /\ UNCHANGED processorVars
        PROVE  CleanupBooks(l)'
    <2>1. step'[l] = "none"
      BY <1>types, <1>4 DEF Succeed, Fail, EndHandler, processorVars, ProcessorTypeOK, HandlerBooks, Step
    <2>2. QED
      BY <2>1 DEF CleanupBooks
  <1>continue. ASSUME NEW next, NEW left, Continue(l, next, left)
               PROVE  step'[l] = next /\ todo'[l] = left /\ UNCHANGED cur /\ Goal(l)' = Goal(l)
    BY <1>types, <1>continue DEF Continue, ProcessorTypeOK, consumerVars, loopVars, Goal
  <1>goal. pc[l] = "handle" => Goal(l) \in AvatarId /\ Exists(Goal(l))
    BY HandlerGoal
  <1>5. ASSUME NEW next \in {"mark", "fetch", "store", "save"}, NEW left, Continue(l, next, left),
               row'[Goal(l)].thumbs = {}
        PROVE  CleanupBooks(l)'
    BY <1>5, <1>continue DEF CleanupBooks
  <1>6. CASE ReadAvatar(l)
    <2>1. \/ Succeed(l) \/ Fail(l)
          \/ /\ Visible(Goal(l)) /\ row[Goal(l)].processing # "completed"
             /\ Continue(l, "mark", {})
      BY <1>6 DEF ReadAvatar
    <2>2. Visible(Goal(l)) /\ row[Goal(l)].processing # "completed" => row[Goal(l)].thumbs = {}
      BY <1>6, <1>goal DEF ReadAvatar, At, CleanupInv
    <2>3. QED
      BY <1>4, <1>5, <1>6, <2>1, <2>2 DEF ReadAvatar, storageVars
  <1>7. CASE MarkProcessing(l)
    <2>1. PICK o \in WorkerOutcome(l, DatabaseFaults) :
            /\ SetProcessingStatus(Goal(l), "processing", o)
            /\ Fail(l) \/ Continue(l, "fetch", {})
      BY <1>7 DEF MarkProcessing
    <2>2. row'[Goal(l)].thumbs = {}
      BY <1>7, <1>types, <1>goal, <2>1, StatusWritten DEF MarkProcessing, At, CleanupBooks
    <2>3. QED
      BY <1>4, <1>5, <2>1, <2>2
  <1>8. CASE FetchOriginal(l) \/ \E size \in Key : StoreThumbnail(l, size)
    <2>1. \/ Fail(l) \/ Continue(l, "store", ThumbnailSizes)
          \/ \E next \in {"store", "save"}, left \in SUBSET Key : Continue(l, next, left)
      BY <1>8, <1>types DEF ProcessorTypeOK, FetchOriginal, StoreThumbnail
    <2>2. row'[Goal(l)].thumbs = {}
      BY <1>8, <1>types DEF FetchOriginal, StoreThumbnail, At, Put, CleanupBooks, storageVars
    <2>3. QED
      BY <1>4, <1>5, <2>1, <2>2
  <1>9. ASSUME NEW key \in Key, RemoveObject(l, key) PROVE CleanupBooks(l)'
    <2>1. PICK o \in WorkerOutcome(l, BucketFaults) :
            /\ Remove(Goal(l), key, o)
            /\ IF o = "ok"
                 THEN Continue(l, IF todo[l] = {key} THEN "markDeleted" ELSE "remove", todo[l] \ {key})
                 ELSE Fail(l)
      BY <1>9 DEF RemoveObject
    <2>2. step[l] = "remove" /\ Goal(l) \in AvatarId
      BY <1>9, <1>goal DEF RemoveObject, At
    <2>3. CASE o = "ok"
      <3>1. object'[Goal(l)] = object[Goal(l)] \ {key}
        BY <1>types, <2>1, <2>2, <2>3 DEF Remove, Applied, StorageTypeOK
      <3>2. /\ step'[l] \in {"remove", "markDeleted"} /\ todo'[l] = todo[l] \ {key}
            /\ UNCHANGED cur /\ Goal(l)' = Goal(l)
        BY <1>continue, <2>1, <2>3
      <3>3. cur[l].keys # {OriginalKey} => object[Goal(l)] \subseteq todo[l]
        BY <1>types, <2>2 DEF CleanupBooks
      <3>4. QED
        BY <3>1, <3>2, <3>3 DEF CleanupBooks
    <2>4. QED
      BY <1>4, <2>1, <2>3
  <1>10. CASE RejectOriginal(l) \/ SaveThumbnails(l) \/ MarkDeleted(l) \/ UploadFailed(l)
    BY <1>4, <1>10 DEF RejectOriginal, SaveThumbnails, MarkDeleted, UploadFailed, Finish, CallbackReturns
  <1>11. QED
    BY <1>2, <1>3, <1>6, <1>7, <1>8, <1>9, <1>10 DEF HandlerCall

LEMMA CleanupBooksStep ==
  ASSUME SystemInv, PromiseInv, CleanupInv, SingleWorker, [SystemNext]_vars, NEW l \in Loop
  PROVE  CleanupBooks(l)'
  <1>1. CASE step'[l] = "none"
    BY <1>1 DEF CleanupBooks
  <1>2. QED
    BY <1>1, HandlerMoves, CleanupKept, CleanupMoves

\* DeletionsClean: with one worker process and a database that never fails, an
\* acknowledged deletion of an avatar that had thumbnails leaves nothing in the bucket,
\* through failures of the bucket, shutdowns, crashes and redeliveries.  So the race of
\* the run orphan_race takes a deletion that overtakes the upload's event.
THEOREM DeletionsClean ==
  SingleWorker /\ DatabaseFaults = {} => (SystemSpec => []DeletionsLeaveNothing)
  <1> SUFFICES ASSUME SingleWorker, DatabaseFaults = {}
               PROVE  SystemSpec => []DeletionsLeaveNothing
    OBVIOUS
  <1> DEFINE AllBooks == UnfinishedInv /\ RemovalInv /\ CleanupInv
  <1>1. Init => AllBooks
    BY DEF Init, StorageInit, ServiceInit, ConsumerInit, ProcessorInit, FreshRow, UnfinishedInv,
      UnfinishedBooks, RemovalInv, RemovalBooks, CleanupInv, CleanupBooks
  <1>2. SystemInv /\ PromiseInv /\ RecordedInv /\ AllBooks /\ [SystemNext]_vars => AllBooks'
    <2> SUFFICES ASSUME SystemInv, PromiseInv, RecordedInv, AllBooks, [SystemNext]_vars PROVE AllBooks'
      OBVIOUS
    <2>1. UnfinishedInv' /\ CompletionStands
      BY UnfinishedStep
    <2>2. RemovalInv'
      BY CapturedKeys, PublishedKeys, HandledDeletion, RemovalBooksStep DEF RemovalInv
    <2>3. CleanupInv'
      BY <2>1, RecordedAreCompleted, CapturedWhole, PublishedWhole, HandledCleanly,
        CleanupBooksStep DEF CleanupInv
    <2>4. QED
      BY <2>1, <2>2, <2>3
  <1>3. RecordedInv /\ AllBooks => DeletionsLeaveNothing
    BY DEF RecordedInv, CleanupInv, DeletionsLeaveNothing
  <1>4. QED
    BY <1>1, <1>2, <1>3, RecordedInvariant, PromiseInvariant, SystemInvariant, PTL DEF SystemSpec

=============================================================================
