------------------------- MODULE GophProfile_proofs -------------------------
(***************************************************************************)
(* Proofs about the composed system, for every set of avatars, users,      *)
(* thumbnail sizes, requests and workers and for every combination of      *)
(* faults.                                                                 *)
(***************************************************************************)
EXTENDS GophProfile, Consumer_proofs, WellFoundedInduction

-----------------------------------------------------------------------------
(* What a handler's step may do to the stores, and what it must know of its *)
(* message.                                                                *)

\* A worker never touches the columns the server relies on.
RowsStand ==
  \A a \in AvatarId : row'[a].stage = row[a].stage /\ row'[a].upload = row[a].upload

\* Objects of a visible avatar are never removed.
ObjectsStand == \A a \in AvatarId : Visible(a) => object[a] \subseteq object'[a]

\* No record becomes visible but a new one.
NoneReturns == \A a \in AvatarId : Exists(a) /\ Visible(a)' => Visible(a)

\* What is true of every step a worker takes on the stores.
StoresStep ==
  /\ StorageTypeOK' /\ RowsStand /\ ObjectsStand
  /\ AdvertisedThumbnailsExist' /\ UploadedOriginalStored'

\* The fields of an event.
LEMMA EventFields ==
  ASSUME NEW m \in Message
  PROVE  m.kind \in {"upload", "delete"} /\ m.avatar \in AvatarId /\ m.keys \in SUBSET Key
  BY EventAssumption DEF Event, UploadEvent, DeleteEvent, Key

\* An upload event is its avatar's.
LEMMA UploadEventOf ==
  ASSUME NEW m \in Message, m.kind = "upload"
  PROVE  m = UploadEvent(m.avatar)
  BY EventAssumption DEF Event, UploadEvent, DeleteEvent

\* A running handler works on a published event, and a delete event's row is hidden.
LEMMA HandlerGoal ==
  ASSUME SystemInv, NEW l \in Loop, pc[l] \in {"handle", "backoff", "callback"}
  PROVE  /\ cur[l] \in published /\ cur[l] \in Message
         /\ Goal(l) \in AvatarId /\ Exists(Goal(l))
         /\ cur[l].kind = "delete" => ~Visible(Goal(l))
  <1>1. cur[l] \in published
    BY DEF SystemInv, ConsumerInv, LoopBooks, Issued
  <1>2. cur[l] \in Message
    BY <1>1 DEF SystemInv, ConsumerInv, ConsumerTypeOK
  <1>3. EventBooks(cur[l])
    BY <1>1 DEF SystemInv
  <1>4. QED
    BY <1>1, <1>2, <1>3, EventFields DEF EventBooks, Goal, Visible

\* What a loop holds, from the moment it takes it until it is settled.
LEMMA HeldMessage ==
  ASSUME SystemInv, NEW l \in Loop, pc[l] \notin {"select", "done"}
  PROVE  /\ cur[l] \in published /\ cur[l] \in Message /\ Route[cur[l]] = l[2]
         /\ Goal(l) \in AvatarId /\ Exists(Goal(l))
  <1>1. cur[l] \in published /\ cur[l] # NoMessage
    BY DEF SystemInv, ConsumerInv, LoopBooks, Issued
  <1>2. cur[l] \in Message /\ Route[cur[l]] = l[2]
    BY <1>1 DEF SystemInv, ConsumerInv, ConsumerTypeOK, Issued
  <1>3. EventBooks(cur[l])
    BY <1>1 DEF SystemInv
  <1>4. QED
    BY <1>1, <1>2, <1>3, EventFields DEF EventBooks, Goal

-----------------------------------------------------------------------------
(* The handlers' calls on the stores. *)

LEMMA StoresAfterSkip ==
  ASSUME SystemInv, UNCHANGED storageVars
  PROVE  StoresStep
  BY DEF StoresStep, SystemInv, TypeOK, StorageTypeOK, storageVars, RowsStand, ObjectsStand,
    AdvertisedThumbnailsExist, UploadedOriginalStored, Visible

LEMMA StoresAfterStatus ==
  ASSUME SystemInv, NEW a \in AvatarId, NEW o \in Outcome,
         NEW status \in ProcessingStatus, SetProcessingStatus(a, status, o)
  PROVE  StoresStep
  <1> USE DEF SystemInv, TypeOK, StorageTypeOK, SetProcessingStatus, Update, Row
  <1>1. StorageTypeOK'
    OBVIOUS
  <1>2. RowsStand /\ ObjectsStand
    BY DEF RowsStand, ObjectsStand
  <1>3. AdvertisedThumbnailsExist' /\ UploadedOriginalStored'
    BY DEF AdvertisedThumbnailsExist, UploadedOriginalStored, Visible
  <1>4. QED
    BY <1>1, <1>2, <1>3 DEF StoresStep

LEMMA StoresAfterThumbnails ==
  ASSUME SystemInv, NEW a \in AvatarId, NEW o \in Outcome,
         Visible(a) => ThumbnailSizes \subseteq object[a], SetThumbnails(a, ThumbnailSizes, o)
  PROVE  StoresStep
  <1> USE DEF SystemInv, TypeOK, StorageTypeOK, SetThumbnails, Update, Row, ProcessingStatus
  <1>1. StorageTypeOK'
    OBVIOUS
  <1>2. RowsStand /\ ObjectsStand
    BY DEF RowsStand, ObjectsStand
  <1>3. AdvertisedThumbnailsExist' /\ UploadedOriginalStored'
    BY DEF AdvertisedThumbnailsExist, UploadedOriginalStored, Visible
  <1>4. QED
    BY <1>1, <1>2, <1>3 DEF StoresStep

LEMMA StoresAfterPut ==
  ASSUME SystemInv, NEW a \in AvatarId, NEW key \in Key, NEW o \in Outcome, Put(a, key, o)
  PROVE  StoresStep
  <1> USE DEF SystemInv, TypeOK, StorageTypeOK, Put
  <1>1. StorageTypeOK'
    OBVIOUS
  <1>2. RowsStand /\ ObjectsStand
    BY DEF RowsStand, ObjectsStand
  <1>3. AdvertisedThumbnailsExist' /\ UploadedOriginalStored'
    BY <1>2 DEF AdvertisedThumbnailsExist, UploadedOriginalStored, Visible
  <1>4. QED
    BY <1>1, <1>2, <1>3 DEF StoresStep

\* Removing an object harms no visible avatar: the row is hidden already.
LEMMA StoresAfterRemove ==
  ASSUME SystemInv, NEW a \in AvatarId, ~Visible(a), NEW key \in Key, NEW o \in Outcome,
         Remove(a, key, o)
  PROVE  StoresStep
  <1> USE DEF SystemInv, TypeOK, StorageTypeOK, Remove
  <1>1. StorageTypeOK'
    OBVIOUS
  <1>2. RowsStand /\ ObjectsStand
    BY DEF RowsStand, ObjectsStand, Visible
  <1>3. AdvertisedThumbnailsExist' /\ UploadedOriginalStored'
    BY <1>2 DEF AdvertisedThumbnailsExist, UploadedOriginalStored, Visible
  <1>4. QED
    BY <1>1, <1>2, <1>3 DEF StoresStep

\* What a write of a status or of the thumbnails changes: one existing record.
LEMMA StatusWritten ==
  ASSUME StorageTypeOK, NEW a \in AvatarId, Exists(a), NEW o, NEW status
  PROVE  /\ SetProcessingStatus(a, status, o) =>
              /\ UNCHANGED object /\ \A b \in AvatarId \ {a} : row'[b] = row[b]
              /\ row'[a].thumbs = row[a].thumbs
              /\ row'[a].processing \in {row[a].processing, status}
              /\ o = "ok" => row'[a].processing = status
         /\ SetThumbnails(a, ThumbnailSizes, o) =>
              /\ UNCHANGED object /\ \A b \in AvatarId \ {a} : row'[b] = row[b]
              /\ \/ row'[a] = row[a]
                 \/ row'[a].thumbs = ThumbnailSizes /\ row'[a].processing = "completed"
              /\ o = "ok" => row'[a].thumbs = ThumbnailSizes /\ row'[a].processing = "completed"
  BY DEF StorageTypeOK, Row, SetProcessingStatus, SetThumbnails, Update, Applied

-----------------------------------------------------------------------------
(* The handlers' own books. *)

OthersUntouched(l) ==
  \A k \in Loop \ {l} :
    step'[k] = step[k] /\ todo'[k] = todo[k] /\ pc'[k] = pc[k] /\ cur'[k] = cur[k]

\* What is true of every step of a handler.
HandlerSound(l) ==
  StoresStep /\ ProcessorTypeOK' /\ HandlerBooks(l)' /\ OthersUntouched(l)

\* A loop that does not move keeps its books, whatever the others do.
LEMMA HandlerBooksKept ==
  ASSUME SystemInv, NEW l \in Loop, NoneReturns, ObjectsStand,
         step'[l] = step[l], todo'[l] = todo[l], pc'[l] = pc[l], cur'[l] = cur[l]
  PROVE  HandlerBooks(l)'
  <1>1. HandlerBooks(l)
    BY DEF SystemInv
  <1>2. step[l] \in {"store", "save"} => Goal(l) \in AvatarId /\ Exists(Goal(l))
    BY <1>1, HandlerGoal DEF HandlerBooks
  <1>3. Goal(l)' = Goal(l)
    BY DEF Goal
  <1>4. Goal(l) \in AvatarId /\ Exists(Goal(l)) => (Visible(Goal(l))' => Visible(Goal(l)))
    BY <1>3 DEF NoneReturns, Visible
  <1>5. QED
    BY <1>1, <1>2, <1>3, <1>4 DEF HandlerBooks, ObjectsStand

\* A handler starts with the call its event asks for.
LEMMA StartSound ==
  ASSUME SystemInv, NEW l \in Loop, NEW m \in Message, StartHandler(l, m),
         pc' = [pc EXCEPT ![l] = "handle"], cur' = [cur EXCEPT ![l] = m],
         UNCHANGED storageVars
  PROVE  HandlerSound(l)
  <1> USE DEF SystemInv, TypeOK, ConsumerInv, ConsumerTypeOK, ProcessorTypeOK, StartHandler
  <1>1. StoresStep
    BY StoresAfterSkip
  <1>2. ProcessorTypeOK'
    BY EventFields DEF Step
  <1>3. HandlerBooks(l)'
    BY EventFields DEF HandlerBooks
  <1>4. OthersUntouched(l)
    BY DEF OthersUntouched
  <1>5. QED
    BY <1>1, <1>2, <1>3, <1>4 DEF HandlerSound

\* A handler ends.
LEMMA EndSound ==
  ASSUME SystemInv, NEW l \in Loop, StoresStep, Succeed(l) \/ Fail(l)
  PROVE  HandlerSound(l)
  <1> USE DEF SystemInv, TypeOK, ConsumerInv, ConsumerTypeOK, ProcessorTypeOK,
        EndHandler, Succeed, Fail, HandlerOK, HandlerFails, Goto
  <1>1. ProcessorTypeOK'
    BY DEF Step
  <1>2. HandlerBooks(l)'
    BY DEF HandlerBooks
  <1>3. OthersUntouched(l)
    BY DEF OthersUntouched
  <1>4. QED
    BY <1>1, <1>2, <1>3 DEF HandlerSound

\* A handler goes on to its next call.
LEMMA ContinueSound ==
  ASSUME SystemInv, NEW l \in Loop, StoresStep, pc[l] = "handle",
         NEW next \in Step \ {"none"}, NEW left \in SUBSET Key, Continue(l, next, left),
         next \in {"read", "mark", "fetch", "store", "save"} => cur[l].kind = "upload",
         next \in {"remove", "markDeleted"} => cur[l].kind = "delete",
         next \in {"store", "save"} /\ Visible(Goal(l))
           => ThumbnailSizes \ left \subseteq object'[Goal(l)],
         next = "save" => left = {}
  PROVE  HandlerSound(l)
  <1> USE DEF Continue
  <1>1. ProcessorTypeOK'
    BY DEF SystemInv, TypeOK, ProcessorTypeOK
  <1>2. UNCHANGED <<pc, cur>>
    BY DEF consumerVars, loopVars
  <1>3. step'[l] = next /\ todo'[l] = left
    BY DEF SystemInv, TypeOK, ProcessorTypeOK
  <1>4. Visible(Goal(l))' => Visible(Goal(l))
    BY <1>2, HandlerGoal DEF StoresStep, RowsStand, Visible, Goal
  <1>5. HandlerBooks(l)'
    BY <1>2, <1>3, <1>4 DEF HandlerBooks, Goal
  <1>6. OthersUntouched(l)
    BY <1>2 DEF OthersUntouched, SystemInv, TypeOK, ProcessorTypeOK
  <1>7. QED
    BY <1>1, <1>5, <1>6 DEF HandlerSound

-----------------------------------------------------------------------------
(* Every call of a handler is sound. *)

LEMMA HandlerStepSound ==
  ASSUME SystemInv, NEW l \in Loop,
         \/ \E m \in buffer[l] : TakeAndHandle(l, m)
         \/ RetryHandler(l)
         \/ HandlerCall(l)
  PROVE  HandlerSound(l)
  <1> USE DEF At
  <1> ConsumerTypeOK /\ ProcessorTypeOK /\ HandlerBooks(l)
    BY DEF SystemInv, ConsumerInv, TypeOK
  <1>goal. pc[l] \in {"handle", "backoff", "callback"} =>
             /\ Goal(l) \in AvatarId /\ cur[l] \in Message
             /\ cur[l].kind = "delete" => ~Visible(Goal(l))
    BY HandlerGoal
  <1>outcome. \A faults \in SUBSET {"refused", "lostReply"} :
                WorkerOutcome(l, faults) \subseteq Outcome
    BY DEF WorkerOutcome, Outcome
  <1>faults. /\ WorkerOutcome(l, DatabaseFaults) \subseteq Outcome
             /\ WorkerOutcome(l, BucketFaults) \subseteq Outcome
    BY <1>outcome, FaultsAssumption
  <1>1. ASSUME NEW m \in buffer[l], TakeAndHandle(l, m) PROVE HandlerSound(l)
    <2>1. m \in Message
      BY DEF ConsumerTypeOK
    <2>2. QED
      BY <1>1, <2>1, StartSound DEF TakeAndHandle, Take, Goto
  <1>2. CASE RetryHandler(l)
    <2>1. pc[l] = "backoff" /\ StartHandler(l, cur[l]) /\ UNCHANGED storageVars
          /\ pc' = [pc EXCEPT ![l] = "handle"] /\ UNCHANGED cur
      BY <1>2 DEF RetryHandler, Retry, Goto
    <2>2. cur' = [cur EXCEPT ![l] = cur[l]]
      BY <2>1 DEF ConsumerTypeOK
    <2>3. QED
      BY <1>goal, <2>1, <2>2, StartSound
  <1>3. CASE ReadAvatar(l)
    <2>1. StoresStep
      BY <1>3, StoresAfterSkip DEF ReadAvatar
    <2>2. CASE Succeed(l) \/ Fail(l)
      BY <2>1, <2>2, EndSound
    <2>3. CASE Continue(l, "mark", {})
      BY <1>3, <2>1, <2>3, ContinueSound DEF ReadAvatar, HandlerBooks, Step
    <2>4. QED
      BY <1>3, <2>2, <2>3 DEF ReadAvatar
  <1>4. CASE MarkProcessing(l)
    <2>1. PICK o \in WorkerOutcome(l, DatabaseFaults) :
            /\ SetProcessingStatus(Goal(l), "processing", o)
            /\ IF o = "ok" THEN Continue(l, "fetch", {}) ELSE Fail(l)
      BY <1>4 DEF MarkProcessing
    <2>2. StoresStep
      BY <1>4, <1>goal, <1>faults, <2>1, StoresAfterStatus DEF MarkProcessing, ProcessingStatus
    <2>3. QED
      BY <1>4, <2>1, <2>2, EndSound, ContinueSound DEF MarkProcessing, HandlerBooks, Step
  <1>5. CASE FetchOriginal(l)
    <2>1. StoresStep
      BY <1>5, StoresAfterSkip DEF FetchOriginal
    <2>2. CASE Fail(l)
      BY <2>1, <2>2, EndSound
    <2>3. CASE Continue(l, "store", ThumbnailSizes)
      BY <1>5, <2>1, <2>3, ContinueSound DEF FetchOriginal, HandlerBooks, Step, Key
    <2>4. QED
      BY <1>5, <2>2, <2>3 DEF FetchOriginal
  <1>6. ASSUME NEW size \in Key, StoreThumbnail(l, size) PROVE HandlerSound(l)
    <2>1. PICK o \in WorkerOutcome(l, BucketFaults) :
            /\ Put(Goal(l), size, o)
            /\ IF o = "ok"
                 THEN Continue(l, IF todo[l] = {size} THEN "save" ELSE "store", todo[l] \ {size})
                 ELSE Fail(l)
      BY <1>6 DEF StoreThumbnail
    <2>2. StoresStep
      BY <1>6, <1>goal, <1>faults, <2>1, StoresAfterPut DEF StoreThumbnail
    <2>3. CASE o = "ok"
      <3> DEFINE next == IF todo[l] = {size} THEN "save" ELSE "store"
      <3>1. Continue(l, next, todo[l] \ {size}) /\ next \in Step \ {"none"}
        BY <2>1, <2>3 DEF Step
      <3>2. object'[Goal(l)] = object[Goal(l)] \cup {size}
        BY <1>6, <1>goal, <2>1, <2>3
          DEF StoreThumbnail, Put, Applied, SystemInv, TypeOK, StorageTypeOK
      <3>3. Visible(Goal(l)) => ThumbnailSizes \ (todo[l] \ {size}) \subseteq object'[Goal(l)]
        BY <1>6, <3>2 DEF StoreThumbnail, HandlerBooks
      <3>4. cur[l].kind = "upload" /\ pc[l] = "handle"
        BY <1>6 DEF StoreThumbnail, HandlerBooks
      <3>5. next = "save" => todo[l] \ {size} = {}
        OBVIOUS
      <3>6. todo[l] \ {size} \in SUBSET Key
        BY DEF ProcessorTypeOK
      <3>7. next \notin {"remove", "markDeleted"}
        OBVIOUS
      <3> HIDE DEF next
      <3>8. QED
        BY <2>2, <3>1, <3>3, <3>4, <3>5, <3>6, <3>7, ContinueSound
    <2>4. QED
      BY <2>1, <2>2, <2>3, EndSound
  <1>7. CASE RejectOriginal(l)
    <2>1. PICK o \in WorkerOutcome(l, DatabaseFaults) :
            SetProcessingStatus(Goal(l), "failed", o) /\ Finish(l, o)
      BY <1>7 DEF RejectOriginal
    <2>2. StoresStep
      BY <1>7, <1>goal, <1>faults, <2>1, StoresAfterStatus DEF RejectOriginal, ProcessingStatus
    <2>3. QED
      BY <2>1, <2>2, EndSound DEF Finish
  <1>8. CASE SaveThumbnails(l)
    <2>1. PICK o \in WorkerOutcome(l, DatabaseFaults) :
            SetThumbnails(Goal(l), ThumbnailSizes, o) /\ Finish(l, o)
      BY <1>8 DEF SaveThumbnails
    <2>2. Visible(Goal(l)) => ThumbnailSizes \subseteq object[Goal(l)]
      BY <1>8 DEF SaveThumbnails, HandlerBooks
    <2>3. StoresStep
      BY <1>8, <1>goal, <1>faults, <2>1, <2>2, StoresAfterThumbnails DEF SaveThumbnails
    <2>4. QED
      BY <2>1, <2>3, EndSound DEF Finish
  <1>9. ASSUME NEW key \in Key, RemoveObject(l, key) PROVE HandlerSound(l)
    <2>1. PICK o \in WorkerOutcome(l, BucketFaults) :
            /\ Remove(Goal(l), key, o)
            /\ IF o = "ok"
                 THEN Continue(l, IF todo[l] = {key} THEN "markDeleted" ELSE "remove",
                               todo[l] \ {key})
                 ELSE Fail(l)
      BY <1>9 DEF RemoveObject
    <2>2. cur[l].kind = "delete" /\ pc[l] = "handle"
      BY <1>9 DEF RemoveObject, HandlerBooks
    <2>3. StoresStep
      BY <1>goal, <1>faults, <2>1, <2>2, StoresAfterRemove
    <2>4. CASE o = "ok"
      <3> DEFINE next == IF todo[l] = {key} THEN "markDeleted" ELSE "remove"
      <3>1. Continue(l, next, todo[l] \ {key}) /\ next \in Step \ {"none"}
        BY <2>1, <2>4 DEF Step
      <3>2. todo[l] \ {key} \in SUBSET Key
        BY DEF ProcessorTypeOK
      <3>3. next \in {"remove", "markDeleted"}
        OBVIOUS
      <3> HIDE DEF next
      <3>4. QED
        BY <2>2, <2>3, <3>1, <3>2, <3>3, ContinueSound
    <2>5. QED
      BY <2>1, <2>3, <2>4, EndSound
  <1>10. CASE MarkDeleted(l)
    <2>1. PICK o \in WorkerOutcome(l, DatabaseFaults) :
            SetProcessingStatus(Goal(l), "deleted", o) /\ Finish(l, o)
      BY <1>10 DEF MarkDeleted
    <2>2. StoresStep
      BY <1>10, <1>goal, <1>faults, <2>1, StoresAfterStatus DEF MarkDeleted, ProcessingStatus
    <2>3. QED
      BY <2>1, <2>2, EndSound DEF Finish
  <1>11. CASE UploadFailed(l)
    <2>1. PICK o \in WorkerOutcome(l, DatabaseFaults) : SetProcessingStatus(Goal(l), "failed", o)
      BY <1>11 DEF UploadFailed
    <2>2. pc[l] = "callback" /\ pc' = [pc EXCEPT ![l] = "nack"] /\ UNCHANGED <<cur, step, todo>>
      BY <1>11 DEF UploadFailed, CallbackReturns, Goto, processorVars
    <2>3. StoresStep
      BY <1>goal, <1>faults, <2>1, <2>2, StoresAfterStatus DEF ProcessingStatus
    <2>4. ProcessorTypeOK' /\ HandlerBooks(l)' /\ OthersUntouched(l)
      BY <2>2 DEF ProcessorTypeOK, ConsumerTypeOK, HandlerBooks, OthersUntouched
    <2>5. QED
      BY <2>3, <2>4 DEF HandlerSound
  <1>12. QED
    BY <1>1, <1>2, <1>3, <1>4, <1>5, <1>6, <1>7, <1>8, <1>9, <1>10, <1>11 DEF HandlerCall

-----------------------------------------------------------------------------
(* The server's calls. *)

\* What is true of every step of a request that publishes nothing.
ServerSound ==
  /\ StorageTypeOK' /\ ServiceTypeOK'
  /\ AdvertisedThumbnailsExist' /\ UploadedOriginalStored'
  /\ \A a \in AvatarId : UploadBooks(a)'
  /\ \A d \in DeleteRequest : DeleteBooks(d)'
  /\ \A m \in published : EventBooks(m)'
  /\ ObjectsStand /\ NoneReturns

\* A write of the upload status changes nothing else.
LEMMA UploadStatusWritten ==
  ASSUME StorageTypeOK, NEW a \in AvatarId, NEW o \in Outcome,
         NEW status \in UploadStatus, SetUploadStatus(a, status, o)
  PROVE  /\ StorageTypeOK' /\ UNCHANGED object
         /\ \A b \in AvatarId : /\ row'[b].stage = row[b].stage
                                /\ row'[b].thumbs = row[b].thumbs
                                /\ row'[b].upload = row[b].upload
                                     \/ (b = a /\ row'[b].upload = status)
  <1> USE DEF StorageTypeOK, SetUploadStatus, Update, Row
  <1>1. StorageTypeOK'
    OBVIOUS
  <1>2. QED
    BY <1>1

\* A soft delete hides a visible row and changes nothing else.
LEMMA RowHidden ==
  ASSUME StorageTypeOK, NEW a \in AvatarId, NEW o \in Outcome, SoftDelete(a, o)
  PROVE  /\ StorageTypeOK' /\ UNCHANGED object
         /\ \A b \in AvatarId :
              /\ row'[b].upload = row[b].upload /\ row'[b].thumbs = row[b].thumbs
              /\ row'[b].stage = row[b].stage
                   \/ (b = a /\ Visible(b) /\ row'[b].stage = "deleted")
         /\ Applied(o) /\ Visible(a) => row'[a].stage = "deleted"
  <1> USE DEF StorageTypeOK, SoftDelete, Update, Row
  <1>1. StorageTypeOK'
    OBVIOUS
  <1>2. QED
    BY <1>1

\* The calls of an upload request.
LEMMA UploadSound ==
  ASSUME SystemInv, NEW a \in AvatarId, UNCHANGED consumerVars,
         \/ UploadCreate(a) \/ UploadPut(a) \/ UploadMarkFailed(a)
         \/ UploadMarkUploaded(a) \/ UploadCrash(a)
  PROVE  ServerSound
  <1> USE DEF SystemInv, TypeOK, StorageTypeOK, ServiceTypeOK, deleteVars, storageVars
  <1>published. UNCHANGED published
    BY DEF consumerVars, historyVars
  <1>avatars. \A m \in published : m.avatar \in AvatarId
    BY EventFields DEF ConsumerInv, ConsumerTypeOK
  <1>1. CASE UploadCreate(a)
    <2> USE <1>1 DEF UploadCreate, UploadCall, Create
    <2>1. row[a].stage = "absent"
      BY DEF UploadBooks
    <2>2. \/ UNCHANGED <<row, clock>> /\ upload' = [upload EXCEPT ![a] = "error"]
          \/ \E t \in {clock, clock + 1} :
               /\ row' = [row EXCEPT ![a] = FreshRow(t)] /\ clock' = t
               /\ upload'[a] \in {"put", "error"}
      BY DEF Applied, Outcome
    <2>3. StorageTypeOK' /\ ServiceTypeOK'
      BY <2>2 DEF FreshRow, Row, UploadStatus, ProcessingStatus, UploadState
    <2>4. ObjectsStand /\ NoneReturns
      BY <2>1, <2>2 DEF ObjectsStand, NoneReturns, Exists, Visible
    <2>5. AdvertisedThumbnailsExist' /\ UploadedOriginalStored'
      BY <2>2 DEF AdvertisedThumbnailsExist, UploadedOriginalStored, Visible, FreshRow
    <2>6. \A b \in AvatarId : UploadBooks(b)'
      BY <2>2 DEF UploadBooks, UploadInFlight, Exists, Visible, FreshRow
    <2>7. \A d \in DeleteRequest : DeleteBooks(d)'
      BY <2>1, <2>2 DEF DeleteBooks, Won
    <2>8. \A m \in published : EventBooks(m)'
      BY <2>1, <2>2, <1>published, <1>avatars DEF EventBooks, Exists
    <2>9. QED
      BY <2>3, <2>4, <2>5, <2>6, <2>7, <2>8 DEF ServerSound
  <1>2. CASE UploadPut(a)
    <2> USE <1>2 DEF UploadPut, UploadCall, Put
    <2>1. StorageTypeOK' /\ ServiceTypeOK'
      BY DEF UploadState, Key
    <2>2. ObjectsStand /\ NoneReturns
      BY DEF ObjectsStand, NoneReturns, Exists, Visible
    <2>3. AdvertisedThumbnailsExist' /\ UploadedOriginalStored'
      BY DEF AdvertisedThumbnailsExist, UploadedOriginalStored, Visible
    <2>4. \A b \in AvatarId : UploadBooks(b)'
      BY DEF UploadBooks, UploadInFlight, Exists, Visible, Applied
    <2>5. \A d \in DeleteRequest : DeleteBooks(d)'
      BY DEF DeleteBooks, Won
    <2>6. \A m \in published : EventBooks(m)'
      BY <1>published DEF EventBooks, Exists
    <2>7. QED
      BY <2>1, <2>2, <2>3, <2>4, <2>5, <2>6 DEF ServerSound
  <1>3. CASE UploadMarkFailed(a) \/ UploadMarkUploaded(a)
    <2>pick. PICK o \in Outcome, status \in {"failed", "uploaded"}, next \in {"error", "publish"} :
               /\ SetUploadStatus(a, status, o)
               /\ status = "uploaded" => upload[a] = "markUploaded"
               /\ upload[a] \in {"markFailed", "markUploaded"}
               /\ upload' = [upload EXCEPT ![a] = next]
               /\ uploadCtx' \in [AvatarId -> BOOLEAN] /\ UNCHANGED deleteVars
      <3>1. CASE UploadMarkFailed(a)
        <4>1. PICK o \in Outcome : UploadCall(a, "markFailed", DatabaseFaults, o, "error", "error")
                                    /\ SetUploadStatus(a, "failed", o)
          BY <3>1 DEF UploadMarkFailed
        <4>2. upload' = [upload EXCEPT ![a] = "error"] /\ upload[a] = "markFailed"
              /\ uploadCtx' \in [AvatarId -> BOOLEAN] /\ UNCHANGED deleteVars
          BY <4>1 DEF UploadCall
        <4>3. QED
          BY <4>1, <4>2
      <3>2. CASE UploadMarkUploaded(a)
        <4>1. PICK o \in Outcome : UploadCall(a, "markUploaded", DatabaseFaults, o, "publish", "error")
                                    /\ SetUploadStatus(a, "uploaded", o)
          BY <3>2 DEF UploadMarkUploaded
        <4>2. upload[a] = "markUploaded" /\ uploadCtx' \in [AvatarId -> BOOLEAN]
              /\ \E next \in {"error", "publish"} : upload' = [upload EXCEPT ![a] = next]
              /\ UNCHANGED deleteVars
          BY <4>1 DEF UploadCall
        <4>3. QED
          BY <4>1, <4>2
      <3>3. QED
        BY <1>3, <3>1, <3>2
    <2> USE <2>pick
    <2>w. /\ StorageTypeOK' /\ UNCHANGED object
          /\ \A b \in AvatarId : /\ row'[b].stage = row[b].stage
                                 /\ row'[b].thumbs = row[b].thumbs
                                 /\ row'[b].upload = row[b].upload
                                      \/ (b = a /\ row'[b].upload = status)
      BY UploadStatusWritten DEF UploadStatus
    <2> USE <2>w
    <2>1. \A b \in AvatarId :
            row'[b].stage = row[b].stage /\ row'[b].thumbs = row[b].thumbs
      OBVIOUS
    <2>2. \A b \in AvatarId : row'[b].upload = "uploaded" /\ row[b].upload # "uploaded"
                                => b = a /\ upload[b] = "markUploaded"
      OBVIOUS
    <2>3. StorageTypeOK' /\ ServiceTypeOK'
      BY DEF UploadState
    <2>4. ObjectsStand /\ NoneReturns
      BY <2>1 DEF ObjectsStand, NoneReturns, Exists, Visible
    <2>5. AdvertisedThumbnailsExist' /\ UploadedOriginalStored'
      BY <2>1, <2>2 DEF AdvertisedThumbnailsExist, UploadedOriginalStored, Visible, UploadBooks
    <2>6. \A b \in AvatarId : UploadBooks(b)'
      BY <2>1 DEF UploadBooks, UploadInFlight, Exists, Visible
    <2>7. \A d \in DeleteRequest : DeleteBooks(d)'
      BY <2>1 DEF DeleteBooks, Won
    <2>8. \A m \in published : EventBooks(m)'
      BY <2>1, <1>published, <1>avatars DEF EventBooks, Exists
    <2>9. QED
      BY <2>3, <2>4, <2>5, <2>6, <2>7, <2>8 DEF ServerSound
  <1>4. CASE UploadCrash(a)
    <2> USE <1>4 DEF UploadCrash
    <2>1. StorageTypeOK' /\ ServiceTypeOK'
      BY DEF UploadState
    <2>2. ObjectsStand /\ NoneReturns
      BY DEF ObjectsStand, NoneReturns, Exists, Visible
    <2>3. AdvertisedThumbnailsExist' /\ UploadedOriginalStored'
      BY DEF AdvertisedThumbnailsExist, UploadedOriginalStored, Visible
    <2>4. \A b \in AvatarId : UploadBooks(b)'
      BY DEF UploadBooks, UploadInFlight, Exists, Visible
    <2>5. \A d \in DeleteRequest : DeleteBooks(d)'
      BY DEF DeleteBooks, Won
    <2>6. \A m \in published : EventBooks(m)'
      BY <1>published DEF EventBooks, Exists
    <2>7. QED
      BY <2>1, <2>2, <2>3, <2>4, <2>5, <2>6 DEF ServerSound
  <1>5. QED
    BY <1>1, <1>2, <1>3, <1>4

LEMMA DeleteSound ==
  ASSUME SystemInv, NEW d \in DeleteRequest, UNCHANGED consumerVars,
         \/ DeleteLatestForeign(d) \/ DeleteLatestRead(d) \/ \E a \in AvatarId : DeleteRead(d, a)
         \/ DeleteHide(d) \/ DeleteCrash(d)
  PROVE  ServerSound
  <1> USE DEF SystemInv, TypeOK, StorageTypeOK, ServiceTypeOK, uploadVars, storageVars, EndDelete
  <1>published. UNCHANGED published
    BY DEF consumerVars, historyVars
  <1>avatars. \A m \in published : m.avatar \in AvatarId
    BY EventFields DEF ConsumerInv, ConsumerTypeOK
  <1>keys. \A a \in AvatarId : {OriginalKey} \cup row[a].thumbs \in SUBSET Key
    BY DEF Row, Key
  <1>ctx. (\E o \in Outcome : DeleteCall(d, DatabaseFaults, o)) => delCtx' \in [DeleteRequest -> BOOLEAN]
    BY DEF DeleteCall
  <1>1. ASSUME UNCHANGED <<uploadVars, storageVars>>, del[d] # "publish", del[d] # "deleted",
               \/ \E a \in AvatarId : Capture(d, a)
               \/ \E label \in Refusal : Reject(d, label),
               delCtx' \in [DeleteRequest -> BOOLEAN]
        PROVE  ServerSound
    <2> USE <1>1 DEF Capture, Reject, Refusal
    <2>1. StorageTypeOK' /\ ServiceTypeOK'
      BY <1>keys DEF DeleteState
    <2>2. ObjectsStand /\ NoneReturns
      BY DEF ObjectsStand, NoneReturns, Exists, Visible
    <2>3. AdvertisedThumbnailsExist' /\ UploadedOriginalStored'
      BY DEF AdvertisedThumbnailsExist, UploadedOriginalStored, Visible
    <2>4. \A b \in AvatarId : UploadBooks(b)'
      BY DEF UploadBooks, UploadInFlight, Exists, Visible
    <2>5. \A e \in DeleteRequest : DeleteBooks(e)'
      BY DEF DeleteBooks, Won
    <2>6. \A m \in published : EventBooks(m)'
      BY <1>published DEF EventBooks, Exists
    <2>7. QED
      BY <2>1, <2>2, <2>3, <2>4, <2>5, <2>6 DEF ServerSound
  <1>2. CASE DeleteLatestRead(d)
    <2>1. LatestByUser(Requester[d]) \subseteq AvatarId
      BY DEF LatestByUser
    <2>2. QED
      BY <1>1, <1>2, <1>ctx, <2>1 DEF DeleteLatestRead, Refusal
  <1>3. ASSUME NEW a \in AvatarId, DeleteRead(d, a) PROVE ServerSound
    BY <1>1, <1>3, <1>ctx DEF DeleteRead, Refusal
  <1>4. CASE DeleteHide(d)
    <2>1. target[d] \in AvatarId /\ ~Won(d)
      BY <1>4 DEF DeleteHide, DeleteBooks, Won
    <2>pick. PICK o \in Outcome :
               /\ SoftDelete(target[d], o) /\ DeleteCall(d, DatabaseFaults, o)
               /\ IF o = "ok" /\ Visible(target[d])
                    THEN del' = [del EXCEPT ![d] = "publish"] /\ UNCHANGED delKeys
                    ELSE \E label \in Refusal : EndDelete(d, label)
               /\ UNCHANGED <<uploadVars, target>>
      BY <1>4 DEF DeleteHide, Refusal
    <2> HIDE DEF StorageTypeOK
    <2>w. /\ StorageTypeOK' /\ UNCHANGED object
          /\ \A b \in AvatarId :
               /\ row'[b].upload = row[b].upload /\ row'[b].thumbs = row[b].thumbs
               /\ row'[b].stage = row[b].stage
                    \/ (b = target[d] /\ Visible(b) /\ row'[b].stage = "deleted")
          /\ Applied(o) /\ Visible(target[d]) => row'[target[d]].stage = "deleted"
      BY <2>1, <2>pick, RowHidden
    <2> USE <2>w, <2>pick
    <2>2. \A b \in AvatarId :
            /\ row'[b].upload = row[b].upload /\ row'[b].thumbs = row[b].thumbs
            /\ row'[b].stage = row[b].stage
                 \/ (b = target[d] /\ Visible(b) /\ row'[b].stage = "deleted")
      OBVIOUS
    <2>3. StorageTypeOK' /\ ServiceTypeOK'
      BY <1>ctx DEF DeleteState, Refusal
    <2>4. ObjectsStand /\ NoneReturns
      BY <2>2 DEF ObjectsStand, NoneReturns, Exists, Visible
    <2>5. AdvertisedThumbnailsExist' /\ UploadedOriginalStored'
      BY <2>2 DEF AdvertisedThumbnailsExist, UploadedOriginalStored, Visible
    <2>6. \A b \in AvatarId : UploadBooks(b)'
      BY <2>2 DEF UploadBooks, UploadInFlight, Exists, Visible
    <2>7. \A e \in DeleteRequest : DeleteBooks(e)'
      <3>1. \A e \in DeleteRequest : Won(e) => target[e] \in AvatarId
        BY DEF DeleteBooks, Won
      <3>2. \A e \in DeleteRequest : Won(e)' <=> (Won(e) \/ (e = d /\ del'[d] = "publish"))
        BY <2>1 DEF Won, Refusal
      <3>3. del'[d] = "publish" =>
              /\ Visible(target[d]) /\ row'[target[d]].stage = "deleted"
        BY <2>1 DEF Applied, Refusal
      <3>4. \A e \in DeleteRequest : Won(e) => ~Visible(target[e])
        BY DEF DeleteBooks, Visible
      <3>5. \A e \in DeleteRequest : Won(e)' => row'[target[e]].stage = "deleted"
        BY <2>2, <3>1, <3>2, <3>3 DEF DeleteBooks, Visible
      <3>6. \A e, f \in DeleteRequest : Won(e)' /\ Won(f)' /\ target[e] = target[f] => e = f
        BY <3>2, <3>3, <3>4 DEF DeleteBooks
      <3>7. \A e \in DeleteRequest :
              del'[e] \in {"hide", "publish", "deleted"} => target[e] \in AvatarId
        BY <2>1 DEF DeleteBooks, Refusal
      <3>8. QED
        BY <3>5, <3>6, <3>7 DEF DeleteBooks, Won
    <2>8. \A m \in published : EventBooks(m)'
      <3>1. \A e \in DeleteRequest : del[e] = "deleted" => del'[e] = "deleted"
        BY <2>1 DEF Won
      <3>2. QED
        BY <2>2, <3>1, <1>published, <1>avatars DEF EventBooks, Exists, Visible
    <2>9. QED
      BY <2>3, <2>4, <2>5, <2>6, <2>7, <2>8 DEF ServerSound
  <1>5. CASE DeleteCrash(d)
    <2>1. StorageTypeOK' /\ ServiceTypeOK'
      BY <1>5 DEF DeleteCrash, DeleteState
    <2>2. ObjectsStand /\ NoneReturns
      BY <1>5 DEF DeleteCrash, ObjectsStand, NoneReturns, Exists, Visible
    <2>3. AdvertisedThumbnailsExist' /\ UploadedOriginalStored'
      BY <1>5 DEF DeleteCrash, AdvertisedThumbnailsExist, UploadedOriginalStored, Visible
    <2>4. \A b \in AvatarId : UploadBooks(b)'
      BY <1>5 DEF DeleteCrash, UploadBooks, UploadInFlight, Exists, Visible
    <2>5. \A e \in DeleteRequest : DeleteBooks(e)'
      BY <1>5 DEF DeleteCrash, DeleteBooks, Won
    <2>6. \A m \in published : EventBooks(m)'
      BY <1>5, <1>published DEF DeleteCrash, EventBooks, Exists
    <2>7. QED
      BY <2>1, <2>2, <2>3, <2>4, <2>5, <2>6 DEF ServerSound
  <1>6. CASE DeleteLatestForeign(d)
    BY <1>1, <1>6 DEF DeleteLatestForeign, Refusal
  <1>7. QED
    BY <1>2, <1>3, <1>4, <1>5, <1>6

-----------------------------------------------------------------------------
(* Publishing. *)

\* What a request announces when it publishes.
LEMMA Announced ==
  ASSUME SystemInv
  PROVE  /\ \A a \in AvatarId : UploadEvent(a) \in Message
         /\ \A d \in DeleteRequest :
              DeletePublish(d) => /\ target[d] \in AvatarId
                                  /\ DeleteEvent(target[d], delKeys[d]) \in Message
  <1>1. \A a \in AvatarId : UploadEvent(a) \in Message
    BY EventAssumption DEF Event
  <1>2. ASSUME NEW d \in DeleteRequest, DeletePublish(d)
        PROVE  target[d] \in AvatarId /\ delKeys[d] \in SUBSET Key
    BY <1>2 DEF SystemInv, DeleteBooks, DeletePublish, TypeOK, ServiceTypeOK
  <1>3. QED
    BY <1>1, <1>2, EventAssumption DEF Event

\* A publisher adds one new event to the published ones, or none.
LEMMA PublishedGrows ==
  ASSUME NEW m, Publish(m)
  PROVE  published' = published \/ (m \notin published /\ published' = published \cup {m})
  BY DEF Publish, Enqueue, consumerVars, historyVars

\* An upload's event speaks of its row, which exists by then.
LEMMA UploadPublishSound ==
  ASSUME SystemInv, NEW a \in AvatarId, UploadPublish(a), Publish(UploadEvent(a))
  PROVE  /\ StorageTypeOK' /\ ServiceTypeOK' /\ ObjectsStand /\ NoneReturns
         /\ AdvertisedThumbnailsExist' /\ UploadedOriginalStored'
         /\ \A b \in AvatarId : UploadBooks(b)'
         /\ \A d \in DeleteRequest : DeleteBooks(d)'
         /\ \A m \in published' : EventBooks(m)'
  <1> USE DEF UploadPublish, storageVars, deleteVars
  <1>1. StorageTypeOK' /\ ServiceTypeOK'
    BY DEF SystemInv, TypeOK, StorageTypeOK, ServiceTypeOK, UploadState
  <1>2. ObjectsStand /\ NoneReturns
    BY DEF ObjectsStand, NoneReturns, Visible
  <1>3. AdvertisedThumbnailsExist' /\ UploadedOriginalStored'
    BY DEF SystemInv, AdvertisedThumbnailsExist, UploadedOriginalStored, Visible
  <1>4. \A b \in AvatarId : UploadBooks(b)'
    BY DEF SystemInv, TypeOK, ServiceTypeOK, UploadBooks, UploadInFlight, Exists, Visible
  <1>5. \A d \in DeleteRequest : DeleteBooks(d)'
    BY DEF SystemInv, DeleteBooks, Won
  <1>6. \A m \in published' : EventBooks(m)'
    <2>1. Exists(a)
      BY DEF SystemInv, UploadBooks, UploadInFlight
    <2>2. UploadEvent(a).kind = "upload" /\ UploadEvent(a).avatar = a
      BY DEF UploadEvent
    <2>3. published' \subseteq published \cup {UploadEvent(a)}
      BY PublishedGrows
    <2>4. \A m \in published : EventBooks(m)
      BY DEF SystemInv
    <2>5. QED
      BY <2>1, <2>2, <2>3, <2>4 DEF EventBooks, Exists
  <1>7. QED
    BY <1>1, <1>2, <1>3, <1>4, <1>5, <1>6

\* A deletion's event is the only one of its avatar: its request alone won.
LEMMA DeletePublishSound ==
  ASSUME SystemInv, NEW d \in DeleteRequest, DeletePublish(d),
         Publish(DeleteEvent(target[d], delKeys[d]))
  PROVE  /\ StorageTypeOK' /\ ServiceTypeOK' /\ ObjectsStand /\ NoneReturns
         /\ AdvertisedThumbnailsExist' /\ UploadedOriginalStored'
         /\ \A b \in AvatarId : UploadBooks(b)'
         /\ \A e \in DeleteRequest : DeleteBooks(e)'
         /\ \A m \in published' : EventBooks(m)'
  <1> USE DEF DeletePublish, storageVars, uploadVars, EndDelete
  <1>del. /\ del \in [DeleteRequest -> DeleteState] /\ del[d] = "publish"
          /\ del' = [del EXCEPT ![d] = "deleted"] /\ target' = target
    BY DEF SystemInv, TypeOK, ServiceTypeOK
  <1>1. StorageTypeOK' /\ ServiceTypeOK'
    BY DEF SystemInv, TypeOK, StorageTypeOK, ServiceTypeOK, DeleteState
  <1>2. ObjectsStand /\ NoneReturns
    BY DEF ObjectsStand, NoneReturns, Visible
  <1>3. AdvertisedThumbnailsExist' /\ UploadedOriginalStored'
    BY DEF SystemInv, AdvertisedThumbnailsExist, UploadedOriginalStored, Visible
  <1>4. \A b \in AvatarId : UploadBooks(b)'
    BY DEF SystemInv, UploadBooks, UploadInFlight, Exists, Visible
  <1>5. \A e \in DeleteRequest : DeleteBooks(e)'
    <2>1. \A e \in DeleteRequest : Won(e)' <=> Won(e)
      BY <1>del DEF Won
    <2>2. QED
      BY <1>del, <2>1 DEF SystemInv, DeleteBooks, Won
  <1>6. \A m \in published' : EventBooks(m)'
    <2> DEFINE new == DeleteEvent(target[d], delKeys[d])
    <2>1. new.kind = "delete" /\ new.avatar = target[d]
      BY DEF DeleteEvent
    <2>2. row[target[d]].stage = "deleted"
      BY <1>del DEF SystemInv, DeleteBooks, Won
    <2>3. \A m \in published : EventBooks(m)
      BY DEF SystemInv
    <2>4. \A e \in DeleteRequest : del[e] = "deleted" => target[e] # target[d]
      BY <1>del DEF SystemInv, DeleteBooks, Won
    <2>5. \A m \in published : m.kind = "delete" => m.avatar # target[d]
      BY <2>3, <2>4 DEF EventBooks
    <2>6. published' \subseteq published \cup {new}
      BY PublishedGrows
    <2>7. \A e \in DeleteRequest : del[e] = "deleted" => del'[e] = "deleted"
      BY <1>del
    <2>8. del'[d] = "deleted"
      BY <1>del
    <2> HIDE DEF new
    <2>9. ASSUME NEW m \in published' PROVE EventBooks(m)'
      <3>1. Exists(m.avatar)'
        BY <2>1, <2>2, <2>3, <2>6 DEF EventBooks, Exists
      <3>2. ASSUME m.kind = "delete"
            PROVE  /\ row'[m.avatar].stage = "deleted"
                   /\ \E e \in DeleteRequest : del'[e] = "deleted" /\ target'[e] = m.avatar
        BY <1>del, <2>1, <2>2, <2>3, <2>6, <2>7, <2>8, <3>2 DEF EventBooks
      <3>3. \A n \in published' :
              m.kind = "delete" /\ n.kind = "delete" /\ m.avatar = n.avatar => m = n
        BY <2>1, <2>3, <2>5, <2>6 DEF EventBooks
      <3>4. QED
        BY <3>1, <3>2, <3>3 DEF EventBooks
    <2>10. QED
      BY <2>9
  <1>7. QED
    BY <1>1, <1>2, <1>3, <1>4, <1>5, <1>6

-----------------------------------------------------------------------------
(* The system drives the consumer: its steps are steps of module Consumer. *)

LEMMA ConsumerSide ==
  ASSUME SystemInv, [SystemNext]_vars
  PROVE  [Next]_consumerVars
  <1> SUFFICES ASSUME ~UNCHANGED consumerVars
               PROVE  Next
    OBVIOUS
  <1>types. /\ \A l \in Loop : \A m \in buffer[l] : m \in Message
            /\ \A m \in ready : m \in Message
    BY DEF SystemInv, ConsumerInv, ConsumerTypeOK
  <1>1. CASE UNCHANGED vars
    BY <1>1 DEF vars
  <1>2. CASE NewRequest \/ ServerCrash
    BY <1>2 DEF NewRequest, ServerCrash
  <1>3. ASSUME NEW a \in AvatarId, UploadStep(a) PROVE Next
    BY <1>3, Announced DEF UploadStep, Publish, Next
  <1>4. ASSUME NEW d \in DeleteRequest, DeleteStep(d) PROVE  Next
    BY <1>4, Announced DEF DeleteStep, Publish, Next
  <1>5. ASSUME NEW l \in Loop, WorkerLoopStep(l) PROVE Next
    <2>1. ASSUME NEW m \in buffer[l], TakeAndHandle(l, m) PROVE Next
      BY <1>types, <2>1 DEF TakeAndHandle, Next, LoopStep
    <2>2. CASE RetryHandler(l)
      BY <2>2 DEF RetryHandler, Next, LoopStep
    <2>3. CASE PlainLoopStep(l)
      BY <2>3 DEF Next, LoopStep
    <2>4. CASE HandlerCall(l)
      <3>1. HandlerOK(l) \/ HandlerFails(l) \/ CallbackReturns(l)
        BY <2>4 DEF HandlerCall, ReadAvatar, MarkProcessing, FetchOriginal, StoreThumbnail,
          RemoveObject, RejectOriginal, SaveThumbnails, MarkDeleted, UploadFailed,
          Finish, Succeed, Fail, Continue
      <3>2. QED
        BY <3>1 DEF HandlerStep, LoopStep, Next
    <2>5. QED
      BY <1>5, <2>1, <2>2, <2>3, <2>4 DEF WorkerLoopStep
  <1>6. ASSUME NEW l \in Loop, BrokerStep(l) PROVE Next
    BY <1>6, <1>types DEF BrokerStep, Next
  <1>7. ASSUME NEW w \in Worker, WorkerRunStep(w) PROVE Next
    BY <1>7 DEF WorkerRunStep, Next
  <1>8. ASSUME NEW w \in Worker, WorkerDisruption(w) PROVE Next
    BY <1>8 DEF WorkerDisruption, Next, Disruption
  <1>9. QED
    BY <1>1, <1>2, <1>3, <1>4, <1>5, <1>6, <1>7, <1>8 DEF SystemNext

-----------------------------------------------------------------------------
(* The worker's steps. *)

\* A step of a worker that does not hurt the stores keeps the server's books.
LEMMA WorkerStepKeeps ==
  ASSUME SystemInv, ConsumerInv', StoresStep, UNCHANGED serviceVars, UNCHANGED published,
         ProcessorTypeOK', \A l \in Loop : HandlerBooks(l)'
  PROVE  SystemInv'
  <1> USE DEF serviceVars, uploadVars, deleteVars, StoresStep, RowsStand
  <1>avatars. \A m \in published : m.avatar \in AvatarId
    BY EventFields DEF SystemInv, ConsumerInv, ConsumerTypeOK
  <1>1. TypeOK'
    BY DEF SystemInv, TypeOK, ConsumerInv, ServiceTypeOK
  <1>2. \A a \in AvatarId : UploadBooks(a)'
    BY DEF SystemInv, UploadBooks, UploadInFlight, Exists, Visible, ObjectsStand
  <1>3. \A d \in DeleteRequest : DeleteBooks(d)'
    BY DEF SystemInv, DeleteBooks, Won
  <1>4. \A m \in published' : EventBooks(m)'
    BY <1>avatars DEF SystemInv, EventBooks, Exists
  <1>5. QED
    BY <1>1, <1>2, <1>3, <1>4 DEF SystemInv

\* A handler's step.
LEMMA HandlerStepKeeps ==
  ASSUME SystemInv, ConsumerInv', NEW l \in Loop, UNCHANGED serviceVars,
         \/ \E m \in buffer[l] : TakeAndHandle(l, m)
         \/ RetryHandler(l)
         \/ HandlerCall(l)
  PROVE  SystemInv'
  <1>1. HandlerSound(l)
    BY HandlerStepSound
  <1>2. NoneReturns /\ ObjectsStand
    BY <1>1 DEF HandlerSound, StoresStep, RowsStand, NoneReturns, Visible
  <1>3. \A k \in Loop \ {l} : HandlerBooks(k)'
    BY <1>1, <1>2, HandlerBooksKept DEF HandlerSound, OthersUntouched
  <1>4. UNCHANGED published
    BY DEF TakeAndHandle, Take, RetryHandler, Retry, HandlerCall, ReadAvatar, MarkProcessing,
      FetchOriginal, StoreThumbnail, RemoveObject, RejectOriginal, SaveThumbnails, MarkDeleted,
      UploadFailed, CallbackReturns, Finish, Succeed, Fail, HandlerOK, HandlerFails, Continue,
      consumerVars, historyVars
  <1>5. QED
    BY <1>1, <1>3, <1>4, WorkerStepKeeps DEF HandlerSound

\* A step of a loop outside its handler, of the broker or of the process: what
\* a handler works on does not change under it.
LEMMA OutsideStepKeeps ==
  ASSUME SystemInv, ConsumerInv', UNCHANGED <<storageVars, serviceVars, published>>,
         ProcessorTypeOK',
         \A l \in Loop :
           \/ /\ step'[l] = step[l] /\ todo'[l] = todo[l]
              /\ pc'[l] = pc[l] /\ cur'[l] = cur[l]
           \/ step'[l] = "none" /\ pc'[l] # "handle"
  PROVE  SystemInv'
  <1>1. StoresStep
    BY StoresAfterSkip
  <1>2. NoneReturns /\ ObjectsStand
    BY <1>1 DEF StoresStep, RowsStand, NoneReturns, Visible
  <1>3. \A l \in Loop : HandlerBooks(l)'
    <2>1. ASSUME NEW l \in Loop, step'[l] = "none", pc'[l] # "handle" PROVE HandlerBooks(l)'
      BY <2>1 DEF HandlerBooks
    <2>2. QED
      BY <1>2, <2>1, HandlerBooksKept
  <1>4. QED
    BY <1>1, <1>3, WorkerStepKeeps

-----------------------------------------------------------------------------
(* The invariant. *)

LEMMA SystemInit ==
  ASSUME Init
  PROVE  SystemInv
  <1> USE DEF Init, StorageInit, ServiceInit, ConsumerInit, ProcessorInit
  <1>1. ConsumerInv
    BY InitInv
  <1>2. TypeOK
    <2>1. StorageTypeOK
      BY DEF StorageTypeOK, FreshRow, Row, UploadStatus, ProcessingStatus
    <2>2. ServiceTypeOK
      BY DEF ServiceTypeOK, UploadState, DeleteState
    <2>3. ProcessorTypeOK
      BY DEF ProcessorTypeOK, Step
    <2>4. QED
      BY <1>1, <2>1, <2>2, <2>3 DEF TypeOK, ConsumerInv
  <1>3. \A a \in AvatarId : row[a].stage = "absent"
    BY DEF FreshRow
  <1>4. \A a \in AvatarId : UploadBooks(a)
    BY <1>3 DEF UploadBooks, UploadInFlight
  <1>5. \A d \in DeleteRequest : DeleteBooks(d)
    BY DEF DeleteBooks, Won
  <1>6. \A m \in published : EventBooks(m)
    OBVIOUS
  <1>7. \A l \in Loop : HandlerBooks(l)
    BY DEF HandlerBooks
  <1>8. AdvertisedThumbnailsExist /\ UploadedOriginalStored
    BY <1>3 DEF AdvertisedThumbnailsExist, UploadedOriginalStored, Visible
  <1>9. QED
    BY <1>1, <1>2, <1>4, <1>5, <1>6, <1>7, <1>8 DEF SystemInv

LEMMA SystemStep ==
  ASSUME SystemInv, [SystemNext]_vars
  PROVE  SystemInv'
  <1>consumer. ConsumerInv'
    BY ConsumerSide, StepInv DEF SystemInv
  <1>types. /\ ConsumerTypeOK' /\ ProcessorTypeOK
            /\ pc \in [Loop -> LoopState] /\ cur \in [Loop -> Message \cup {NoMessage}]
            /\ step \in [Loop -> Step]
            /\ \A l \in Loop : step[l] # "none" <=> pc[l] = "handle"
    BY <1>consumer DEF SystemInv, ConsumerInv, ConsumerTypeOK, TypeOK, ProcessorTypeOK, HandlerBooks
  <1>1. CASE UNCHANGED vars
    BY <1>1, <1>consumer, <1>types, OutsideStepKeeps
      DEF vars, processorVars, consumerVars, historyVars, loopVars, ProcessorTypeOK
  <1>handlers. ASSUME NoneReturns, ObjectsStand, UNCHANGED <<step, todo, pc, cur>>
               PROVE  ProcessorTypeOK' /\ \A l \in Loop : HandlerBooks(l)'
    BY <1>handlers, <1>types, HandlerBooksKept DEF ProcessorTypeOK
  <1>server. ASSUME ServerSound, UNCHANGED <<consumerVars, processorVars>> PROVE SystemInv'
    <2>1. UNCHANGED <<step, todo, pc, cur, published>>
      BY <1>server DEF consumerVars, processorVars, loopVars, historyVars
    <2>2. ProcessorTypeOK' /\ \A l \in Loop : HandlerBooks(l)'
      BY <1>handlers, <1>server, <2>1 DEF ServerSound
    <2>3. QED
      BY <1>consumer, <1>types, <1>server, <2>1, <2>2 DEF ServerSound, SystemInv, TypeOK
  <1>2. CASE NewRequest
    BY <1>2, <1>server, UploadSound, DeleteSound DEF NewRequest
  <1>3. CASE ServerCrash
    BY <1>3, <1>server, UploadSound, DeleteSound DEF ServerCrash
  <1>publish. ASSUME NEW m, Publish(m) PROVE UNCHANGED <<step, todo, pc, cur>>
    BY <1>publish DEF Publish, Enqueue, consumerVars, loopVars, processorVars
  <1>4. ASSUME NEW a \in AvatarId, UploadStep(a) PROVE SystemInv'
    <2>1. CASE UploadPublish(a) /\ Publish(UploadEvent(a))
      <3>1. NoneReturns /\ ObjectsStand
        BY <2>1, UploadPublishSound
      <3>2. ProcessorTypeOK' /\ \A l \in Loop : HandlerBooks(l)'
        BY <1>handlers, <1>publish, <2>1, <3>1
      <3>3. QED
        BY <1>consumer, <1>types, <2>1, <3>2, UploadPublishSound DEF SystemInv, TypeOK
    <2>2. QED
      BY <1>4, <1>server, <2>1, UploadSound DEF UploadStep
  <1>5. ASSUME NEW d \in DeleteRequest, DeleteStep(d) PROVE SystemInv'
    <2>1. CASE DeletePublish(d) /\ Publish(DeleteEvent(target[d], delKeys[d]))
      <3>1. NoneReturns /\ ObjectsStand
        BY <2>1, DeletePublishSound
      <3>2. ProcessorTypeOK' /\ \A l \in Loop : HandlerBooks(l)'
        BY <1>handlers, <1>publish, <2>1, <3>1
      <3>3. QED
        BY <1>consumer, <1>types, <2>1, <3>2, DeletePublishSound DEF SystemInv, TypeOK
    <2>2. QED
      BY <1>5, <1>server, <2>1, DeleteSound DEF DeleteStep
  <1>6. ASSUME NEW l \in Loop, WorkerLoopStep(l) PROVE SystemInv'
    <2>1. CASE PlainLoopStep(l) /\ UNCHANGED <<storageVars, processorVars>>
      <3>1. UNCHANGED published /\ pc[l] # "handle" /\ pc'[l] # "handle"
            /\ \A k \in Loop \ {l} : pc'[k] = pc[k] /\ cur'[k] = cur[k]
        BY <1>types, <2>1 DEF PlainLoopStep, StopLoop, LoseChannel, BackoffCanceled, Ack, Requeue,
          GiveUp, Bury, Release, Goto, historyVars
      <3>2. QED
        BY <1>6, <1>consumer, <1>types, <2>1, <3>1, OutsideStepKeeps
          DEF WorkerLoopStep, processorVars, ProcessorTypeOK
    <2>2. QED
      BY <1>6, <1>consumer, <2>1, HandlerStepKeeps DEF WorkerLoopStep
  <1>7. ASSUME NEW l \in Loop, BrokerStep(l) PROVE SystemInv'
    BY <1>7, <1>consumer, <1>types, OutsideStepKeeps
      DEF BrokerStep, Deliver, processorVars, historyVars, ProcessorTypeOK
  <1>8. ASSUME NEW w \in Worker, WorkerRunStep(w) PROVE SystemInv'
    <2>1. UNCHANGED <<storageVars, serviceVars, published, step, todo, cur>>
      BY <1>8 DEF WorkerRunStep, RunStep, CloseConn, Restart, loopVars, historyVars, processorVars
    <2>2. \A l \in Loop : pc'[l] = pc[l] \/ (pc[l] # "handle" /\ pc'[l] # "handle")
      BY <1>8, <1>types DEF WorkerRunStep, RunStep, CloseConn, Restart, LoopsOf, loopVars
    <2>3. QED
      BY <1>consumer, <1>types, <2>1, <2>2, OutsideStepKeeps DEF ProcessorTypeOK
  <1>9. ASSUME NEW w \in Worker, WorkerDisruption(w) PROVE SystemInv'
    <2>1. UNCHANGED <<storageVars, serviceVars, published>>
      BY <1>9 DEF WorkerDisruption, Terminate, LoseConn, Crash, historyVars
    <2>2. ProcessorTypeOK'
      BY <1>9, <1>types DEF WorkerDisruption, ProcessorTypeOK, processorVars, Step
    <2>3. \A l \in Loop :
            \/ /\ step'[l] = step[l] /\ todo'[l] = todo[l]
               /\ pc'[l] = pc[l] /\ cur'[l] = cur[l]
            \/ step'[l] = "none" /\ pc'[l] # "handle"
      BY <1>9, <1>types DEF WorkerDisruption, Terminate, LoseConn, Crash, loopVars, processorVars
    <2>4. QED
      BY <1>consumer, <2>1, <2>2, <2>3, OutsideStepKeeps
  <1>10. QED
    BY <1>1, <1>2, <1>3, <1>4, <1>5, <1>6, <1>7, <1>8, <1>9 DEF SystemNext

\* SystemInvariant: the books of the requests, of the events and of the handlers
\* hold in every state of the system.
THEOREM SystemInvariant == SystemSpec => []SystemInv
  BY SystemInit, SystemStep, PTL DEF SystemSpec

\* SystemTypes: every variable of the system keeps its type.
THEOREM SystemTypes == SystemSpec => []TypeOK
  <1>1. SystemInv => TypeOK
    BY DEF SystemInv
  <1>2. QED
    BY <1>1, SystemInvariant, PTL

\* ThumbnailsAdvertisedExist: with any number of workers, retries, redeliveries,
\* crashes and faults of the stores, a live record never shows a thumbnail key
\* without an object.
THEOREM ThumbnailsAdvertisedExist == SystemSpec => []AdvertisedThumbnailsExist
  <1>1. SystemInv => AdvertisedThumbnailsExist
    BY DEF SystemInv
  <1>2. QED
    BY <1>1, SystemInvariant, PTL

\* OriginalsStored: a live record that says "uploaded" has its original.
THEOREM OriginalsStored == SystemSpec => []UploadedOriginalStored
  <1>1. SystemInv => UploadedOriginalStored
    BY DEF SystemInv
  <1>2. QED
    BY <1>1, SystemInvariant, PTL

\* DeletionsUnique: of all deletions of an avatar one at most succeeds, and one
\* delete event at most is ever published for it.
THEOREM DeletionsUnique == SystemSpec => []OneDeletion
  <1>1. SystemInv => OneDeletion
    BY DEF SystemInv, OneDeletion, DeleteBooks, EventBooks, Won
  <1>2. QED
    BY <1>1, SystemInvariant, PTL

-----------------------------------------------------------------------------
(* Whose avatars are hidden. *)

\* A step that hides no row and lets the requests keep their avatars.
LEMMA OwnKept ==
  ASSUME SystemInv, OwnInv, UNCHANGED <<del, target>>,
         \A a \in AvatarId : row'[a].stage = "deleted" => row[a].stage = "deleted"
  PROVE  OwnInv'
  BY DEF OwnInv, OwnAvatarsOnly, OwnBooks

\* An upload hides nothing: its row is new, or keeps its stage.
LEMMA UploadOwn ==
  ASSUME SystemInv, OwnInv, NEW a \in AvatarId,
         \/ UploadCreate(a) \/ UploadPut(a) \/ UploadMarkFailed(a)
         \/ UploadMarkUploaded(a) \/ UploadPublish(a) \/ UploadCrash(a)
  PROVE  OwnInv'
  <1>types. StorageTypeOK
    BY DEF SystemInv, TypeOK
  <1>1. UNCHANGED <<del, target>>
    BY DEF UploadCreate, UploadPut, UploadMarkFailed, UploadMarkUploaded, UploadPublish,
      UploadCrash, UploadCall, deleteVars
  <1>2. CASE UploadCreate(a)
    <2>1. \/ UNCHANGED row
          \/ \E t \in {clock, clock + 1} : row' = [row EXCEPT ![a] = FreshRow(t)]
      BY <1>2 DEF UploadCreate, Create
    <2>2. QED
      BY <1>types, <1>1, <2>1, OwnKept DEF StorageTypeOK, FreshRow
  <1>3. CASE UploadMarkFailed(a) \/ UploadMarkUploaded(a)
    BY <1>types, <1>1, <1>3, UploadStatusWritten, OwnKept
      DEF UploadMarkFailed, UploadMarkUploaded, UploadStatus
  <1>4. CASE UploadPut(a) \/ UploadPublish(a) \/ UploadCrash(a)
    BY <1>1, <1>4, OwnKept DEF UploadPut, UploadPublish, UploadCrash, Put, storageVars
  <1>5. QED
    BY <1>2, <1>3, <1>4

\* A deletion chooses an avatar of its user once, and hides that one only.
LEMMA DeleteOwn ==
  ASSUME SystemInv, OwnInv, NEW d \in DeleteRequest,
         \/ DeleteLatestForeign(d) \/ DeleteLatestRead(d) \/ \E a \in AvatarId : DeleteRead(d, a)
         \/ DeleteHide(d) \/ DeletePublish(d) \/ DeleteCrash(d)
  PROVE  OwnInv'
  <1>types. StorageTypeOK /\ ServiceTypeOK
    BY DEF SystemInv, TypeOK
  <1> USE <1>types, NoAvatarAssumption DEF ServiceTypeOK
  <1>1. ASSUME UNCHANGED row, NEW a \in AvatarId, Capture(d, a),
               del[d] = "none", Owner[a] = Requester[d]
        PROVE  OwnInv'
    BY <1>1 DEF OwnInv, OwnAvatarsOnly, OwnBooks, Capture
  <1>2. ASSUME UNCHANGED <<row, target>>, NEW label \in DeleteState \ {"none"}, EndDelete(d, label)
        PROVE  OwnInv'
    BY <1>2 DEF OwnInv, OwnAvatarsOnly, OwnBooks, EndDelete
  <1>3. CASE DeleteLatestForeign(d)
    BY <1>2, <1>3 DEF DeleteLatestForeign, Reject, DeleteState, storageVars
  <1>4. CASE DeleteLatestRead(d)
    <2>1. \A a \in LatestByUser(Requester[d]) : a \in AvatarId /\ Owner[a] = Requester[d]
      BY DEF LatestByUser
    <2>2. QED
      BY <1>1, <1>2, <1>4, <2>1 DEF DeleteLatestRead, Reject, DeleteState, storageVars
  <1>5. ASSUME NEW a \in AvatarId, DeleteRead(d, a) PROVE OwnInv'
    BY <1>1, <1>2, <1>5 DEF DeleteRead, Reject, DeleteState, storageVars
  <1>6. CASE DeleteHide(d)
    <2>1. target[d] \in AvatarId /\ UNCHANGED target
      BY <1>6 DEF DeleteHide, SystemInv, DeleteBooks
    <2>2. \A a \in AvatarId : row'[a].stage = row[a].stage \/ a = target[d]
      BY <1>6, <2>1, RowHidden DEF DeleteHide
    <2>3. \A e \in DeleteRequest : del[e] # "none" => del'[e] # "none"
      BY <1>6 DEF DeleteHide, EndDelete
    <2>4. QED
      BY <2>1, <2>2, <2>3 DEF OwnInv, OwnAvatarsOnly, OwnBooks
  <1>7. CASE DeletePublish(d) \/ DeleteCrash(d)
    BY <1>2, <1>7 DEF DeletePublish, DeleteCrash, DeleteState, storageVars
  <1>8. QED
    BY <1>3, <1>4, <1>5, <1>6, <1>7

LEMMA OwnStep ==
  ASSUME SystemInv, OwnInv, [SystemNext]_vars
  PROVE  OwnInv'
  <1>still. ASSUME UNCHANGED <<storageVars, serviceVars>> PROVE OwnInv'
    BY <1>still, OwnKept DEF storageVars, serviceVars, deleteVars
  <1>1. CASE UNCHANGED vars
    BY <1>1, <1>still DEF vars
  <1>2. CASE NewRequest \/ ServerCrash
    BY <1>2, UploadOwn, DeleteOwn DEF NewRequest, ServerCrash
  <1>3. ASSUME NEW a \in AvatarId, UploadStep(a) PROVE OwnInv'
    BY <1>3, UploadOwn DEF UploadStep
  <1>4. ASSUME NEW d \in DeleteRequest, DeleteStep(d) PROVE OwnInv'
    BY <1>4, DeleteOwn DEF DeleteStep
  <1>5. ASSUME NEW l \in Loop, WorkerLoopStep(l) PROVE OwnInv'
    <2>1. UNCHANGED <<del, target>>
      BY <1>5 DEF WorkerLoopStep, serviceVars, deleteVars
    <2>2. \A a \in AvatarId : row'[a].stage = row[a].stage
      BY <1>5, HandlerStepSound DEF WorkerLoopStep, HandlerSound, StoresStep, RowsStand, storageVars
    <2>3. QED
      BY <2>1, <2>2, OwnKept
  <1>6. CASE \/ \E l \in Loop : BrokerStep(l)
             \/ \E w \in Worker : WorkerRunStep(w) \/ WorkerDisruption(w)
    BY <1>6, <1>still DEF BrokerStep, WorkerRunStep, WorkerDisruption
  <1>7. QED
    BY <1>1, <1>2, <1>3, <1>4, <1>5, <1>6 DEF SystemNext

\* DeletionsOwned: with any number of requests by id and by latest, a hidden
\* avatar was chosen by a request of its own user.
THEOREM DeletionsOwned == SystemSpec => []OwnAvatarsOnly
  <1>1. Init => OwnInv
    BY NoAvatarAssumption
      DEF Init, StorageInit, ServiceInit, FreshRow, OwnInv, OwnAvatarsOnly, OwnBooks
  <1>2. SystemInv /\ OwnInv /\ [SystemNext]_vars => OwnInv'
    BY OwnStep
  <1>3. OwnInv => OwnAvatarsOnly
    BY DEF OwnInv
  <1>4. QED
    BY <1>1, <1>2, <1>3, SystemInvariant, PTL DEF SystemSpec

-----------------------------------------------------------------------------
(* What a request writes, whichever it is. *)

\* A step of the server.
RequestCall ==
  \/ \E a \in AvatarId :
       \/ UploadCreate(a) \/ UploadPut(a) \/ UploadMarkFailed(a)
       \/ UploadMarkUploaded(a) \/ UploadPublish(a) \/ UploadCrash(a)
  \/ \E d \in DeleteRequest :
       \/ DeleteLatestForeign(d) \/ DeleteLatestRead(d) \/ \E a \in AvatarId : DeleteRead(d, a)
       \/ DeleteHide(d) \/ DeletePublish(d) \/ DeleteCrash(d)

\* What it may do to a record: only the upload status and the stage of an old one
\* change, and a new one is fresh.
Served(a) ==
  IF Exists(a)
    THEN /\ row'[a].processing = row[a].processing
         /\ row'[a].thumbs = row[a].thumbs
         /\ row'[a].created = row[a].created
         /\ row'[a].stage = row[a].stage \/ (Visible(a) /\ row'[a].stage = "deleted")
    ELSE row'[a] \in {row[a], FreshRow(clock')}

LEMMA RequestOrWorker ==
  ASSUME [SystemNext]_vars
  PROVE  \/ RequestCall
         \/ \E l \in Loop : WorkerLoopStep(l)
         \/ UNCHANGED <<storageVars, serviceVars>>
  BY DEF SystemNext, vars, NewRequest, ServerCrash, UploadStep, DeleteStep, BrokerStep,
    WorkerRunStep, WorkerDisruption, RequestCall

LEMMA RequestWrites ==
  ASSUME SystemInv, RequestCall
  PROVE  /\ \A b \in AvatarId : Served(b) /\ object'[b] \subseteq object[b] \cup {OriginalKey}
         /\ clock' \in {clock, clock + 1}
  <1>types. StorageTypeOK
    BY DEF SystemInv, TypeOK
  <1>1. ASSUME UNCHANGED storageVars PROVE \A b \in AvatarId : Served(b)
    BY <1>1 DEF Served, storageVars
  <1>2. ASSUME NEW a \in AvatarId, UploadCreate(a)
        PROVE  /\ \A b \in AvatarId : Served(b)
               /\ UNCHANGED object /\ clock' \in {clock, clock + 1}
    <2>1. row[a].stage = "absent" /\ UNCHANGED object
      BY <1>2 DEF UploadCreate, UploadCall, Create, SystemInv, UploadBooks
    <2>2. \/ UNCHANGED <<row, clock>>
          \/ clock' \in {clock, clock + 1} /\ row' = [row EXCEPT ![a] = FreshRow(clock')]
      BY <1>2 DEF UploadCreate, Create
    <2>3. \A b \in AvatarId : b # a => row'[b] = row[b]
      BY <1>types, <2>2 DEF StorageTypeOK
    <2>4. row'[a] \in {row[a], FreshRow(clock')}
      BY <1>types, <2>2 DEF StorageTypeOK
    <2>5. QED
      BY <2>1, <2>2, <2>3, <2>4 DEF Served, Exists, Visible
  <1>3. ASSUME NEW a \in AvatarId, UploadPut(a)
        PROVE  /\ UNCHANGED <<row, clock>>
               /\ \A b \in AvatarId : object'[b] \subseteq object[b] \cup {OriginalKey}
    BY <1>3, <1>types DEF UploadPut, Put, StorageTypeOK
  <1>4. ASSUME NEW a \in AvatarId, UploadMarkFailed(a) \/ UploadMarkUploaded(a)
        PROVE  (\A b \in AvatarId : Served(b)) /\ UNCHANGED <<object, clock>>
    <2>1. PICK o \in Outcome, status \in UploadStatus : SetUploadStatus(a, status, o)
      BY <1>4 DEF UploadMarkFailed, UploadMarkUploaded, UploadStatus
    <2>2. \A b \in AvatarId : /\ row'[b].processing = row[b].processing
                              /\ row'[b].thumbs = row[b].thumbs
                              /\ row'[b].created = row[b].created
                              /\ row'[b].stage = row[b].stage
                              /\ ~Exists(b) => row'[b] = row[b]
      BY <1>types, <2>1 DEF SetUploadStatus, Update, StorageTypeOK, Row
    <2>3. QED
      BY <2>1, <2>2 DEF SetUploadStatus, Update, Served
  <1>5. ASSUME NEW d \in DeleteRequest, DeleteHide(d)
        PROVE  (\A b \in AvatarId : Served(b)) /\ UNCHANGED <<object, clock>>
    <2>1. PICK o \in Outcome : SoftDelete(target[d], o)
      BY <1>5 DEF DeleteHide
    <2>2. target[d] \in AvatarId
      BY <1>5 DEF DeleteHide, SystemInv, DeleteBooks
    <2>3. \A b \in AvatarId : /\ row'[b].processing = row[b].processing
                              /\ row'[b].thumbs = row[b].thumbs
                              /\ row'[b].created = row[b].created
                              /\ row'[b].stage = row[b].stage
                                   \/ (Visible(b) /\ row'[b].stage = "deleted")
                              /\ ~Exists(b) => row'[b] = row[b]
      BY <1>types, <2>1, <2>2 DEF SoftDelete, Update, StorageTypeOK, Row, Visible, Exists
    <2>4. QED
      BY <2>1, <2>3 DEF SoftDelete, Update, Served
  <1>6. ASSUME NEW a \in AvatarId, UploadPublish(a) \/ UploadCrash(a)
        PROVE  UNCHANGED storageVars
    BY <1>6 DEF UploadPublish, UploadCrash
  <1>7. ASSUME NEW d \in DeleteRequest,
               \/ DeleteLatestForeign(d) \/ DeleteLatestRead(d) \/ \E a \in AvatarId : DeleteRead(d, a)
               \/ DeletePublish(d) \/ DeleteCrash(d)
        PROVE  UNCHANGED storageVars
    BY <1>7 DEF DeleteLatestForeign, DeleteLatestRead, DeleteRead, DeletePublish, DeleteCrash
  <1>8. ASSUME UNCHANGED row PROVE \A b \in AvatarId : Served(b)
    BY <1>8 DEF Served
  <1>9. QED
    BY <1>2, <1>3, <1>4, <1>5, <1>6, <1>7, <1>8 DEF RequestCall, storageVars

\* What a worker writes, whichever call it is: to the avatar of its event, which
\* exists, and there only what the server leaves to it.
LEMMA WorkerWrites ==
  ASSUME SystemInv, NEW l \in Loop, WorkerLoopStep(l)
  PROVE  /\ UNCHANGED clock
         /\ \A b \in AvatarId :
              /\ row'[b].stage = row[b].stage /\ row'[b].upload = row[b].upload
              /\ row'[b].created = row[b].created
              /\ row'[b] # row[b] \/ object'[b] # object[b] =>
                   b = Goal(l) /\ Exists(b) /\ pc[l] \in {"handle", "callback"}
  <1>types. StorageTypeOK
    BY DEF SystemInv, TypeOK
  <1>goal. pc[l] \in {"handle", "callback"} => Goal(l) \in AvatarId /\ Exists(Goal(l))
    BY HandlerGoal
  <1> DEFINE Sound(a) ==
    /\ UNCHANGED clock
    /\ \A b \in AvatarId :
         /\ row'[b].stage = row[b].stage /\ row'[b].upload = row[b].upload
         /\ row'[b].created = row[b].created
         /\ row'[b] # row[b] \/ object'[b] # object[b] => b = a
  <1>1. ASSUME UNCHANGED storageVars PROVE Sound(Goal(l))
    BY <1>1 DEF storageVars
  <1>2. ASSUME NEW a \in AvatarId, NEW o, NEW status, SetProcessingStatus(a, status, o)
        PROVE  Sound(a)
    BY <1>types, <1>2 DEF SetProcessingStatus, Update, StorageTypeOK, Row
  <1>3. ASSUME NEW a \in AvatarId, NEW o, SetThumbnails(a, ThumbnailSizes, o) PROVE Sound(a)
    BY <1>types, <1>3 DEF SetThumbnails, Update, StorageTypeOK, Row
  <1>4. ASSUME NEW a \in AvatarId, NEW o, NEW key, Put(a, key, o) \/ Remove(a, key, o)
        PROVE  Sound(a)
    BY <1>types, <1>4 DEF Put, Remove, StorageTypeOK
  <1>5. ASSUME ~UNCHANGED storageVars
        PROVE  Sound(Goal(l)) /\ pc[l] \in {"handle", "callback"}
    <2>1. HandlerCall(l)
      BY <1>5 DEF WorkerLoopStep, TakeAndHandle, RetryHandler
    <2>2. CASE \/ MarkProcessing(l) \/ RejectOriginal(l) \/ MarkDeleted(l) \/ UploadFailed(l)
      <3>1. /\ pc[l] \in {"handle", "callback"}
            /\ \E o, status : SetProcessingStatus(Goal(l), status, o)
        BY <2>2 DEF MarkProcessing, RejectOriginal, MarkDeleted, UploadFailed, CallbackReturns, At
      <3>2. QED
        BY <1>goal, <1>2, <3>1
    <2>3. CASE SaveThumbnails(l)
      <3>1. pc[l] = "handle" /\ \E o : SetThumbnails(Goal(l), ThumbnailSizes, o)
        BY <2>3 DEF SaveThumbnails, At
      <3>2. QED
        BY <1>goal, <1>3, <3>1
    <2>4. ASSUME NEW key \in Key, StoreThumbnail(l, key) \/ RemoveObject(l, key)
          PROVE  Sound(Goal(l)) /\ pc[l] \in {"handle", "callback"}
      <3>1. /\ pc[l] = "handle"
            /\ \E o : Put(Goal(l), key, o) \/ Remove(Goal(l), key, o)
        BY <2>4 DEF StoreThumbnail, RemoveObject, At
      <3>2. QED
        BY <1>goal, <1>4, <3>1
    <2>5. CASE ReadAvatar(l) \/ FetchOriginal(l)
      BY <1>5, <2>5 DEF ReadAvatar, FetchOriginal
    <2>6. QED
      BY <2>1, <2>2, <2>3, <2>4, <2>5 DEF HandlerCall
  <1>6. QED
    BY <1>1, <1>5, <1>goal DEF storageVars

-----------------------------------------------------------------------------
(* Which avatar is the latest. *)

\* Every user with a live avatar has a latest one.
LEMMA LatestExists ==
  ASSUME StorageTypeOK, ClockBooks, NEW a \in AvatarId, Visible(a)
  PROVE  LatestByUser(Owner[a]) # {}
  <1> DEFINE live == {b \in AvatarId : Owner[b] = Owner[a] /\ Visible(b)}
             Age(b) == clock - row[b].created
             ages == {Age(b) : b \in live}
  <1>1. \A b \in AvatarId : row[b].created \in Nat /\ row[b].created <= clock /\ clock \in Nat
    BY DEF StorageTypeOK, Row, ClockBooks
  <1>2. ages \subseteq Nat /\ ages # {}
    BY <1>1
  <1>3. PICK n \in ages : \A m \in ages : ~(<<m, n>> \in OpToRel(<, Nat))
    <2> HIDE DEF ages
    <2>1. QED
      BY <1>2, WFMin, NatLessThanWellFounded, Zenon
  <1>4. \A m \in ages : ~(m < n)
    <2> HIDE DEF ages
    <2>1. QED
      BY <1>2, <1>3, Zenon DEF OpToRel
  <1>5. PICK b \in live : n = Age(b)
    OBVIOUS
  <1>6. ASSUME NEW c \in live PROVE row[c].created <= row[b].created
    <2>1. Age(c) \in ages
      OBVIOUS
    <2>2. ~(clock - row[c].created < clock - row[b].created)
      BY <1>4, <1>5, <2>1
    <2>3. QED
      BY <1>1, <2>2
  <1>7. QED
    BY <1>5, <1>6 DEF LatestByUser

\* Records keep their time, and a new one is no older than any other.
LEMMA LatestMoves ==
  ASSUME StorageTypeOK, StorageTypeOK', ClockBooks, clock' \in {clock, clock + 1},
         \A a \in AvatarId :
           IF Exists(a)
             THEN /\ row'[a].created = row[a].created
                  /\ row'[a].stage = row[a].stage \/ (Visible(a) /\ row'[a].stage = "deleted")
             ELSE row'[a] \in {row[a], FreshRow(clock')}
  PROVE  /\ ClockBooks'
         /\ \A u \in UserId : LatestByUser(u)' # LatestByUser(u) =>
              \/ \E a \in LatestByUser(u)' : ~Exists(a)
              \/ \E a \in LatestByUser(u) : ~Visible(a)'
         /\ \A a \in AvatarId : ~Exists(a) /\ Exists(a)' => a \in LatestByUser(Owner[a])'
  <1>types. /\ clock \in Nat /\ clock' \in Nat /\ clock <= clock'
            /\ \A a \in AvatarId : row[a].created \in Nat /\ row'[a].created \in Nat
    BY DEF StorageTypeOK, Row
  <1>new. \A a \in AvatarId : ~Exists(a) /\ Exists(a)' => Visible(a)' /\ row'[a].created = clock'
    BY DEF FreshRow, Exists, Visible
  <1>old. \A a \in AvatarId : Exists(a) => row'[a].created = row[a].created /\ (Visible(a)' => Visible(a))
    BY DEF Visible
  <1>exists. \A a \in AvatarId : (Visible(a) => Exists(a)) /\ (Visible(a)' => Exists(a)')
    BY DEF Visible, Exists
  <1>1. ClockBooks'
    <2> SUFFICES ASSUME NEW a \in AvatarId PROVE row'[a].created <= clock'
      BY DEF ClockBooks
    <2>1. row[a].created <= clock
      BY DEF ClockBooks
    <2>2. row'[a].created \in {row[a].created, clock'}
      BY DEF FreshRow
    <2>3. QED
      BY <1>types, <2>1, <2>2
  <1>2. ASSUME NEW a \in AvatarId, ~Exists(a), Exists(a)' PROVE a \in LatestByUser(Owner[a])'
    BY <1>1, <1>2, <1>new DEF LatestByUser, ClockBooks
  <1>3. ASSUME NEW u \in UserId,
               \A a \in LatestByUser(u)' : Exists(a),
               \A a \in LatestByUser(u) : Visible(a)'
        PROVE  LatestByUser(u)' = LatestByUser(u)
    <2> DEFINE live == {a \in AvatarId : Owner[a] = u /\ Visible(a)}
    <2>latest. /\ LatestByUser(u) = {a \in live : \A b \in live : row[b].created <= row[a].created}
               /\ LatestByUser(u)' = {a \in live' : \A b \in live' : row'[b].created <= row'[a].created}
      BY DEF LatestByUser
    <2>1. \A a \in live' : a \in live /\ row'[a].created = row[a].created
      BY <1>2, <1>3, <1>old, <1>exists
    <2>2. live = {} => LatestByUser(u)' = {} /\ LatestByUser(u) = {}
      BY <2>1, <2>latest
    <2>3. CASE live # {}
      <3>1. PICK c : c \in LatestByUser(u)
        BY <2>3, LatestExists
      <3>2. c \in live /\ c \in live' /\ \A b \in live : row[b].created <= row[c].created
        BY <1>3, <2>latest, <3>1
      <3>3. \A a \in live : row[a].created \in Nat
        BY <1>types
      <3> HIDE DEF live
      <3>4. ASSUME NEW a \in LatestByUser(u) PROVE a \in LatestByUser(u)'
        <4>1. a \in live' /\ \A b \in live : row[b].created <= row[a].created
          BY <1>3, <2>latest, <3>4 DEF live
        <4>2. QED
          BY <2>1, <2>latest, <4>1
      <3>5. ASSUME NEW a \in LatestByUser(u)' PROVE a \in LatestByUser(u)
        <4>1. a \in live' /\ row'[c].created <= row'[a].created
          BY <2>latest, <3>2, <3>5
        <4>2. a \in live /\ row[c].created <= row[a].created
          BY <2>1, <3>2, <4>1
        <4>3. \A b \in live : row[b].created <= row[a].created
          BY <3>2, <3>3, <4>2
        <4>4. QED
          BY <2>latest, <4>2, <4>3
      <3>6. QED
        BY <3>4, <3>5
    <2>4. QED
      BY <2>2, <2>3
  <1>4. QED
    BY <1>1, <1>2, <1>3

\* LatestMovesForCause: with any number of requests and workers, and however many
\* records share a created_at, a user's latest avatar changes only by a newer upload
\* or by the deletion of an avatar that was the latest.
THEOREM LatestMovesForCause == SystemSpec => LatestChangesForCause
  <1>1. Init => ClockBooks
    BY DEF Init, StorageInit, FreshRow, ClockBooks
  <1>2. ASSUME SystemInv, SystemInv', ClockBooks, [SystemNext]_vars
        PROVE  /\ ClockBooks'
               /\ \A u \in UserId : LatestByUser(u)' # LatestByUser(u) =>
                    \/ \E a \in LatestByUser(u)' : ~Exists(a)
                    \/ \E a \in LatestByUser(u) : ~Visible(a)'
               /\ \A a \in AvatarId : ~Exists(a) /\ Exists(a)' => a \in LatestByUser(Owner[a])'
    <2>1. StorageTypeOK /\ StorageTypeOK'
      BY <1>2 DEF SystemInv, TypeOK
    <2>2. clock' \in {clock, clock + 1}
      BY <1>2, RequestOrWorker, RequestWrites, WorkerWrites DEF storageVars
    <2>3. ASSUME NEW a \in AvatarId
          PROVE  IF Exists(a)
                   THEN /\ row'[a].created = row[a].created
                        /\ row'[a].stage = row[a].stage \/ (Visible(a) /\ row'[a].stage = "deleted")
                   ELSE row'[a] \in {row[a], FreshRow(clock')}
      <3>1. CASE RequestCall
        BY <1>2, <3>1, RequestWrites DEF Served
      <3>2. ASSUME NEW l \in Loop, WorkerLoopStep(l)
            PROVE  /\ row'[a].stage = row[a].stage /\ row'[a].created = row[a].created
                   /\ ~Exists(a) => row'[a] = row[a]
        BY <1>2, <3>2, WorkerWrites
      <3>3. CASE UNCHANGED storageVars
        BY <3>3 DEF storageVars
      <3>4. QED
        BY <1>2, <3>1, <3>2, <3>3, RequestOrWorker
    <2>4. QED
      BY <1>2, <2>1, <2>2, <2>3, LatestMoves
  <1>3. QED
    BY <1>1, <1>2, SystemInvariant, PTL DEF SystemSpec, LatestChangesForCause

-----------------------------------------------------------------------------
(* What becomes of a failed write. *)

\* FailedUploadsShow: where clients wait for their answers and the database answers,
\* a failed write of the original leaves a failed row, as the comment of Upload says.
\* The run canceled_upload breaks it with a client that goes away; a database fault
\* breaks it too.
THEOREM FailedUploadsShow ==
  ~ClientMayCancel /\ DatabaseFaults = {} => (SystemSpec => FailedWriteLeavesFailedRow)
  <1> DEFINE AllLive == \A a \in AvatarId : uploadCtx[a] = TRUE
  <1> SUFFICES ASSUME ~ClientMayCancel, DatabaseFaults = {}
               PROVE  SystemSpec => FailedWriteLeavesFailedRow
    OBVIOUS
  <1>1. Init => AllLive
    BY DEF Init, ServiceInit
  <1>2. SystemInv /\ AllLive /\ [SystemNext]_vars => AllLive'
    <2> SUFFICES ASSUME SystemInv, AllLive, [SystemNext]_vars PROVE AllLive'
      OBVIOUS
    <2>types. uploadCtx \in [AvatarId -> BOOLEAN]
      BY DEF SystemInv, TypeOK, ServiceTypeOK
    <2>1. ASSUME NEW a \in AvatarId,
                 \/ UploadCreate(a) \/ UploadPut(a) \/ UploadMarkFailed(a) \/ UploadMarkUploaded(a)
          PROVE  AllLive'
      <3>1. PICK from, faults, o, ifOK, ifError : UploadCall(a, from, faults, o, ifOK, ifError)
        BY <2>1 DEF UploadCreate, UploadPut, UploadMarkFailed, UploadMarkUploaded
      <3>2. \E after \in BOOLEAN : after /\ uploadCtx' = [uploadCtx EXCEPT ![a] = after \/ ~UploadCalls(upload'[a])]
        BY <3>1 DEF UploadCall, Call
      <3>3. QED
        BY <2>types, <3>2
    <2>2. ASSUME NEW a \in AvatarId, UploadPublish(a) \/ UploadCrash(a) PROVE AllLive'
      BY <2>types, <2>2 DEF UploadPublish, UploadCrash
    <2>3. CASE UNCHANGED uploadCtx
      BY <2>3
    <2>4. QED
      BY <2>1, <2>2, <2>3, RequestOrWorker
        DEF RequestCall, DeleteLatestForeign, DeleteLatestRead, DeleteRead, DeleteHide,
          DeletePublish, DeleteCrash, WorkerLoopStep, serviceVars, uploadVars
  <1>3. SystemInv /\ AllLive /\ [SystemNext]_vars =>
          \A a \in AvatarId :
            upload[a] = "markFailed" /\ upload'[a] = "error" /\ Visible(a)'
              => row'[a].upload = "failed"
    <2> SUFFICES ASSUME SystemInv, AllLive, [SystemNext]_vars, NEW a \in AvatarId,
                        upload[a] = "markFailed", upload'[a] = "error"
                 PROVE  row'[a].upload = "failed"
      OBVIOUS
    <2>types. StorageTypeOK /\ upload \in [AvatarId -> UploadState] /\ UploadBooks(a)
      BY DEF SystemInv, TypeOK, ServiceTypeOK
    <2>1. UploadMarkFailed(a)
      <3>1. upload'[a] # upload[a]
        OBVIOUS
      <3>2. ASSUME NEW b \in AvatarId,
                   \/ UploadCreate(b) \/ UploadPut(b) \/ UploadMarkUploaded(b)
                   \/ UploadPublish(b) \/ UploadCrash(b)
            PROVE  FALSE
        <4>1. \E label : upload' = [upload EXCEPT ![b] = label]
          BY <3>2 DEF UploadCreate, UploadPut, UploadMarkUploaded, UploadPublish, UploadCrash, UploadCall
        <4>2. b = a
          BY <2>types, <3>1, <4>1
        <4>3. QED
          BY <2>types, <3>2, <4>2
            DEF UploadCreate, UploadPut, UploadMarkUploaded, UploadPublish, UploadCrash, UploadCall
      <3>3. ASSUME NEW b \in AvatarId, UploadMarkFailed(b) PROVE b = a
        BY <2>types, <3>1, <3>3 DEF UploadMarkFailed, UploadCall
      <3>4. \E b \in AvatarId : UploadMarkFailed(b)
        BY <3>1, <3>2, RequestOrWorker
          DEF RequestCall, DeleteLatestForeign, DeleteLatestRead, DeleteRead, DeleteHide,
            DeletePublish, DeleteCrash, WorkerLoopStep, serviceVars, uploadVars
      <3>5. QED
        BY <3>3, <3>4
    <2>2. PICK o \in Outcome : /\ UploadCall(a, "markFailed", DatabaseFaults, o, "error", "error")
                               /\ SetUploadStatus(a, "failed", o)
      BY <2>1 DEF UploadMarkFailed
    <2>3. o = "ok"
      BY <2>2 DEF UploadCall, Call
    <2>4. Exists(a)
      BY <2>types DEF UploadBooks, UploadInFlight
    <2>5. QED
      BY <2>types, <2>2, <2>3, <2>4 DEF SetUploadStatus, Update, Applied, StorageTypeOK, Row
  <1>4. QED
    BY <1>1, <1>2, <1>3, SystemInvariant, PTL DEF SystemSpec, FailedWriteLeavesFailedRow

-----------------------------------------------------------------------------
(* The system and the consumer. *)

\* SystemDrivesConsumer: the composed system implements the consumer on its own,
\* so what is proved of module Consumer holds of the system.
THEOREM SystemDrivesConsumer == SystemSpec => Spec
  <1>1. Init => ConsumerInit
    BY DEF Init
  <1>2. SystemInv /\ [SystemNext]_vars => [Next]_consumerVars
    BY ConsumerSide
  <1>3. QED
    BY <1>1, <1>2, SystemInvariant, PTL DEF SystemSpec, Spec

\* SystemDelivers: with the real handlers, and whatever the stores do, a published
\* message is never lost and what became of it stands: the promise of module Delivery.
THEOREM SystemDelivers == SystemSpec => Promise!Safety
  BY SystemDrivesConsumer, ConsumerDelivers, PTL

=============================================================================
