----------------------------- MODULE Processor ------------------------------
(***************************************************************************)
(* The worker's handlers (internal/worker/processor) run by the consumer's *)
(* loops: HandleUpload builds the thumbnails, HandleDelete removes the     *)
(* objects of a deleted avatar, UploadFailed is the dead callback.  Each   *)
(* store call of a handler is a step; while the loop of module Consumer is *)
(* in "handle", step[l] says which call comes next.                        *)
(***************************************************************************)
EXTENDS Storage, Consumer

ASSUME EventAssumption == Message = Event
ASSUME TopologyAssumption == /\ Queue = {"upload", "delete"}
                             /\ Route = [m \in Event |-> m.kind]
                             /\ CallbackQueue = {"upload"}

VARIABLES step,    \* step[l]: the next call of the handler running in loop l
          todo     \* todo[l]: the sizes still to store, or the keys still to remove

processorVars == <<step, todo>>

Step == {"none", "read", "mark", "fetch", "store", "save", "remove", "markDeleted"}

ProcessorTypeOK ==
  /\ step \in [Loop -> Step]
  /\ todo \in [Loop -> SUBSET Key]

ProcessorInit ==
  /\ step = [l \in Loop |-> "none"]
  /\ todo = [l \in Loop |-> {}]

Goal(l) == cur[l].avatar

\* How a worker's call may end: nothing gets through a canceled context.
WorkerOutcome(l, faults) == IF Live(l[1]) THEN {"ok"} \cup faults ELSE {"refused"}

-----------------------------------------------------------------------------
(* Entering and leaving a handler. *)

StartHandler(l, m) ==
  /\ step' = [step EXCEPT ![l] = IF m.kind = "upload" THEN "read" ELSE "remove"]
  /\ todo' = [todo EXCEPT ![l] = IF m.kind = "upload" THEN {} ELSE m.keys]

EndHandler(l) ==
  /\ step' = [step EXCEPT ![l] = "none"]
  /\ todo' = [todo EXCEPT ![l] = {}]

TakeAndHandle(l, m) == Take(l, m) /\ StartHandler(l, m) /\ UNCHANGED storageVars

RetryHandler(l) == Retry(l) /\ StartHandler(l, cur[l]) /\ UNCHANGED storageVars

Succeed(l) == HandlerOK(l) /\ EndHandler(l)
Fail(l) == HandlerFails(l) /\ EndHandler(l)
Finish(l, o) == IF o = "ok" THEN Succeed(l) ELSE Fail(l)

\* The handler goes on with its next call.
Continue(l, next, left) ==
  /\ step' = [step EXCEPT ![l] = next]
  /\ todo' = [todo EXCEPT ![l] = left]
  /\ UNCHANGED consumerVars

At(l, label) == pc[l] = "handle" /\ step[l] = label

-----------------------------------------------------------------------------
(* HandleUpload *)

\* Faulty ReadAvatar: an avatar that is "processing" is skipped too.
ReadAvatarOnce(l) ==
  /\ At(l, "read")
  /\ \E o \in WorkerOutcome(l, DatabaseFaults) :
       \/ o # "ok" /\ Fail(l)
       \/ /\ o = "ok"
          /\ IF Visible(Goal(l)) /\ row[Goal(l)].processing \in {"pending", "failed"}
               THEN Continue(l, "mark", {})
               ELSE Succeed(l)
  /\ UNCHANGED storageVars

\* A deleted avatar and a finished one are skipped.
ReadAvatar(l) ==
  /\ At(l, "read")
  /\ \E o \in WorkerOutcome(l, DatabaseFaults) :
       \/ o # "ok" /\ Fail(l)
       \/ /\ o = "ok"
          /\ IF Visible(Goal(l)) /\ row[Goal(l)].processing \notin {"completed", "deleted"}
               THEN Continue(l, "mark", {})
               ELSE Succeed(l)
  /\ UNCHANGED storageVars

MarkProcessing(l) ==
  /\ At(l, "mark")
  /\ \E o \in WorkerOutcome(l, DatabaseFaults) :
       /\ SetProcessingStatus(Goal(l), "processing", o)
       /\ IF o = "ok" THEN Continue(l, "fetch", {}) ELSE Fail(l)

FetchOriginal(l) ==
  /\ At(l, "fetch")
  /\ \E o \in WorkerOutcome(l, BucketFaults) :
       IF o = "ok" /\ OriginalKey \in object[Goal(l)]
         THEN Continue(l, "store", ThumbnailSizes)
         ELSE Fail(l)
  /\ UNCHANGED storageVars

\* Faulty StoreThumbnail: the error of the write is ignored.
StoreThumbnailUnchecked(l, size) ==
  /\ At(l, "store") /\ Goal(l) \in Decodable
  /\ size \in todo[l]
  /\ \E o \in WorkerOutcome(l, BucketFaults) :
       /\ Put(Goal(l), size, o)
       /\ Continue(l, IF todo[l] = {size} THEN "save" ELSE "store", todo[l] \ {size})

\* The sizes come in any order; the code's order is one of them.
StoreThumbnail(l, size) ==
  /\ At(l, "store") /\ Goal(l) \in Decodable
  /\ size \in todo[l]
  /\ \E o \in WorkerOutcome(l, BucketFaults) :
       /\ Put(Goal(l), size, o)
       /\ IF o = "ok"
            THEN Continue(l, IF todo[l] = {size} THEN "save" ELSE "store", todo[l] \ {size})
            ELSE Fail(l)

\* The original does not decode: the message is consumed once the avatar is
\* marked failed.
RejectOriginal(l) ==
  /\ At(l, "store") /\ Goal(l) \notin Decodable
  /\ \E o \in WorkerOutcome(l, DatabaseFaults) :
       SetProcessingStatus(Goal(l), "failed", o) /\ Finish(l, o)

SaveThumbnails(l) ==
  /\ At(l, "save")
  /\ \E o \in WorkerOutcome(l, DatabaseFaults) :
       SetThumbnails(Goal(l), ThumbnailSizes, o) /\ Finish(l, o)

\* UploadFailed only logs its errors.
UploadFailed(l) ==
  /\ CallbackReturns(l)
  /\ \E o \in WorkerOutcome(l, DatabaseFaults) :
       SetProcessingStatus(Goal(l), "failed", o)
  /\ UNCHANGED processorVars

-----------------------------------------------------------------------------
(* HandleDelete *)

\* Faulty RemoveObject: the error of the removal is ignored.
RemoveObjectUnchecked(l, key) ==
  /\ At(l, "remove")
  /\ key \in todo[l] /\ (OriginalKey \in todo[l] => key = OriginalKey)
  /\ \E o \in WorkerOutcome(l, BucketFaults) :
       /\ Remove(Goal(l), key, o)
       /\ Continue(l, IF todo[l] = {key} THEN "markDeleted" ELSE "remove", todo[l] \ {key})

\* The captured keys start with the original, the thumbnails follow in the
\* order of a map iteration.
RemoveObject(l, key) ==
  /\ At(l, "remove")
  /\ key \in todo[l] /\ (OriginalKey \in todo[l] => key = OriginalKey)
  /\ \E o \in WorkerOutcome(l, BucketFaults) :
       /\ Remove(Goal(l), key, o)
       /\ IF o = "ok"
            THEN Continue(l, IF todo[l] = {key} THEN "markDeleted" ELSE "remove",
                          todo[l] \ {key})
            ELSE Fail(l)

\* A missing row is tolerated.
MarkDeleted(l) ==
  /\ At(l, "markDeleted")
  /\ \E o \in WorkerOutcome(l, DatabaseFaults) :
       SetProcessingStatus(Goal(l), "deleted", o) /\ Finish(l, o)

HandlerCall(l) ==
  \/ ReadAvatar(l) \/ MarkProcessing(l) \/ FetchOriginal(l)
  \/ \E key \in Key : StoreThumbnail(l, key) \/ RemoveObject(l, key)
  \/ RejectOriginal(l) \/ SaveThumbnails(l) \/ MarkDeleted(l)
  \/ UploadFailed(l)

=============================================================================
