------------------------------ MODULE Service -------------------------------
(***************************************************************************)
(* The server's use cases that change state: Upload, Delete and            *)
(* DeleteLatest (internal/server/service).  Each store call of a request   *)
(* is a step of its own, so requests interleave with one another and with  *)
(* the worker.  A request's context ends when its client goes away; the    *)
(* process may die between any two steps.                                  *)
(*                                                                         *)
(* Publishing is the last step of a request and its result is only logged; *)
(* module GophProfile joins it with the broker.                            *)
(***************************************************************************)
EXTENDS Storage

CONSTANTS DeleteRequest,      \* the deletions clients ask for
          Requester,          \* the X-User-ID of a delete request
          NoAvatar,
          ClientMayCancel,    \* whether clients disconnect in mid-request
          ServerMayCrash      \* whether server processes die

ASSUME RequesterAssumption == Requester \in [DeleteRequest -> UserId]
ASSUME NoAvatarAssumption == NoAvatar \notin AvatarId
ASSUME SwitchesAssumption == ClientMayCancel \in BOOLEAN /\ ServerMayCrash \in BOOLEAN

VARIABLES upload,      \* upload[a]: where the request that uploads a is
          uploadCtx,   \* uploadCtx[a]: whether its context is live
          del,         \* del[d]: where delete request d is
          delCtx,      \* delCtx[d]: whether its context is live
          target,      \* target[d]: the avatar d read
          delKeys      \* delKeys[d]: the keys captured for the delete event

uploadVars == <<upload, uploadCtx>>
deleteVars == <<del, delCtx, target, delKeys>>
serviceVars == <<uploadVars, deleteVars>>

UploadState == {"none", "put", "markUploaded", "markFailed", "publish",
                "created", "error", "crashed"}
DeleteState == {"none", "hide", "publish", "deleted",
                "notFound", "forbidden", "failed", "crashed"}

ServiceTypeOK ==
  /\ upload \in [AvatarId -> UploadState]
  /\ uploadCtx \in [AvatarId -> BOOLEAN]
  /\ del \in [DeleteRequest -> DeleteState]
  /\ delCtx \in [DeleteRequest -> BOOLEAN]
  /\ target \in [DeleteRequest -> AvatarId \cup {NoAvatar}]
  /\ delKeys \in [DeleteRequest -> SUBSET Key]

ServiceInit ==
  /\ upload = [a \in AvatarId |-> "none"]
  /\ uploadCtx = [a \in AvatarId |-> TRUE]
  /\ del = [d \in DeleteRequest |-> "none"]
  /\ delCtx = [d \in DeleteRequest |-> TRUE]
  /\ target = [d \in DeleteRequest |-> NoAvatar]
  /\ delKeys = [d \in DeleteRequest |-> {}]

\* A call made under a context: `before` and `after` say whether it is live
\* when the call starts and returns, `o` is how the call ends.  A call that is
\* interrupted may or may not have taken effect; later ones are refused.
Call(before, faults, o, after) ==
  \/ before /\ o \in {"ok"} \cup faults /\ after
  \/ before /\ ClientMayCancel /\ ~after
  \/ ~before /\ o = "refused" /\ ~after

-----------------------------------------------------------------------------
(* Upload *)

\* The states in which a call under the request's context is still to come;
\* in the others the context matters no more and is not tracked.
UploadCalls(label) == label \in {"put", "markUploaded", "markFailed"}

\* The upload request of a makes one call and moves on.
UploadCall(a, from, faults, o, ifOK, ifError) ==
  /\ upload[a] = from
  /\ upload' = [upload EXCEPT ![a] = IF o = "ok" THEN ifOK ELSE ifError]
  /\ \E after \in BOOLEAN :
       /\ Call(uploadCtx[a], faults, o, after)
       /\ uploadCtx' = [uploadCtx EXCEPT ![a] = after \/ ~UploadCalls(upload'[a])]
  /\ UNCHANGED deleteVars

\* Faulty UploadCreate: the row is marked uploaded before the object is written.
UploadCreateMarksFirst(a) == \E o \in Outcome :
  UploadCall(a, "none", DatabaseFaults, o, "markUploaded", "error") /\ Create(a, o)

UploadCreate(a) == \E o \in Outcome :
  UploadCall(a, "none", DatabaseFaults, o, "put", "error") /\ Create(a, o)

\* Faulty UploadPut: its error is ignored.
UploadPutUnchecked(a) == \E o \in Outcome :
  UploadCall(a, "put", BucketFaults, o, "markUploaded", "markUploaded")
    /\ Put(a, OriginalKey, o)

UploadPut(a) == \E o \in Outcome :
  UploadCall(a, "put", BucketFaults, o, "markUploaded", "markFailed")
    /\ Put(a, OriginalKey, o)

\* Best-effort compensation, under the request's own context.
UploadMarkFailed(a) == \E o \in Outcome :
  UploadCall(a, "markFailed", DatabaseFaults, o, "error", "error")
    /\ SetUploadStatus(a, "failed", o)

UploadMarkUploaded(a) == \E o \in Outcome :
  UploadCall(a, "markUploaded", DatabaseFaults, o, "publish", "error")
    /\ SetUploadStatus(a, "uploaded", o)

\* Whatever PublishUpload returns, the answer is 201.
UploadPublish(a) ==
  /\ upload[a] = "publish"
  /\ upload' = [upload EXCEPT ![a] = "created"]
  /\ UNCHANGED <<uploadCtx, deleteVars, storageVars>>

UploadInFlight(a) == upload[a] \in {"put", "markUploaded", "markFailed", "publish"}

UploadCrash(a) ==
  /\ ServerMayCrash /\ UploadInFlight(a)
  /\ upload' = [upload EXCEPT ![a] = "crashed"]
  /\ uploadCtx' = [uploadCtx EXCEPT ![a] = TRUE]
  /\ UNCHANGED <<deleteVars, storageVars>>

-----------------------------------------------------------------------------
(* Delete and DeleteLatest *)

\* One call of delete request d; SoftDelete is the last one under its context.
DeleteCall(d, faults, o) ==
  \E after \in BOOLEAN :
    /\ Call(delCtx[d], faults, o, after)
    /\ delCtx' = [delCtx EXCEPT ![d] = after \/ del'[d] # "hide"]

\* Faulty Capture: the event is published before the row is hidden.
CapturePublishesFirst(d, a) ==
  /\ del' = [del EXCEPT ![d] = "publish"]
  /\ target' = [target EXCEPT ![d] = a]
  /\ delKeys' = [delKeys EXCEPT ![d] = {OriginalKey} \cup row[a].thumbs]

\* The row was read and the requester may delete it: capture its keys.
Capture(d, a) ==
  /\ del' = [del EXCEPT ![d] = "hide"]
  /\ target' = [target EXCEPT ![d] = a]
  /\ delKeys' = [delKeys EXCEPT ![d] = {OriginalKey} \cup row[a].thumbs]

\* The request is over and forgets the keys.
EndDelete(d, label) ==
  /\ del' = [del EXCEPT ![d] = label]
  /\ delKeys' = [delKeys EXCEPT ![d] = {}]

Refusal == {"notFound", "forbidden", "failed"}

Reject(d, why) == EndDelete(d, why) /\ UNCHANGED target

\* Faulty DeleteRead: no ownership check.
DeleteReadAnyones(d, a) == \E o \in Outcome :
  /\ del[d] = "none"
  /\ \/ o = "ok" /\ Visible(a) /\ Capture(d, a)
     \/ o = "ok" /\ ~Visible(a) /\ Reject(d, "notFound")
     \/ o # "ok" /\ Reject(d, "failed")
  /\ DeleteCall(d, DatabaseFaults, o)
  /\ UNCHANGED <<uploadVars, storageVars>>

DeleteRead(d, a) == \E o \in Outcome :
  /\ del[d] = "none"
  /\ \/ o = "ok" /\ Visible(a) /\ Owner[a] = Requester[d] /\ Capture(d, a)
     \/ o = "ok" /\ Visible(a) /\ Owner[a] # Requester[d] /\ Reject(d, "forbidden")
     \/ o = "ok" /\ ~Visible(a) /\ Reject(d, "notFound")
     \/ o # "ok" /\ Reject(d, "failed")
  /\ DeleteCall(d, DatabaseFaults, o)
  /\ UNCHANGED <<uploadVars, storageVars>>

\* The path names another user: the answer is 403 and no store is asked.
DeleteLatestForeign(d) ==
  /\ del[d] = "none"
  /\ \E u \in UserId : u # Requester[d]
  /\ Reject(d, "forbidden")
  /\ UNCHANGED <<delCtx, uploadVars, storageVars>>

\* The path names the requester.
DeleteLatestRead(d) == \E o \in Outcome :
  /\ del[d] = "none"
  /\ \/ o = "ok" /\ \E a \in LatestByUser(Requester[d]) : Capture(d, a)
     \/ o = "ok" /\ LatestByUser(Requester[d]) = {} /\ Reject(d, "notFound")
     \/ o # "ok" /\ Reject(d, "failed")
  /\ DeleteCall(d, DatabaseFaults, o)
  /\ UNCHANGED <<uploadVars, storageVars>>

\* Faulty DeleteHide: an update that hits no row is no error.
DeleteHideTwice(d) == \E o \in Outcome :
  /\ del[d] = "hide"
  /\ IF o = "ok" THEN del' = [del EXCEPT ![d] = "publish"] /\ UNCHANGED delKeys
                 ELSE EndDelete(d, "failed")
  /\ DeleteCall(d, DatabaseFaults, o)
  /\ SoftDelete(target[d], o)
  /\ UNCHANGED <<uploadVars, target>>

DeleteHide(d) == \E o \in Outcome :
  /\ del[d] = "hide"
  /\ IF o = "ok" /\ Visible(target[d])
       THEN del' = [del EXCEPT ![d] = "publish"] /\ UNCHANGED delKeys
       ELSE EndDelete(d, IF o = "ok" THEN "notFound" ELSE "failed")
  /\ DeleteCall(d, DatabaseFaults, o)
  /\ SoftDelete(target[d], o)
  /\ UNCHANGED <<uploadVars, target>>

\* Whatever PublishDelete returns, the answer is 204.
DeletePublish(d) ==
  /\ del[d] = "publish"
  /\ EndDelete(d, "deleted")
  /\ UNCHANGED <<delCtx, target, uploadVars, storageVars>>

DeleteCrash(d) ==
  /\ ServerMayCrash /\ del[d] \in {"hide", "publish"}
  /\ EndDelete(d, "crashed")
  /\ delCtx' = [delCtx EXCEPT ![d] = TRUE]
  /\ UNCHANGED <<target, uploadVars, storageVars>>

=============================================================================
