------------------------------ MODULE Storage -------------------------------
(***************************************************************************)
(* The two stores: the avatars table in PostgreSQL (internal/storage/      *)
(* postgres, migrations/000001_init.up.sql) and the bucket in S3           *)
(* (internal/storage/s3).                                                  *)
(*                                                                         *)
(* Every repository or file-store call is one atomic step with an outcome: *)
(* "ok", "refused" (the caller gets an error and nothing changed) or       *)
(* "lostReply" (the change is made and the caller gets an error all the    *)
(* same: a timeout, a connection that dies after the commit).              *)
(***************************************************************************)
EXTENDS Avatar

CONSTANTS DatabaseFaults,   \* the faulty outcomes of a database call
          BucketFaults      \* the faulty outcomes of an object-store call

Outcome == {"ok", "refused", "lostReply"}

ASSUME FaultsAssumption == /\ DatabaseFaults \subseteq {"refused", "lostReply"}
                           /\ BucketFaults \subseteq {"refused", "lostReply"}

VARIABLES row,      \* row[a]: the record of avatar a
          object,   \* object[a]: the variants of a the bucket holds
          clock     \* the database's time, read by created_at

storageVars == <<row, object, clock>>

Row == [stage : {"absent", "live", "deleted"},     \* deleted_at, "live" when NULL
        upload : UploadStatus,
        processing : ProcessingStatus,
        thumbs : SUBSET ThumbnailSizes,            \* thumbnail_s3_keys
        created : Nat]

FreshRow(t) == [stage |-> "live", upload |-> "uploading", processing |-> "pending",
                thumbs |-> {}, created |-> t]

StorageTypeOK ==
  /\ row \in [AvatarId -> Row]
  /\ object \in [AvatarId -> SUBSET Key]
  /\ clock \in Nat

StorageInit ==
  /\ row = [a \in AvatarId |-> [FreshRow(0) EXCEPT !.stage = "absent"]]
  /\ object = [a \in AvatarId |-> {}]
  /\ clock = 0

Exists(a) == row[a].stage # "absent"
Visible(a) == row[a].stage = "live"      \* GetByID finds it
Applied(o) == o # "refused"

-----------------------------------------------------------------------------
(* The repository. *)

\* Two inserts may fall on the same clock reading.
Create(a, o) ==
  /\ IF Applied(o)
       THEN \E t \in {clock, clock + 1} :
              row' = [row EXCEPT ![a] = FreshRow(t)] /\ clock' = t
       ELSE UNCHANGED <<row, clock>>
  /\ UNCHANGED object

\* exec: an UPDATE whose WHERE clause matches the row only under cond.
Update(a, o, cond, new) ==
  /\ row' = IF Applied(o) /\ cond THEN [row EXCEPT ![a] = new] ELSE row
  /\ UNCHANGED <<object, clock>>

SetUploadStatus(a, status, o) ==
  Update(a, o, Exists(a), [row[a] EXCEPT !.upload = status])

\* Faulty SetProcessingStatus: avatars ordered by the time of their last write.
SetProcessingStatusTouches(a, status, o) ==
  Update(a, o, Exists(a), [row[a] EXCEPT !.processing = status, !.created = clock + 1])

SetProcessingStatus(a, status, o) ==
  Update(a, o, Exists(a), [row[a] EXCEPT !.processing = status])

SetThumbnails(a, sizes, o) ==
  Update(a, o, Exists(a), [row[a] EXCEPT !.thumbs = sizes, !.processing = "completed"])

SoftDelete(a, o) ==
  Update(a, o, Visible(a), [row[a] EXCEPT !.stage = "deleted"])

\* The rows LatestByUser may return: ties on created_at are not broken.
LatestByUser(u) ==
  LET live == {a \in AvatarId : Owner[a] = u /\ Visible(a)}
  IN  {a \in live : \A b \in live : row[b].created <= row[a].created}

-----------------------------------------------------------------------------
(* The file store. *)

Put(a, key, o) ==
  /\ object' = IF Applied(o) THEN [object EXCEPT ![a] = @ \cup {key}] ELSE object
  /\ UNCHANGED <<row, clock>>

\* Deleting a missing object is not an error.
Remove(a, key, o) ==
  /\ object' = IF Applied(o) THEN [object EXCEPT ![a] = @ \ {key}] ELSE object
  /\ UNCHANGED <<row, clock>>

=============================================================================
