------------------------------- MODULE Avatar -------------------------------
(***************************************************************************)
(* The domain package internal/avatar: statuses, object keys and events.   *)
(*                                                                         *)
(* An object key names an avatar and a variant of its file, so the objects *)
(* of one avatar are a set of variants: "original" and the thumbnail       *)
(* sizes.  File contents matter in one respect only: whether the worker    *)
(* can decode them.                                                        *)
(***************************************************************************)
EXTENDS Naturals, FiniteSets

CONSTANTS AvatarId,         \* the ids the server will ever draw
          UserId,
          Owner,            \* the user who uploads an avatar
          Decodable,        \* the avatars whose original is an image
          ThumbnailSizes    \* the size names of the thumbnails

ASSUME OwnerAssumption == Owner \in [AvatarId -> UserId]
ASSUME DecodableAssumption == Decodable \subseteq AvatarId
ASSUME SizesAssumption == "original" \notin ThumbnailSizes /\ ThumbnailSizes # {}

UploadStatus == {"uploading", "uploaded", "failed"}
ProcessingStatus == {"pending", "processing", "completed", "failed", "deleted"}

\* OriginalKey and ThumbnailKey, relative to the avatar they belong to.
OriginalKey == "original"
Key == {OriginalKey} \cup ThumbnailSizes

UploadEvent(a) == [kind |-> "upload", avatar |-> a, keys |-> {OriginalKey}]
DeleteEvent(a, K) == [kind |-> "delete", avatar |-> a, keys |-> K]

Event == {UploadEvent(a) : a \in AvatarId}
           \cup {DeleteEvent(a, K) : a \in AvatarId, K \in SUBSET Key}

=============================================================================
