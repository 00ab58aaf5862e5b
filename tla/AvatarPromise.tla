--------------------------- MODULE AvatarPromise ----------------------------
(***************************************************************************)
(* What a client may rely on about one avatar: it appears, its original    *)
(* becomes downloadable, then all its thumbnails at once; nothing that was *)
(* downloadable is taken away before the avatar is deleted, and a deleted  *)
(* avatar never comes back.                                                *)
(***************************************************************************)
CONSTANTS AvatarId, Original, Thumbnails

VARIABLES life,     \* life[a]: absent, live or deleted
          files     \* files[a]: the variants a client can download

promiseVars == <<life, files>>

Init == /\ life = [a \in AvatarId |-> "absent"]
        /\ files = [a \in AvatarId |-> {}]

Appear(a) ==
  /\ life[a] = "absent"
  /\ life' = [life EXCEPT ![a] = "live"]
  /\ UNCHANGED files

StoreOriginal(a) ==
  /\ life[a] = "live" /\ files[a] = {}
  /\ files' = [files EXCEPT ![a] = {Original}]
  /\ UNCHANGED life

AddThumbnails(a) ==
  /\ life[a] = "live" /\ files[a] = {Original}
  /\ files' = [files EXCEPT ![a] = {Original} \cup Thumbnails]
  /\ UNCHANGED life

Withdraw(a) ==
  /\ life[a] = "live"
  /\ life' = [life EXCEPT ![a] = "deleted"]
  /\ files' = [files EXCEPT ![a] = {}]

Next == \E a \in AvatarId :
  Appear(a) \/ StoreOriginal(a) \/ AddThumbnails(a) \/ Withdraw(a)

Spec == Init /\ [][Next]_promiseVars

=============================================================================
