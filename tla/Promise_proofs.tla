--------------------------- MODULE Promise_proofs ---------------------------
(***************************************************************************)
(* The system keeps what AvatarPromise says of each avatar: a step         *)
(* simulation on top of the system's invariant.                            *)
(***************************************************************************)
EXTENDS GophProfile_proofs

-----------------------------------------------------------------------------
(* One avatar moves at a time. *)

\* Nothing that the promise of avatar b depends on changes.
Untouched(b) ==
  /\ row'[b].stage = row[b].stage /\ row'[b].thumbs = row[b].thumbs
  /\ object'[b] = object[b] /\ upload'[b] = upload[b]
  /\ UploadEvent(b) \in published' <=> UploadEvent(b) \in published

\* How the clients' view of avatar a may change.
Progress(a) ==
  \/ row'[a].stage = row[a].stage /\ Shown(a)' = Shown(a)
  \/ row[a].stage = "absent" /\ row'[a].stage = "live" /\ Shown(a)' = Shown(a)
  \/ /\ row[a].stage = "live" /\ row'[a].stage = "live"
     /\ Shown(a) = {} /\ Shown(a)' = {OriginalKey}
  \/ /\ row[a].stage = "live" /\ row'[a].stage = "live"
     /\ Shown(a) = {OriginalKey} /\ Shown(a)' = {OriginalKey} \cup ThumbnailSizes
  \/ row[a].stage = "live" /\ row'[a].stage = "deleted" /\ Shown(a)' = {}

\* What is true of every step of the system.
Kept == PromiseInv' /\ [View!Next]_(View!promiseVars)

LEMMA UntouchedKept ==
  ASSUME PromiseInv, NEW b \in AvatarId, Untouched(b)
  PROVE  PromiseBooks(b)' /\ row'[b].stage = row[b].stage /\ Shown(b)' = Shown(b)
  BY DEF PromiseInv, PromiseBooks, Untouched, Shown, Visible

LEMMA NoneMoves ==
  ASSUME PromiseInv, \A b \in AvatarId : Untouched(b)
  PROVE  Kept
  <1>1. \A b \in AvatarId :
          PromiseBooks(b)' /\ row'[b].stage = row[b].stage /\ Shown(b)' = Shown(b)
    BY UntouchedKept
  <1>2. UNCHANGED View!promiseVars
    BY <1>1 DEF View!promiseVars
  <1>3. QED
    BY <1>1, <1>2 DEF Kept, PromiseInv

LEMMA OneMoves ==
  ASSUME PromiseInv, NEW a \in AvatarId, \A b \in AvatarId \ {a} : Untouched(b),
         PromiseBooks(a)', Progress(a)
  PROVE  Kept
  <1> DEFINE life == [b \in AvatarId |-> row[b].stage]
             files == [b \in AvatarId |-> Shown(b)]
  <1>1. \A b \in AvatarId \ {a} :
          PromiseBooks(b)' /\ row'[b].stage = row[b].stage /\ Shown(b)' = Shown(b)
    BY UntouchedKept
  <1>2. PromiseInv'
    BY <1>1 DEF PromiseInv
  <1>3. life' = [life EXCEPT ![a] = row'[a].stage] /\ files' = [files EXCEPT ![a] = Shown(a)']
    BY <1>1
  <1>4. life[a] = row[a].stage /\ files[a] = Shown(a)
    OBVIOUS
  <1>5. row'[a].stage = row[a].stage => UNCHANGED life
    BY <1>1
  <1>6. Shown(a)' = Shown(a) => UNCHANGED files
    BY <1>1
  <1>7. [View!Next]_(View!promiseVars)
    <2>1. CASE row'[a].stage = row[a].stage /\ Shown(a)' = Shown(a)
      BY <1>5, <1>6, <2>1 DEF View!promiseVars
    <2>2. CASE row[a].stage = "absent" /\ row'[a].stage = "live" /\ Shown(a)' = Shown(a)
      <3>1. View!Appear(a)
        BY <1>3, <1>4, <1>6, <2>2 DEF View!Appear
      <3>2. QED
        BY <3>1 DEF View!Next
    <2>3. CASE /\ row[a].stage = "live" /\ row'[a].stage = "live"
               /\ Shown(a) = {} /\ Shown(a)' = {OriginalKey}
      <3>1. View!StoreOriginal(a)
        BY <1>3, <1>4, <1>5, <2>3 DEF View!StoreOriginal
      <3>2. QED
        BY <3>1 DEF View!Next
    <2>4. CASE /\ row[a].stage = "live" /\ row'[a].stage = "live"
               /\ Shown(a) = {OriginalKey} /\ Shown(a)' = {OriginalKey} \cup ThumbnailSizes
      <3>1. View!AddThumbnails(a)
        BY <1>3, <1>4, <1>5, <2>4 DEF View!AddThumbnails
      <3>2. QED
        BY <3>1 DEF View!Next
    <2>5. CASE row[a].stage = "live" /\ row'[a].stage = "deleted" /\ Shown(a)' = {}
      <3>1. View!Withdraw(a)
        BY <1>3, <1>4, <2>5 DEF View!Withdraw
      <3>2. QED
        BY <3>1 DEF View!Next
    <2>6. QED
      BY <2>1, <2>2, <2>3, <2>4, <2>5 DEF Progress
  <1>8. QED
    BY <1>2, <1>7 DEF Kept

-----------------------------------------------------------------------------
(* The worker. *)

\* What a handler may do to the objects and thumbnails of avatar a.
Written(a) ==
  \/ row'[a].thumbs = row[a].thumbs /\ object'[a] = object[a]
  \/ row'[a].thumbs = row[a].thumbs /\ ~Visible(a) /\ object'[a] \subseteq object[a]
  \/ /\ UploadEvent(a) \in published
     /\ row'[a].thumbs = row[a].thumbs
     /\ \E key \in Key : object'[a] = object[a] \cup {key}
  \/ /\ UploadEvent(a) \in published
     /\ row'[a].thumbs = ThumbnailSizes /\ object'[a] = object[a]
     /\ Visible(a) => ThumbnailSizes \subseteq object[a]

\* A handler writes to the avatar of its event only.
LEMMA HandlerWrites ==
  ASSUME SystemInv, NEW l \in Loop,
         \/ \E m \in buffer[l] : TakeAndHandle(l, m)
         \/ RetryHandler(l)
         \/ HandlerCall(l)
  PROVE  \/ UNCHANGED storageVars
         \/ \E a \in AvatarId :
              /\ \A b \in AvatarId \ {a} : row'[b] = row[b] /\ object'[b] = object[b]
              /\ Written(a)
  <1> DEFINE a == Goal(l)
  <1>types. StorageTypeOK /\ HandlerBooks(l)
    BY DEF SystemInv, TypeOK
  <1>goal. pc[l] \in {"handle", "callback"} =>
             /\ a \in AvatarId /\ cur[l] \in published
             /\ cur[l].kind = "upload" => UploadEvent(a) \in published
             /\ cur[l].kind = "delete" => ~Visible(a)
    BY HandlerGoal, UploadEventOf DEF Goal
  <1>status. ASSUME NEW o, NEW status, a \in AvatarId, SetProcessingStatus(a, status, o)
             PROVE  /\ \A b \in AvatarId \ {a} : row'[b] = row[b] /\ object'[b] = object[b]
                    /\ Written(a)
    <2>1. row'[a].thumbs = row[a].thumbs /\ object' = object
      BY <1>types, <1>status DEF SetProcessingStatus, Update, StorageTypeOK, Row
    <2>2. \A b \in AvatarId \ {a} : row'[b] = row[b]
      BY <1>types, <1>status DEF SetProcessingStatus, Update, StorageTypeOK
    <2>3. QED
      BY <2>1, <2>2 DEF Written
  <1>1. CASE \/ \E m \in buffer[l] : TakeAndHandle(l, m)
             \/ RetryHandler(l) \/ ReadAvatar(l) \/ FetchOriginal(l)
    BY <1>1 DEF TakeAndHandle, RetryHandler, ReadAvatar, FetchOriginal
  <1>2. CASE \/ MarkProcessing(l) \/ RejectOriginal(l) \/ MarkDeleted(l) \/ UploadFailed(l)
    <2>1. pc[l] \in {"handle", "callback"} /\ \E o, status : SetProcessingStatus(a, status, o)
      BY <1>2 DEF MarkProcessing, RejectOriginal, MarkDeleted, UploadFailed, CallbackReturns, At
    <2>2. QED
      BY <1>goal, <1>status, <2>1
  <1>3. ASSUME NEW size \in Key, StoreThumbnail(l, size)
        PROVE  /\ \A b \in AvatarId \ {a} : row'[b] = row[b] /\ object'[b] = object[b]
               /\ Written(a) /\ a \in AvatarId
    <2>1. pc[l] = "handle" /\ step[l] = "store" /\ \E o : Put(a, size, o)
      BY <1>3 DEF StoreThumbnail, At
    <2>2. a \in AvatarId /\ UploadEvent(a) \in published
      BY <1>types, <1>goal, <2>1 DEF HandlerBooks
    <2>3. UNCHANGED row /\ object'[a] \in {object[a], object[a] \cup {size}}
          /\ \A b \in AvatarId \ {a} : object'[b] = object[b]
      BY <1>types, <2>1, <2>2 DEF Put, StorageTypeOK
    <2>4. QED
      BY <2>2, <2>3 DEF Written
  <1>4. ASSUME NEW key \in Key, RemoveObject(l, key)
        PROVE  /\ \A b \in AvatarId \ {a} : row'[b] = row[b] /\ object'[b] = object[b]
               /\ Written(a) /\ a \in AvatarId
    <2>1. pc[l] = "handle" /\ step[l] = "remove" /\ \E o : Remove(a, key, o)
      BY <1>4 DEF RemoveObject, At
    <2>2. a \in AvatarId /\ ~Visible(a)
      BY <1>types, <1>goal, <2>1 DEF HandlerBooks
    <2>3. UNCHANGED row /\ object'[a] \subseteq object[a]
          /\ \A b \in AvatarId \ {a} : object'[b] = object[b]
      BY <1>types, <2>1, <2>2 DEF Remove, StorageTypeOK
    <2>4. QED
      BY <2>2, <2>3 DEF Written
  <1>5. CASE SaveThumbnails(l)
    <2>1. pc[l] = "handle" /\ step[l] = "save" /\ \E o : SetThumbnails(a, ThumbnailSizes, o)
      BY <1>5 DEF SaveThumbnails, At
    <2>2. /\ a \in AvatarId /\ UploadEvent(a) \in published
          /\ Visible(a) => ThumbnailSizes \subseteq object[a]
      BY <1>types, <1>goal, <2>1 DEF HandlerBooks
    <2>3. row'[a].thumbs \in {row[a].thumbs, ThumbnailSizes} /\ UNCHANGED object
      BY <1>types, <2>1, <2>2 DEF SetThumbnails, Update, StorageTypeOK, Row
    <2>4. \A b \in AvatarId \ {a} : row'[b] = row[b]
      BY <1>types, <2>1 DEF SetThumbnails, Update, StorageTypeOK
    <2>5. QED
      BY <2>2, <2>3, <2>4 DEF Written
  <1>6. QED
    BY <1>1, <1>2, <1>3, <1>4, <1>5 DEF HandlerCall

\* Whatever a handler writes, clients see all the thumbnails at once or nothing new.
LEMMA HandlerKeeps ==
  ASSUME SystemInv, PromiseInv, NEW l \in Loop, UNCHANGED <<serviceVars, published>>,
         \/ \E m \in buffer[l] : TakeAndHandle(l, m)
         \/ RetryHandler(l)
         \/ HandlerCall(l)
  PROVE  Kept
  <1>same. UNCHANGED <<upload, published>>
    BY DEF serviceVars, uploadVars
  <1>stage. \A b \in AvatarId : row'[b].stage = row[b].stage
    BY HandlerStepSound DEF HandlerSound, StoresStep, RowsStand
  <1>1. CASE UNCHANGED storageVars
    BY <1>1, <1>same, NoneMoves DEF Untouched, storageVars
  <1>2. ASSUME NEW a \in AvatarId, Written(a),
               \A b \in AvatarId \ {a} : row'[b] = row[b] /\ object'[b] = object[b]
        PROVE  Kept
    <2>types. /\ row[a].thumbs \subseteq ThumbnailSizes /\ object[a] \subseteq Key
              /\ Visible(a) => row[a].thumbs \subseteq object[a]
      BY DEF SystemInv, TypeOK, StorageTypeOK, Row, AdvertisedThumbnailsExist
    <2>0. PromiseBooks(a) /\ (Visible(a)' <=> Visible(a))
      BY <1>stage DEF PromiseInv, Visible
    <2>1. \A b \in AvatarId \ {a} : Untouched(b)
      BY <1>2, <1>same DEF Untouched
    <2>2. CASE row'[a].thumbs = row[a].thumbs /\ object'[a] = object[a]
      <3>1. Untouched(a)
        BY <1>stage, <1>same, <2>2 DEF Untouched
      <3>2. QED
        BY <2>1, <3>1, NoneMoves
    <2>3. CASE row'[a].thumbs = row[a].thumbs /\ ~Visible(a) /\ object'[a] \subseteq object[a]
      <3>1. PromiseBooks(a)'
        BY <1>same, <2>0, <2>3 DEF PromiseBooks
      <3>2. Progress(a)
        BY <1>stage, <2>0, <2>3 DEF Progress, Shown
      <3>3. QED
        BY <2>1, <3>1, <3>2, OneMoves
    <2>4. CASE /\ UploadEvent(a) \in published
               /\ row'[a].thumbs = row[a].thumbs
               /\ \E key \in Key : object'[a] = object[a] \cup {key}
      <3>1. PromiseBooks(a)'
        BY <1>same, <2>0, <2>4 DEF PromiseBooks
      <3>2. Visible(a) => {OriginalKey} \cup row[a].thumbs \subseteq object[a]
        BY <2>types, <2>0, <2>4 DEF PromiseBooks
      <3>3. Shown(a)' = Shown(a)
        BY <2>0, <2>4, <3>2 DEF Shown
      <3>4. QED
        BY <1>stage, <2>1, <3>1, <3>3, OneMoves DEF Progress
    <2>5. CASE /\ UploadEvent(a) \in published
               /\ row'[a].thumbs = ThumbnailSizes /\ object'[a] = object[a]
               /\ Visible(a) => ThumbnailSizes \subseteq object[a]
      <3>1. PromiseBooks(a)'
        BY <1>same, <2>0, <2>5 DEF PromiseBooks
      <3>2. Visible(a) => {OriginalKey} \cup ThumbnailSizes \subseteq object[a]
        BY <2>0, <2>5 DEF PromiseBooks
      <3>3. Visible(a) => /\ Shown(a) = {OriginalKey} \cup row[a].thumbs
                          /\ Shown(a)' = {OriginalKey} \cup ThumbnailSizes
        BY <2>types, <2>0, <2>5, <3>2 DEF Shown
      <3>4. ~Visible(a) => Shown(a)' = Shown(a)
        BY <2>0 DEF Shown
      <3>5. row[a].thumbs \in {{}, ThumbnailSizes}
        BY <2>0 DEF PromiseBooks
      <3>6. Progress(a)
        BY <1>stage, <3>3, <3>4, <3>5 DEF Progress, Visible
      <3>7. QED
        BY <2>1, <3>1, <3>6, OneMoves
    <2>6. QED
      BY <1>2, <2>2, <2>3, <2>4, <2>5 DEF Written
  <1>3. QED
    BY <1>1, <1>2, HandlerWrites

-----------------------------------------------------------------------------
(* The server. *)

\* An upload shows its original when it is stored, before anybody announces it.
LEMMA UploadKeeps ==
  ASSUME SystemInv, PromiseInv, NEW a \in AvatarId, UNCHANGED published,
         \/ UploadCreate(a) \/ UploadPut(a) \/ UploadMarkFailed(a)
         \/ UploadMarkUploaded(a) \/ UploadCrash(a)
  PROVE  Kept
  <1>types. /\ StorageTypeOK /\ upload \in [AvatarId -> UploadState]
            /\ UploadBooks(a) /\ PromiseBooks(a)
    BY DEF SystemInv, TypeOK, ServiceTypeOK, PromiseInv
  <1>call. \A b \in AvatarId \ {a} : upload'[b] = upload[b]
    BY <1>types DEF UploadCreate, UploadPut, UploadMarkFailed, UploadMarkUploaded, UploadCrash, UploadCall
  <1>1. CASE UploadCreate(a)
    <2>1. upload[a] = "none" /\ upload'[a] \in {"put", "error"} /\ UNCHANGED object
      BY <1>types, <1>1 DEF UploadCreate, UploadCall, Create
    <2>2. row[a].stage = "absent" /\ object[a] = {} /\ UploadEvent(a) \notin published
          /\ row[a].thumbs = {}
      BY <1>types, <2>1 DEF UploadBooks, PromiseBooks
    <2>3. /\ \A b \in AvatarId \ {a} : row'[b] = row[b]
          /\ row'[a].thumbs = {} /\ row'[a].stage \in {"absent", "live"}
      <3>1. UNCHANGED row \/ \E t \in {clock, clock + 1} : row' = [row EXCEPT ![a] = FreshRow(t)]
        BY <1>1 DEF UploadCreate, Create
      <3>2. QED
        BY <1>types, <2>2, <3>1 DEF StorageTypeOK, FreshRow
    <2>4. PromiseBooks(a)'
      BY <2>1, <2>2, <2>3 DEF PromiseBooks
    <2>5. Shown(a) = {} /\ Shown(a)' = {}
      BY <2>1, <2>2 DEF Shown
    <2>6. QED
      BY <1>call, <2>1, <2>2, <2>3, <2>4, <2>5, OneMoves DEF Progress, Untouched
  <1>2. CASE UploadPut(a)
    <2>1. PICK o \in Outcome : /\ UploadCall(a, "put", BucketFaults, o, "markUploaded", "markFailed")
                               /\ Put(a, OriginalKey, o)
      BY <1>2 DEF UploadPut
    <2>2. upload[a] = "put" /\ upload'[a] \in {"markUploaded", "markFailed"}
      BY <1>types, <2>1 DEF UploadCall
    <2>3. object[a] = {} /\ UploadEvent(a) \notin published /\ row[a].thumbs = {}
      BY <1>types, <2>2 DEF PromiseBooks
    <2>4. /\ UNCHANGED row /\ object'[a] \in {{}, {OriginalKey}}
          /\ \A b \in AvatarId \ {a} : object'[b] = object[b]
      BY <1>types, <2>1, <2>3 DEF Put, StorageTypeOK
    <2>5. PromiseBooks(a)'
      BY <2>2, <2>3, <2>4 DEF PromiseBooks
    <2>6. Shown(a) = {} /\ Shown(a)' = IF Visible(a) THEN object'[a] ELSE {}
      BY <2>3, <2>4 DEF Shown, Visible
    <2>7. Progress(a)
      BY <2>4, <2>6 DEF Progress, Visible
    <2>8. QED
      BY <1>call, <2>4, <2>5, <2>7, OneMoves DEF Untouched
  <1>3. CASE UploadMarkFailed(a) \/ UploadMarkUploaded(a)
    <2>1. /\ UNCHANGED object
          /\ \A b \in AvatarId : row'[b].stage = row[b].stage /\ row'[b].thumbs = row[b].thumbs
      BY <1>types, <1>3, UploadStatusWritten DEF UploadMarkFailed, UploadMarkUploaded, UploadStatus
    <2>2. \/ upload[a] \in {"markUploaded", "markFailed"} /\ upload'[a] = "error"
          \/ upload[a] = "markUploaded" /\ upload'[a] = "publish"
      BY <1>types, <1>3 DEF UploadMarkFailed, UploadMarkUploaded, UploadCall
    <2>3. PromiseBooks(a)'
      BY <1>types, <2>1, <2>2 DEF PromiseBooks, UploadBooks, Visible
    <2>4. Shown(a)' = Shown(a)
      BY <2>1 DEF Shown, Visible
    <2>5. QED
      BY <1>call, <2>1, <2>3, <2>4, OneMoves DEF Progress, Untouched
  <1>4. CASE UploadCrash(a)
    <2>1. UploadInFlight(a) /\ upload'[a] = "crashed" /\ UNCHANGED <<row, object>>
      BY <1>types, <1>4 DEF UploadCrash, storageVars
    <2>2. PromiseBooks(a)'
      BY <1>types, <2>1 DEF PromiseBooks, UploadInFlight
    <2>3. Shown(a)' = Shown(a)
      BY <2>1 DEF Shown, Visible
    <2>4. QED
      BY <1>call, <2>1, <2>2, <2>3, OneMoves DEF Progress, Untouched
  <1>5. QED
    BY <1>1, <1>2, <1>3, <1>4

\* The original is there when the event is published.
LEMMA UploadPublishKeeps ==
  ASSUME SystemInv, PromiseInv, NEW a \in AvatarId, UploadPublish(a), Publish(UploadEvent(a))
  PROVE  Kept
  <1>1. UNCHANGED <<row, object>> /\ upload[a] = "publish"
        /\ upload' = [upload EXCEPT ![a] = "created"]
    BY DEF UploadPublish, storageVars
  <1>types. upload \in [AvatarId -> UploadState] /\ PromiseBooks(a)
    BY DEF SystemInv, TypeOK, ServiceTypeOK, PromiseInv
  <1>2. \A b \in AvatarId \ {a} : UploadEvent(b) # UploadEvent(a)
    <2>1. \A b \in AvatarId : UploadEvent(b).avatar = b
      BY DEF UploadEvent
    <2>2. QED
      BY <2>1
  <1>3. \A b \in AvatarId \ {a} : Untouched(b)
    BY <1>1, <1>2, <1>types, PublishedGrows DEF Untouched
  <1>4. PromiseBooks(a)'
    BY <1>1, <1>types, PublishedGrows DEF PromiseBooks, Visible
  <1>5. Shown(a)' = Shown(a)
    BY <1>1 DEF Shown, Visible
  <1>6. QED
    BY <1>1, <1>3, <1>4, <1>5, OneMoves DEF Progress

\* A deletion takes an avatar away as a whole.
LEMMA DeleteKeeps ==
  ASSUME SystemInv, PromiseInv, NEW d \in DeleteRequest,
         \A a \in AvatarId : UploadEvent(a) \in published' <=> UploadEvent(a) \in published,
         \/ DeleteLatestForeign(d) \/ DeleteLatestRead(d) \/ \E a \in AvatarId : DeleteRead(d, a)
         \/ DeleteHide(d) \/ DeletePublish(d) \/ DeleteCrash(d)
  PROVE  Kept
  <1>upload. UNCHANGED upload
    BY DEF DeleteLatestForeign, DeleteLatestRead, DeleteRead, DeleteHide, DeletePublish,
      DeleteCrash, uploadVars
  <1>1. CASE DeleteHide(d)
    <2>0. PICK a \in AvatarId : a = target[d]
      BY <1>1 DEF DeleteHide, SystemInv, DeleteBooks
    <2>1. StorageTypeOK /\ PromiseBooks(a)
      BY DEF SystemInv, TypeOK, PromiseInv
    <2>2. /\ UNCHANGED object
          /\ \A b \in AvatarId :
               /\ row'[b].thumbs = row[b].thumbs
               /\ row'[b].stage = row[b].stage
                    \/ (b = a /\ Visible(b) /\ row'[b].stage = "deleted")
      BY <1>1, <2>0, <2>1, RowHidden DEF DeleteHide
    <2>3. \A b \in AvatarId \ {a} : Untouched(b)
      BY <1>upload, <2>2 DEF Untouched
    <2>4. Visible(a)' => Visible(a)
      BY <2>1, <2>2 DEF Visible
    <2>5. PromiseBooks(a)'
      BY <1>upload, <2>1, <2>2, <2>4 DEF PromiseBooks
    <2>6. Progress(a)
      BY <2>1, <2>2 DEF Progress, Shown, Visible
    <2>7. QED
      BY <2>1, <2>3, <2>5, <2>6, OneMoves
  <1>2. CASE \/ DeleteLatestForeign(d) \/ DeleteLatestRead(d) \/ \E a \in AvatarId : DeleteRead(d, a)
             \/ DeletePublish(d) \/ DeleteCrash(d)
    <2>1. UNCHANGED <<row, object>>
      BY <1>2 DEF DeleteLatestForeign, DeleteLatestRead, DeleteRead, DeletePublish, DeleteCrash,
        storageVars
    <2>2. QED
      BY <1>upload, <2>1, NoneMoves DEF Untouched
  <1>3. QED
    BY <1>1, <1>2

-----------------------------------------------------------------------------
(* The theorem. *)

LEMMA PromiseInit ==
  ASSUME Init
  PROVE  PromiseInv /\ View!Init
  <1>1. \A a \in AvatarId : /\ row[a].stage = "absent" /\ row[a].thumbs = {}
                            /\ object[a] = {} /\ upload[a] = "none"
    BY DEF Init, StorageInit, ServiceInit, FreshRow
  <1>2. published = {}
    BY DEF Init, ConsumerInit
  <1>3. PromiseInv
    BY <1>1, <1>2 DEF PromiseInv, PromiseBooks
  <1>4. \A a \in AvatarId : Shown(a) = {}
    BY <1>1 DEF Shown
  <1>5. QED
    BY <1>1, <1>3, <1>4 DEF View!Init

LEMMA PromiseStep ==
  ASSUME SystemInv, PromiseInv, [SystemNext]_vars
  PROVE  Kept
  <1>still. ASSUME UNCHANGED <<storageVars, serviceVars, published>> PROVE Kept
    BY <1>still, NoneMoves DEF Untouched, storageVars, serviceVars, uploadVars
  <1>published. UNCHANGED consumerVars => UNCHANGED published
    BY DEF consumerVars, historyVars
  <1>1. CASE UNCHANGED vars
    BY <1>1, <1>still, <1>published DEF vars
  <1>2. CASE NewRequest \/ ServerCrash
    BY <1>2, <1>published, UploadKeeps, DeleteKeeps DEF NewRequest, ServerCrash
  <1>3. ASSUME NEW a \in AvatarId, UploadStep(a) PROVE Kept
    BY <1>3, <1>published, UploadKeeps, UploadPublishKeeps DEF UploadStep
  <1>4. ASSUME NEW d \in DeleteRequest, DeleteStep(d) PROVE Kept
    <2>1. CASE DeleteHide(d) /\ UNCHANGED consumerVars
      BY <1>published, <2>1, DeleteKeeps
    <2>2. CASE DeletePublish(d) /\ Publish(DeleteEvent(target[d], delKeys[d]))
      <3>1. \A a \in AvatarId : UploadEvent(a) # DeleteEvent(target[d], delKeys[d])
        <4>1. DeleteEvent(target[d], delKeys[d]).kind = "delete"
          BY DEF DeleteEvent
        <4>2. \A a \in AvatarId : UploadEvent(a).kind = "upload"
          BY DEF UploadEvent
        <4>3. QED
          BY <4>1, <4>2
      <3>2. \A a \in AvatarId : UploadEvent(a) \in published' <=> UploadEvent(a) \in published
        BY <2>2, <3>1, PublishedGrows
      <3>3. QED
        BY <2>2, <3>2, DeleteKeeps
    <2>3. QED
      BY <1>4, <2>1, <2>2 DEF DeleteStep
  <1>5. ASSUME NEW l \in Loop, WorkerLoopStep(l) PROVE Kept
    <2>1. CASE PlainLoopStep(l) /\ UNCHANGED <<storageVars, processorVars>>
      <3>1. UNCHANGED published
        BY <2>1 DEF PlainLoopStep, StopLoop, LoseChannel, BackoffCanceled, Ack, Requeue,
          GiveUp, Bury, Release, historyVars
      <3>2. QED
        BY <1>5, <1>still, <2>1, <3>1 DEF WorkerLoopStep
    <2>2. CASE \/ \E m \in buffer[l] : TakeAndHandle(l, m)
               \/ RetryHandler(l)
               \/ HandlerCall(l)
      <3>1. UNCHANGED published
        BY <2>2 DEF TakeAndHandle, Take, RetryHandler, Retry, HandlerCall, ReadAvatar,
          MarkProcessing, FetchOriginal, StoreThumbnail, RemoveObject, RejectOriginal,
          SaveThumbnails, MarkDeleted, UploadFailed, CallbackReturns, Finish, Succeed, Fail,
          HandlerOK, HandlerFails, Continue, consumerVars, historyVars
      <3>2. QED
        BY <1>5, <2>2, <3>1, HandlerKeeps DEF WorkerLoopStep
    <2>3. QED
      BY <1>5, <2>1, <2>2 DEF WorkerLoopStep
  <1>6. CASE \/ \E l \in Loop : BrokerStep(l)
             \/ \E w \in Worker : WorkerRunStep(w) \/ WorkerDisruption(w)
    <2>1. UNCHANGED published
      BY <1>6 DEF BrokerStep, Deliver, WorkerRunStep, RunStep, CloseConn, Restart,
        WorkerDisruption, Terminate, LoseConn, Crash, historyVars
    <2>2. QED
      BY <1>6, <1>still, <2>1 DEF BrokerStep, WorkerRunStep, WorkerDisruption
  <1>7. QED
    BY <1>1, <1>2, <1>3, <1>4, <1>5, <1>6 DEF SystemNext

\* ClientsPromised: with any number of requests, workers, redeliveries, crashes and
\* faults, what clients can download of an avatar is what AvatarPromise allows: the
\* original, then all thumbnails at once, and nothing goes before the deletion.
THEOREM ClientsPromised == SystemSpec => ClientPromise
  <1>1. Init => PromiseInv /\ View!Init
    BY PromiseInit
  <1>2. SystemInv /\ PromiseInv /\ [SystemNext]_vars => PromiseInv' /\ [View!Next]_(View!promiseVars)
    BY PromiseStep DEF Kept
  <1>3. QED
    BY <1>1, <1>2, SystemInvariant, PTL DEF SystemSpec, ClientPromise, View!Spec

=============================================================================
