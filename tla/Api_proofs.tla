----------------------------- MODULE Api_proofs -----------------------------
(***************************************************************************)
(* Proof that known links are served, for any number of readers, workers,  *)
(* requests and faults.                                                    *)
(***************************************************************************)
EXTENDS Api, GophProfile_proofs

-----------------------------------------------------------------------------
(* What a step of the system leaves of a record. *)

\* A record never goes away, never returns from deletion, and never loses a
\* thumbnail it recorded.
RecordsStand ==
  \A a \in AvatarId : Exists(a) =>
    /\ Exists(a)' /\ row[a].thumbs \subseteq row'[a].thumbs
    /\ row[a].stage = "deleted" => row'[a].stage = "deleted"

\* The calls of the repository that change rows, and those that do not.
LEMMA CallsKeepRecords ==
  ASSUME StorageTypeOK, NEW a \in AvatarId, NEW o \in Outcome,
         \/ \E status \in UploadStatus : SetUploadStatus(a, status, o)
         \/ \E status \in ProcessingStatus : SetProcessingStatus(a, status, o)
         \/ SetThumbnails(a, ThumbnailSizes, o)
         \/ SoftDelete(a, o)
         \/ Create(a, o) /\ ~Exists(a)
  PROVE  RecordsStand
  <1> USE DEF StorageTypeOK, Row, Update, Exists, RecordsStand
  <1>1. CASE \E status \in UploadStatus : SetUploadStatus(a, status, o)
    BY <1>1 DEF SetUploadStatus
  <1>2. CASE \E status \in ProcessingStatus : SetProcessingStatus(a, status, o)
    BY <1>2 DEF SetProcessingStatus
  <1>3. CASE SetThumbnails(a, ThumbnailSizes, o)
    BY <1>3 DEF SetThumbnails
  <1>4. CASE SoftDelete(a, o)
    BY <1>4 DEF SoftDelete, Visible
  <1>5. CASE Create(a, o) /\ ~Exists(a)
    BY <1>5 DEF Create
  <1>6. QED
    BY <1>1, <1>2, <1>3, <1>4, <1>5

LEMMA UnchangedKeepsRecords ==
  ASSUME UNCHANGED row
  PROVE  RecordsStand
  BY DEF RecordsStand, Exists

\* A handler's step.
LEMMA HandlerKeepsRecords ==
  ASSUME SystemInv, NEW l \in Loop,
         \/ \E m \in buffer[l] : TakeAndHandle(l, m)
         \/ RetryHandler(l)
         \/ HandlerCall(l)
  PROVE  RecordsStand
  <1>types. StorageTypeOK
    BY DEF SystemInv, TypeOK
  <1>goal. pc[l] \in {"handle", "callback"} => Goal(l) \in AvatarId
    BY HandlerGoal
  <1>outcomes. WorkerOutcome(l, DatabaseFaults) \subseteq Outcome
    BY FaultsAssumption DEF WorkerOutcome, Outcome
  <1>1. CASE (\E m \in buffer[l] : TakeAndHandle(l, m)) \/ RetryHandler(l)
    BY <1>1, UnchangedKeepsRecords DEF TakeAndHandle, RetryHandler, storageVars
  <1>2. CASE ReadAvatar(l) \/ FetchOriginal(l)
    BY <1>2, UnchangedKeepsRecords DEF ReadAvatar, FetchOriginal, storageVars
  <1>3. CASE \E key \in Key : StoreThumbnail(l, key) \/ RemoveObject(l, key)
    BY <1>3, UnchangedKeepsRecords DEF StoreThumbnail, RemoveObject, Put, Remove
  <1>4. CASE MarkProcessing(l) \/ RejectOriginal(l) \/ MarkDeleted(l)
    BY <1>4, <1>types, <1>goal, <1>outcomes, CallsKeepRecords
      DEF MarkProcessing, RejectOriginal, MarkDeleted, At, ProcessingStatus
  <1>5. CASE SaveThumbnails(l)
    BY <1>5, <1>types, <1>goal, <1>outcomes, CallsKeepRecords DEF SaveThumbnails, At
  <1>6. CASE UploadFailed(l)
    BY <1>6, <1>types, <1>goal, <1>outcomes, CallsKeepRecords
      DEF UploadFailed, CallbackReturns, ProcessingStatus
  <1>7. QED
    BY <1>1, <1>2, <1>3, <1>4, <1>5, <1>6 DEF HandlerCall

\* A request's step.
LEMMA UploadKeepsRecords ==
  ASSUME SystemInv, NEW a \in AvatarId,
         \/ UploadCreate(a) \/ UploadPut(a) \/ UploadMarkFailed(a)
         \/ UploadMarkUploaded(a) \/ UploadPublish(a) \/ UploadCrash(a)
  PROVE  RecordsStand
  <1>types. StorageTypeOK
    BY DEF SystemInv, TypeOK
  <1>1. CASE UploadCreate(a)
    <2>1. ~Exists(a)
      BY <1>1 DEF UploadCreate, UploadCall, SystemInv, UploadBooks, Exists
    <2>2. QED
      BY <1>1, <1>types, <2>1, CallsKeepRecords DEF UploadCreate
  <1>2. CASE UploadPut(a) \/ UploadPublish(a) \/ UploadCrash(a)
    BY <1>2, UnchangedKeepsRecords DEF UploadPut, UploadPublish, UploadCrash, Put, storageVars
  <1>3. CASE UploadMarkFailed(a) \/ UploadMarkUploaded(a)
    BY <1>3, <1>types, CallsKeepRecords DEF UploadMarkFailed, UploadMarkUploaded, UploadStatus
  <1>4. QED
    BY <1>1, <1>2, <1>3

LEMMA DeleteKeepsRecords ==
  ASSUME SystemInv, NEW d \in DeleteRequest,
         \/ DeleteLatestForeign(d) \/ DeleteLatestRead(d) \/ \E a \in AvatarId : DeleteRead(d, a)
         \/ DeleteHide(d) \/ DeletePublish(d) \/ DeleteCrash(d)
  PROVE  RecordsStand
  <1>1. CASE DeleteHide(d)
    <2>1. target[d] \in AvatarId /\ StorageTypeOK
      BY <1>1 DEF DeleteHide, SystemInv, DeleteBooks, TypeOK
    <2>2. QED
      BY <1>1, <2>1, CallsKeepRecords DEF DeleteHide
  <1>2. CASE ~DeleteHide(d)
    BY <1>2, UnchangedKeepsRecords
      DEF DeleteLatestForeign, DeleteLatestRead, DeleteRead, DeletePublish, DeleteCrash, storageVars
  <1>3. QED
    BY <1>1, <1>2

-----------------------------------------------------------------------------
(* Links stand. *)

LEMMA SystemStands ==
  ASSUME SystemInv, [SystemNext]_vars
  PROVE  RecordsStand /\ ObjectsStand
  <1>still. ASSUME UNCHANGED storageVars PROVE RecordsStand /\ ObjectsStand
    BY <1>still, UnchangedKeepsRecords DEF ObjectsStand, storageVars
  <1>1. CASE UNCHANGED vars
    BY <1>1, <1>still DEF vars
  <1>2. CASE NewRequest \/ ServerCrash
    BY <1>2, UploadKeepsRecords, DeleteKeepsRecords, UploadSound, DeleteSound
      DEF NewRequest, ServerCrash, ServerSound
  <1>3. ASSUME NEW a \in AvatarId, UploadStep(a) PROVE RecordsStand /\ ObjectsStand
    BY <1>3, UploadKeepsRecords, UploadSound, UploadPublishSound DEF UploadStep, ServerSound
  <1>4. ASSUME NEW d \in DeleteRequest, DeleteStep(d) PROVE RecordsStand /\ ObjectsStand
    BY <1>4, DeleteKeepsRecords, DeleteSound, DeletePublishSound DEF DeleteStep, ServerSound
  <1>5. ASSUME NEW l \in Loop, WorkerLoopStep(l) PROVE RecordsStand /\ ObjectsStand
    BY <1>5, <1>still, HandlerKeepsRecords, HandlerStepSound
      DEF WorkerLoopStep, HandlerSound, StoresStep
  <1>6. CASE \/ \E l \in Loop : BrokerStep(l)
             \/ \E w \in Worker : WorkerRunStep(w) \/ WorkerDisruption(w)
    BY <1>6, <1>still DEF BrokerStep, WorkerRunStep, WorkerDisruption
  <1>7. QED
    BY <1>1, <1>2, <1>3, <1>4, <1>5, <1>6 DEF SystemNext

\* A link that stands keeps standing.
LEMMA LinkKept ==
  ASSUME StorageTypeOK, StorageTypeOK', RecordsStand, ObjectsStand,
         NEW link \in Link, LinkStands(link)
  PROVE  LinkStands(link)'
  <1>1. link[1] \in AvatarId
    BY DEF Link
  <1>2. Exists(link[1])
    BY DEF LinkStands, Exists, Visible
  <1>3. Exists(link[1])' => row'[link[1]].stage = "deleted" \/ Visible(link[1])'
    BY <1>1 DEF StorageTypeOK, Row, Exists, Visible
  <1>4. QED
    BY <1>1, <1>2, <1>3 DEF RecordsStand, ObjectsStand, LinkStands

\* The original of an upload that got past its last database call is there.
LEMMA UploadReached ==
  ASSUME ApiInv, [SystemNext]_vars, NEW a \in AvatarId, upload'[a] \in {"publish", "created"}
  PROVE  LinkStands(<<a, OriginalKey>>)
  <1>types. upload \in [AvatarId -> UploadState]
    BY DEF ApiInv, SystemInv, TypeOK, ServiceTypeOK
  <1>1. upload[a] \in {"publish", "created", "markUploaded"}
    <2>1. ASSUME UNCHANGED upload PROVE upload[a] \in {"publish", "created"}
      BY <2>1
    <2>2. ASSUME NEW b \in AvatarId, UploadCreate(b) PROVE upload[a] \in {"publish", "created"}
      BY <1>types, <2>2 DEF UploadCreate, UploadCall
    <2>3. ASSUME NEW b \in AvatarId, UploadCrash(b) PROVE upload[a] \in {"publish", "created"}
      BY <1>types, <2>3 DEF UploadCrash
    <2>4. ASSUME NEW b \in AvatarId, UploadStep(b)
          PROVE  upload[a] \in {"publish", "created", "markUploaded"}
      BY <1>types, <2>4 DEF UploadStep, UploadPut, UploadMarkFailed, UploadMarkUploaded,
        UploadPublish, UploadCall
    <2>5. CASE UNCHANGED vars
      BY <2>1, <2>5 DEF vars, serviceVars, uploadVars
    <2>6. CASE NewRequest \/ ServerCrash
      BY <2>1, <2>2, <2>3, <2>6 DEF NewRequest, ServerCrash, DeleteLatestForeign, DeleteLatestRead, DeleteRead,
        DeleteCrash, uploadVars
    <2>7. CASE \E d \in DeleteRequest : DeleteStep(d)
      BY <2>1, <2>7 DEF DeleteStep, DeleteHide, DeletePublish, uploadVars
    <2>8. CASE \/ \E l \in Loop : WorkerLoopStep(l) \/ BrokerStep(l)
               \/ \E w \in Worker : WorkerRunStep(w) \/ WorkerDisruption(w)
      BY <2>1, <2>8 DEF WorkerLoopStep, BrokerStep, WorkerRunStep, WorkerDisruption,
        serviceVars, uploadVars
    <2>9. QED
      BY <2>4, <2>5, <2>6, <2>7, <2>8 DEF SystemNext
  <1>2. ASSUME upload[a] = "markUploaded" PROVE LinkStands(<<a, OriginalKey>>)
    <2>1. Exists(a) /\ (Visible(a) => OriginalKey \in object[a])
      BY <1>2 DEF ApiInv, SystemInv, UploadBooks, UploadInFlight
    <2>2. row[a].stage = "deleted" \/ Visible(a)
      BY <2>1 DEF ApiInv, SystemInv, TypeOK, StorageTypeOK, Row, Exists, Visible
    <2>3. QED
      BY <2>1, <2>2, SizesAssumption DEF LinkStands, OriginalKey
  <1>3. QED
    BY <1>1, <1>2 DEF ApiInv

-----------------------------------------------------------------------------
(* The invariant. *)

\* A reader's step: what it learns stands, what it misses is deleted.
LEMMA ReaderStepKeeps ==
  ASSUME ApiInv, NEW r \in Reader, ReaderStep(r)
  PROVE  ApiInv'
  <1> USE DEF ReaderTypeOK
  <1>frame. UNCHANGED vars /\ UNCHANGED <<row, object, upload>>
    BY DEF ReaderStep, vars, storageVars, serviceVars, uploadVars
  <1>types. ReaderTypeOK /\ KnownLinksServed
    BY DEF ApiInv
  <1>stands. \A link : LinkStands(link)' <=> LinkStands(link)
    BY <1>frame DEF LinkStands, Visible
  <1>system. SystemInv'
    <2>1. [SystemNext]_vars
      BY <1>frame
    <2>2. QED
      BY <2>1, SystemStep DEF ApiInv
  <1>learn. ASSUME NEW links \in SUBSET Link, Learn(r, links), \A link \in links : LinkStands(link)
            PROVE  ApiInv'
    BY <1>frame, <1>types, <1>stands, <1>system, <1>learn DEF Learn, ApiInv, KnownLinksServed
  <1>get. ASSUME NEW link \in Link, Found(r, link) \/ NotFound(r, link),
                 NotFound(r, link) /\ link \in known[r] => row[link[1]].stage = "deleted"
          PROVE  ApiInv'
    <2>1. ReaderTypeOK' /\ UNCHANGED known
      BY <1>types, <1>get DEF Found, NotFound, Miss
    <2>2. KnownLinksServed'
      BY <1>types, <1>frame, <1>get DEF Found, NotFound, Miss, KnownLinksServed
    <2>3. QED
      BY <1>frame, <1>stands, <1>system, <2>1, <2>2 DEF ApiInv
  <1>1. ASSUME NEW a \in AvatarId, UploadAnswered(r, a) PROVE ApiInv'
    <2>1. <<a, OriginalKey>> \in Link /\ LinkStands(<<a, OriginalKey>>)
      BY <1>1 DEF UploadAnswered, ApiInv, Link, Key
    <2>2. QED
      BY <1>1, <1>learn, <2>1 DEF UploadAnswered
  <1>thumbs. ASSUME NEW a \in AvatarId, Visible(a)
             PROVE  /\ ThumbnailLinks(a) \subseteq Link
                    /\ \A link \in ThumbnailLinks(a) : LinkStands(link)
    <2>1. row[a].thumbs \subseteq ThumbnailSizes /\ row[a].thumbs \subseteq object[a]
      BY <1>thumbs DEF ApiInv, SystemInv, TypeOK, StorageTypeOK, Row, AdvertisedThumbnailsExist
    <2>2. QED
      BY <1>thumbs, <2>1 DEF ThumbnailLinks, Link, Key, LinkStands
  <1>2. ASSUME NEW a \in AvatarId, Metadata(r, a) PROVE ApiInv'
    BY <1>2, <1>learn, <1>thumbs DEF Metadata
  <1>3. ASSUME NEW u \in UserId, List(r, u) PROVE ApiInv'
    <2> DEFINE links == UNION {ThumbnailLinks(a) : a \in ListByUser(u)}
    <2>1. links \in SUBSET Link /\ \A link \in links : LinkStands(link)
      BY <1>thumbs DEF ListByUser
    <2>2. Learn(r, links)
      BY <1>3 DEF List
    <2> HIDE DEF links
    <2>3. QED
      BY <1>learn, <2>1, <2>2
  <1>gone. ASSUME NEW link \in Link, link \in known[r], ~Visible(link[1])
           PROVE  row[link[1]].stage = "deleted"
    BY <1>gone DEF ApiInv, LinkStands
  <1>4. ASSUME NEW a \in AvatarId, GetFile(r, a) PROVE ApiInv'
    <2>1. <<a, OriginalKey>> \in Link /\ <<a, OriginalKey>>[1] = a
      BY DEF Link, Key
    <2>2. NotFound(r, <<a, OriginalKey>>) => opening' = opening
      BY DEF NotFound
    <2>3. Found(r, <<a, OriginalKey>>) => opening' # opening
      BY <1>types, <2>1, NoLinkAssumption DEF Found
    <2>4. QED
      BY <1>4, <1>get, <1>gone, <2>1, <2>2, <2>3 DEF GetFile
  <1>5. ASSUME NEW u \in UserId, LatestFile(r, u) PROVE ApiInv'
    <2>1. PICK a \in LatestByUser(u) : Found(r, <<a, OriginalKey>>)
      BY <1>5 DEF LatestFile
    <2>2. <<a, OriginalKey>> \in Link
      BY DEF LatestByUser, Link, Key
    <2>3. ~NotFound(r, <<a, OriginalKey>>)
      BY <1>types, <2>1, <2>2, NoLinkAssumption DEF Found, NotFound
    <2>4. QED
      BY <1>get, <2>1, <2>2, <2>3
  <1>6. ASSUME NEW a \in AvatarId, NEW size \in ThumbnailSizes, ThumbnailFile(r, a, size)
        PROVE  ApiInv'
    <2>1. <<a, size>> \in Link /\ <<a, size>>[1] = a /\ <<a, size>>[2] = size
      BY DEF Link, Key
    <2>2. NotFound(r, <<a, size>>) => opening' = opening
      BY DEF NotFound
    <2>3. Found(r, <<a, size>>) => opening' # opening
      BY <1>types, <2>1, NoLinkAssumption DEF Found
    <2>4. ASSUME <<a, size>> \in known[r], ~(Visible(a) /\ size \in row[a].thumbs)
          PROVE  row[a].stage = "deleted"
      BY <2>1, <2>4 DEF ApiInv, LinkStands
    <2>5. QED
      BY <1>6, <1>get, <2>1, <2>2, <2>3, <2>4 DEF ThumbnailFile
  <1>7. CASE OpenObject(r)
    <2>1. opening[r] \in Link /\ opening' \in [Reader -> Link \cup {NoLink}] /\ UNCHANGED known
      BY <1>7, <1>types DEF OpenObject
    <2>2. \/ UNCHANGED missed
          \/ Miss(r, opening[r]) /\ opening[r][2] \notin object[opening[r][1]]
      BY <1>7 DEF OpenObject
    <2>3. ASSUME opening[r] \in known[r], opening[r][2] \notin object[opening[r][1]]
          PROVE  row[opening[r][1]].stage = "deleted"
      BY <2>3 DEF ApiInv, LinkStands
    <2>4. ReaderTypeOK'
      BY <1>types, <2>1, <2>2 DEF Miss
    <2>5. KnownLinksServed'
      BY <1>types, <1>frame, <2>2, <2>3 DEF Miss, KnownLinksServed
    <2>6. QED
      BY <1>frame, <1>stands, <1>system, <2>1, <2>4, <2>5 DEF ApiInv
  <1>8. QED
    BY <1>1, <1>2, <1>3, <1>4, <1>5, <1>6, <1>7 DEF ReaderStep

LEMMA ApiStep ==
  ASSUME ApiInv, [ApiNext]_apiVars
  PROVE  ApiInv'
  <1>1. ASSUME [SystemNext]_vars, UNCHANGED readerVars PROVE ApiInv'
    <2>1. SystemInv' /\ RecordsStand /\ ObjectsStand
      BY <1>1, SystemStep, SystemStands DEF ApiInv
    <2>2. StorageTypeOK /\ StorageTypeOK'
      BY <2>1 DEF ApiInv, SystemInv, TypeOK
    <2>3. ASSUME NEW link \in Link, LinkStands(link) PROVE LinkStands(link)'
      BY <2>1, <2>2, <2>3, LinkKept
    <2>4. \A a \in AvatarId : upload'[a] \in {"publish", "created"} => LinkStands(<<a, OriginalKey>>)'
      BY <1>1, <2>3, UploadReached DEF Link, Key
    <2>5. \A r \in Reader : \A link \in known[r] : LinkStands(link)'
      BY <2>3 DEF ApiInv, ReaderTypeOK
    <2>6. \A r \in Reader : \A link \in missed[r] : row'[link[1]].stage = "deleted"
      BY <2>1 DEF ApiInv, ReaderTypeOK, KnownLinksServed, RecordsStand, Exists, Link
    <2>7. QED
      BY <1>1, <2>1, <2>4, <2>5, <2>6 DEF ApiInv, ReaderTypeOK, KnownLinksServed, readerVars
  <1>2. ASSUME NEW r \in Reader, ReaderStep(r) PROVE ApiInv'
    BY <1>2, ReaderStepKeeps
  <1>3. QED
    BY <1>1, <1>2 DEF ApiNext, apiVars

\* LinksServed: whoever was given a link gets its file or an error, and 404 only
\* after the deletion, with any readers, workers, redeliveries and faults.
THEOREM LinksServed == ApiSpec => []KnownLinksServed
  <1>1. ApiInit => ApiInv
    BY SystemInit DEF ApiInit, ApiInv, ReaderTypeOK, KnownLinksServed, Init, ServiceInit
  <1>2. ApiInv /\ [ApiNext]_apiVars => ApiInv'
    BY ApiStep
  <1>3. ApiInv => KnownLinksServed
    BY DEF ApiInv
  <1>4. QED
    BY <1>1, <1>2, <1>3, PTL DEF ApiSpec

\* ReadersChangeNothing: a system with readers is the system, so every theorem about
\* SystemSpec holds while clients read.
THEOREM ReadersChangeNothing == ApiSpec => SystemSpec
  <1>1. ApiInit => Init
    BY DEF ApiInit
  <1>2. [ApiNext]_apiVars => [SystemNext]_vars
    BY DEF ApiNext, ReaderStep, apiVars
  <1>3. QED
    BY <1>1, <1>2, PTL DEF ApiSpec, SystemSpec

=============================================================================
