------------------------- MODULE HttpServer_proofs --------------------------
(***************************************************************************)
(* Proofs about module HttpServer, for any set of requests, any limit and  *)
(* file sizes and any combination of faults, cancellations and panics.     *)
(***************************************************************************)
EXTENDS HttpServer, FiniteSetTheorems, TLAPS

-----------------------------------------------------------------------------
(* The counters *)

\* The sets that are counted are finite.
LEMMA CountedFinite ==
  /\ IsFiniteSet(Request)
  /\ \A S : S \subseteq AvatarId => IsFiniteSet(S)
  /\ \A S : S \subseteq Request => IsFiniteSet(S)
  <1>1. IsFiniteSet(Request)
    BY FiniteAssumption, FS_Union DEF Request
  <1>2. QED
    BY <1>1, FiniteAssumption, FS_Subset

\* Counting one more.
LEMMA OneMore ==
  ASSUME NEW S, NEW x, S \subseteq Request, x \notin S
  PROVE  Cardinality(S \cup {x}) = Cardinality(S) + 1
  BY CountedFinite, FS_AddElement

LEMMA UploadsAreRequests ==
  /\ Created \subseteq Request /\ Failed \subseteq Request
  /\ Rejected \subseteq Request
  BY DEF Created, Failed, Rejected, Answered, Request

\* A step that answers nothing and in which nobody panics or leaves the chain.
LEMMA CountersKept ==
  ASSUME HttpInv, UNCHANGED <<counterVars, answer>>,
         \A r \in Request : /\ at'[r] = "panicked" <=> at[r] = "panicked"
                            /\ at'[r] = "over" <=> at[r] = "over"
  PROVE  CountersAddUp'
  <1>1. Created' = Created
    BY DEF Created, Failed, Answered, Request
  <1>2. Failed' = Failed
    BY DEF Created, Failed, Answered, Request
  <1>3. Rejected' = Rejected
    BY DEF Rejected, Answered, Request
  <1>4. Left' = Left
    BY DEF Left
  <1>5. QED
    BY <1>1, <1>2, <1>3, <1>4 DEF HttpInv, CountersAddUp, counterVars

\* An answer: it is counted by its outcome, if it is an upload's.
LEMMA CountersReply ==
  ASSUME HttpInv, NEW r \in Request, NEW from, NEW code, NEW o,
         at[r] \notin {"over", "panicked"}, answer[r] = 0, Reply(r, from, code, o),
         r \in AvatarId => \/ code = 201 /\ o = "ok"
                           \/ code = 500 /\ o = "error"
                           \/ code \in {400, 413} /\ o = "rejected"
  PROVE  CountersAddUp'
  <1>1. /\ at \in [Request -> Place] /\ answer \in [Request -> Status \cup {0}]
        /\ uploads \in [UploadOutcome -> Nat] /\ CountersAddUp
    BY DEF HttpInv, HttpShape
  <1>2. /\ at' = [at EXCEPT ![r] = "observe"] /\ answer' = [answer EXCEPT ![r] = code]
        /\ CountUpload(r, o) /\ requests' = requests
    BY DEF Reply, Moves
  <1>3. Left' = Left
    BY <1>1, <1>2 DEF Left
  <1>4. CASE r \notin AvatarId
    <2>1. Created' = Created
      BY <1>2, <1>4 DEF Created, Failed, Answered, Request
    <2>2. Failed' = Failed
      BY <1>2, <1>4 DEF Created, Failed, Answered, Request
    <2>3. Rejected' = Rejected
      BY <1>2, <1>4 DEF Rejected, Answered, Request
    <2>4. QED
      BY <1>1, <1>2, <1>3, <1>4, <2>1, <2>2, <2>3 DEF CountUpload, CountersAddUp
  <1>5. CASE r \in AvatarId
    <2>1. r \notin Created /\ r \notin Failed /\ r \notin Rejected
      BY DEF Created, Failed, Rejected, Answered
    <2>2. Created' = Created \cup (IF code = 201 THEN {r} ELSE {})
      BY <1>1, <1>2, <1>5 DEF Created, Failed, Answered, Request
    <2>3. Failed' = Failed \cup (IF code = 500 THEN {r} ELSE {})
      BY <1>1, <1>2, <1>5 DEF Created, Failed, Answered, Request
    <2>4. Rejected' = Rejected \cup (IF code \in {400, 413} THEN {r} ELSE {})
      BY <1>1, <1>2, <1>5 DEF Rejected, Answered, Request
    <2>5. uploads' = [uploads EXCEPT ![o] = @ + 1]
      BY <1>2, <1>5 DEF CountUpload
    <2>6. CASE code = 201 /\ o = "ok"
      <3>1. Cardinality(Created \cup {r}) = Cardinality(Created) + 1
        BY <2>1, OneMore, UploadsAreRequests
      <3>2. Created' = Created \cup {r}
        BY <2>2, <2>6
      <3>3. Failed' = Failed
        BY <2>3, <2>6
      <3>4. Rejected' = Rejected
        BY <2>4, <2>6
      <3>5. QED
        BY <1>1, <1>2, <1>3, <2>5, <2>6, <3>1, <3>2, <3>3, <3>4 DEF CountersAddUp, UploadOutcome
    <2>7. CASE code = 500 /\ o = "error"
      <3>1. Cardinality(Failed \cup {r}) = Cardinality(Failed) + 1
        BY <2>1, OneMore, UploadsAreRequests
      <3>2. Created' = Created
        BY <2>2, <2>7
      <3>3. Failed' = Failed \cup {r}
        BY <2>3, <2>7
      <3>4. Rejected' = Rejected
        BY <2>4, <2>7
      <3>5. QED
        BY <1>1, <1>2, <1>3, <2>5, <2>7, <3>1, <3>2, <3>3, <3>4 DEF CountersAddUp, UploadOutcome
    <2>8. CASE code \in {400, 413} /\ o = "rejected"
      <3>1. Cardinality(Rejected \cup {r}) = Cardinality(Rejected) + 1
        BY <2>1, OneMore, UploadsAreRequests
      <3>2. Created' = Created
        BY <2>2, <2>8
      <3>3. Failed' = Failed
        BY <2>3, <2>8
      <3>4. Rejected' = Rejected \cup {r}
        BY <2>4, <2>8
      <3>5. QED
        BY <1>1, <1>2, <1>3, <2>5, <2>8, <3>1, <3>2, <3>3, <3>4 DEF CountersAddUp, UploadOutcome
    <2>9. QED
      BY <1>5, <2>6, <2>7, <2>8
  <1>6. QED
    BY <1>4, <1>5

\* A panic is counted as "rejected" if it is an upload's.
LEMMA CountersPanic ==
  ASSUME HttpInv, NEW r \in Request, Panic(r)
  PROVE  CountersAddUp'
  <1>1. /\ at \in [Request -> Place] /\ answer \in [Request -> Status \cup {0}]
        /\ uploads \in [UploadOutcome -> Nat] /\ CountersAddUp
    BY DEF HttpInv, HttpShape
  <1>2. /\ at' = [at EXCEPT ![r] = "panicked"] /\ answer' = [answer EXCEPT ![r] = 500]
        /\ CountUpload(r, "rejected") /\ requests' = requests
        /\ at[r] \in {"user", "length", "form", "service"} /\ answer[r] = 0
    BY DEF HttpInv, Panic, AnswerBooks
  <1>3. Left' = Left
    BY <1>1, <1>2 DEF Left
  <1>4. Created' = Created
    BY <1>1, <1>2 DEF Created, Failed, Answered, Request
  <1>5. Failed' = Failed
    BY <1>1, <1>2 DEF Created, Failed, Answered, Request
  <1>6. Rejected' = Rejected \cup (IF r \in AvatarId THEN {r} ELSE {})
    BY <1>1, <1>2 DEF Rejected, Answered, Request
  <1>7. r \notin Rejected
    BY <1>2 DEF Rejected, Answered
  <1>8. Cardinality(Rejected \cup {r}) = Cardinality(Rejected) + 1
    BY <1>7, OneMore, UploadsAreRequests
  <1>9. CASE r \in AvatarId
    BY <1>1, <1>2, <1>3, <1>4, <1>5, <1>6, <1>8, <1>9 DEF CountersAddUp, CountUpload, UploadOutcome
  <1>10. CASE r \notin AvatarId
    BY <1>1, <1>2, <1>3, <1>4, <1>5, <1>6, <1>10 DEF CountersAddUp, CountUpload
  <1>11. QED
    BY <1>9, <1>10

\* A request that leaves the chain is counted by its status.
LEMMA CountersObserve ==
  ASSUME HttpInv, NEW r \in Request, ObserveRequest(r)
  PROVE  CountersAddUp'
  <1>1. /\ at \in [Request -> Place] /\ answer \in [Request -> Status \cup {0}]
        /\ requests \in [Status -> Nat] /\ CountersAddUp
    BY DEF HttpInv, HttpShape
  <1>2. /\ at[r] = "observe" /\ at' = [at EXCEPT ![r] = "over"]
        /\ requests' = [requests EXCEPT ![answer[r]] = @ + 1]
        /\ UNCHANGED <<answer, uploads>>
    BY DEF ObserveRequest, Moves
  <1>3. answer[r] \in Status
    BY <1>1, <1>2 DEF HttpInv, AnswerBooks
  <1>4. Created' = Created
    BY <1>1, <1>2 DEF Created, Failed, Answered, Request
  <1>5. Failed' = Failed
    BY <1>1, <1>2 DEF Created, Failed, Answered, Request
  <1>6. Rejected' = Rejected
    BY <1>1, <1>2 DEF Rejected, Answered, Request
  <1>7. ASSUME NEW s \in Status
        PROVE  requests'[s] = Cardinality(Left'[s])
    <2>1. CASE s = answer[r]
      <3>1. Left'[s] = Left[s] \cup {r} /\ r \notin Left[s] /\ Left[s] \subseteq Request
        BY <1>1, <1>2, <2>1 DEF Left
      <3>2. Cardinality(Left[s] \cup {r}) = Cardinality(Left[s]) + 1
        BY <3>1, OneMore
      <3>3. QED
        BY <1>1, <1>2, <1>3, <2>1, <3>1, <3>2 DEF CountersAddUp
    <2>2. CASE s # answer[r]
      <3>1. Left'[s] = Left[s]
        BY <1>1, <1>2, <2>2 DEF Left
      <3>2. QED
        BY <1>1, <1>2, <1>3, <2>2, <3>1 DEF CountersAddUp
    <2>3. QED
      BY <2>1, <2>2
  <1>8. QED
    BY <1>1, <1>2, <1>4, <1>5, <1>6, <1>7 DEF CountersAddUp

-----------------------------------------------------------------------------
(* The handler chain *)

\* What a request does in the chain leaves the life of the process alone.
LEMMA LifeAfterMove ==
  ASSUME HttpInv, NEW r \in Request, NEW from, NEW to, Moves(r, from, to),
         phase = "serve" \/ r \in InFlight, UNCHANGED lifeVars
  PROVE  LifeBooks'
  <1>1. CASE phase = "serve"
    BY <1>1 DEF HttpInv, LifeBooks, lifeVars
  <1>2. CASE r \in InFlight
    <2>1. phase \notin {"exited", "killed"} /\ (phase = "close" => expired)
      BY <1>2 DEF HttpInv, LifeBooks
    <2>2. QED
      BY <2>1 DEF HttpInv, LifeBooks, lifeVars
  <1>3. QED
    BY <1>1, <1>2

\* What no row, no use case and no event depends on.
LEMMA StoresAlone ==
  ASSUME HttpInv, UNCHANGED <<storageVars, serviceVars, sent, cut, expired>>
  PROVE  /\ HiddenBooks' /\ EventsOnlyLostLate'
         /\ StorageTypeOK' /\ ServiceTypeOK'
  <1> USE DEF storageVars, serviceVars, uploadVars, deleteVars
  <1>1. HiddenBooks'
    BY DEF HttpInv, HiddenBooks
  <1>2. EventsOnlyLostLate'
    BY DEF HttpInv, EventsOnlyLostLate, UploadEvent
  <1>3. StorageTypeOK' /\ ServiceTypeOK'
    BY DEF HttpInv, HttpShape, StorageTypeOK, ServiceTypeOK
  <1>4. QED
    BY <1>1, <1>2, <1>3

\* A request goes on to the next place of the chain.
LEMMA ProceedSound ==
  ASSUME HttpInv, NEW r \in Request, NEW from \in {"new", "user", "length", "form"},
         NEW to \in {"user", "length", "form", "service"},
         Proceed(r, from, to), phase = "serve" \/ from # "new",
         size' \in [AvatarId -> FileSize \cup {0}],
         \A a \in AvatarId : a # r \/ from # "length" => size'[a] = size[a],
         r \in AvatarId => to # "service" \/ (from = "form" /\ ~TooLarge(r)),
         to = "user" => from = "new"
  PROVE  HttpInv'
  <1> USE DEF HttpInv
  <1>1. /\ at[r] = from /\ at' = [at EXCEPT ![r] = to]
        /\ UNCHANGED <<storageVars, serviceVars, lifeVars, answer, counterVars, sent>>
    BY DEF Proceed, Moves
  <1>2. HiddenBooks' /\ EventsOnlyLostLate' /\ StorageTypeOK' /\ ServiceTypeOK'
    BY <1>1, StoresAlone DEF lifeVars
  <1>3. HttpShape'
    BY <1>1, <1>2 DEF HttpShape, lifeVars, counterVars, Place
  <1>4. LifeBooks'
    BY <1>1, LifeAfterMove DEF Proceed, InFlight
  <1>5. \A q \in Request : AnswerBooks(q)'
    BY <1>1 DEF AnswerBooks, HttpShape
  <1>6. \A a \in AvatarId : UploadServed(a)'
    <2> TAKE a \in AvatarId
    <2>1. UNCHANGED <<row, object, upload, answer>>
      BY <1>1 DEF storageVars, serviceVars, uploadVars
    <2>2. a \in Request /\ UploadServed(a)
      BY DEF Request
    <2>3. CASE a # r
      BY <1>1, <2>1, <2>2, <2>3 DEF UploadServed, TooLarge, Exists, UploadInFlight, HttpShape
    <2>4. CASE a = r
      <3>1. upload[a] = "none" /\ answer[a] = 0
        BY <1>1, <2>2, <2>4 DEF UploadServed, AnswerBooks
      <3>2. to = "service" => ~TooLarge(a)'
        BY <2>4 DEF TooLarge
      <3>3. at'[a] = to
        BY <1>1, <2>2, <2>4 DEF HttpShape
      <3>4. QED
        BY <2>1, <2>2, <3>1, <3>2, <3>3 DEF UploadServed, TooLarge, Exists, UploadInFlight
    <2>5. QED
      BY <2>3, <2>4
  <1>7. \A d \in DeleteRequest : DeletionServed(d)'
    BY <1>1 DEF DeletionServed, storageVars, serviceVars, deleteVars, HttpShape, Request
  <1>8. CountersAddUp'
    BY <1>1, CountersKept DEF HttpShape
  <1>9. QED
    BY <1>2, <1>3, <1>4, <1>5, <1>6, <1>7, <1>8

\* The handler of a request answers.
LEMMA ReplySound ==
  ASSUME HttpInv, NEW r \in Request, NEW from \in {"user", "length", "form", "service"},
         NEW code \in Status, NEW o \in UploadOutcome, Reply(r, from, code, o),
         size' \in [AvatarId -> FileSize \cup {0}],
         \A a \in AvatarId : a # r \/ from # "length" => size'[a] = size[a],
         r \in AvatarId =>
           /\ \/ code = 201 /\ o = "ok"
              \/ code = 500 /\ o = "error"
              \/ code \in {400, 413} /\ o = "rejected"
           /\ code = 413 => TooLarge(r)'
           /\ code \in {400, 413} => upload[r] = "none"
           /\ code = 201 => upload[r] = "created",
         r \in DeleteRequest =>
           /\ code = 400 => del[r] = "none"
           /\ code \in {403, 404} => del[r] \in {"forbidden", "notFound"}
           /\ code = 204 => del[r] = "deleted"
  PROVE  HttpInv'
  <1> USE DEF HttpInv
  <1>1. /\ at[r] = from /\ at' = [at EXCEPT ![r] = "observe"]
        /\ answer' = [answer EXCEPT ![r] = code]
        /\ CountUpload(r, o)
        /\ UNCHANGED <<storageVars, serviceVars, lifeVars, requests, sent>>
    BY DEF Reply, Moves
  <1>2. HiddenBooks' /\ EventsOnlyLostLate' /\ StorageTypeOK' /\ ServiceTypeOK'
    BY <1>1, StoresAlone DEF lifeVars
  <1>3. HttpShape'
    BY <1>1, <1>2 DEF HttpShape, lifeVars, Place, CountUpload
  <1>4. LifeBooks'
    BY <1>1, LifeAfterMove DEF Reply, InFlight
  <1>5. answer[r] = 0
    BY <1>1 DEF AnswerBooks
  <1>6. \A q \in Request : AnswerBooks(q)'
    BY <1>1 DEF AnswerBooks, HttpShape, Status
  <1>7. \A a \in AvatarId : UploadServed(a)'
    <2> TAKE a \in AvatarId
    <2>1. UNCHANGED <<row, object, upload>>
      BY <1>1 DEF storageVars, serviceVars, uploadVars
    <2>2. a \in Request /\ UploadServed(a)
      BY DEF Request
    <2>3. CASE a # r
      BY <1>1, <2>1, <2>2, <2>3 DEF UploadServed, TooLarge, Exists, UploadInFlight, HttpShape
    <2>4. CASE a = r
      <3>1. at'[a] = "observe" /\ answer'[a] = code
        BY <1>1, <2>2, <2>4 DEF HttpShape
      <3>2. from = "length" => upload[a] = "none"
        BY <1>1, <2>2, <2>4 DEF UploadServed
      <3>3. from # "length" => TooLarge(a)' = TooLarge(a)
        BY DEF TooLarge
      <3>4. QED
        BY <2>1, <2>2, <2>4, <3>1, <3>2, <3>3 DEF UploadServed, Exists, UploadInFlight
    <2>5. QED
      BY <2>3, <2>4
  <1>8. \A d \in DeleteRequest : DeletionServed(d)'
    BY <1>1 DEF DeletionServed, storageVars, serviceVars, deleteVars, HttpShape, Request
  <1>9. CountersAddUp'
    BY <1>1, <1>5, CountersReply
  <1>10. QED
    BY <1>2, <1>3, <1>4, <1>6, <1>7, <1>8, <1>9

\* The steps of the chain that are neither a use case nor a panic.
LEMMA ChainStep ==
  ASSUME HttpInv, NEW r \in Request,
         \/ Receive(r) \/ RequireUser(r) \/ ObserveRequest(r)
         \/ r \in AvatarId /\ (CheckLength(r) \/ ReadForm(r) \/ AnswerUpload(r))
         \/ r \in DeleteRequest /\ AnswerDelete(r)
  PROVE  HttpInv'
  <1>apart. r \in DeleteRequest => r \notin AvatarId
    BY RequestAssumption
  <1>sizes. UNCHANGED size => size' \in [AvatarId -> FileSize \cup {0}]
    BY DEF HttpInv, HttpShape
  <1>codes. {201, 204, 400, 403, 404, 413, 500} \subseteq Status
            /\ {"ok", "error", "rejected"} \subseteq UploadOutcome
    BY DEF Status, UploadOutcome
  <1>1. CASE Receive(r)
    <2>1. Proceed(r, "new", "user") /\ UNCHANGED size /\ phase = "serve"
      BY <1>1 DEF Receive, Proceed
    <2>2. QED
      BY <1>sizes, <2>1, ProceedSound
  <1>2. CASE RequireUser(r)
    <2>1. CASE Proceed(r, "user", IF r \in AvatarId THEN "length" ELSE "service")
      <3>1. UNCHANGED size
        BY <1>2 DEF RequireUser
      <3>2. QED
        BY <1>apart, <1>sizes, <2>1, <3>1, ProceedSound
    <2>2. CASE Reply(r, "user", 400, "rejected")
      <3>1. UNCHANGED size /\ at[r] = "user"
        BY <1>2, <2>2 DEF RequireUser, Reply, Moves
      <3>2. /\ r \in AvatarId => upload[r] = "none"
            /\ r \in DeleteRequest => del[r] = "none"
        BY <3>1 DEF HttpInv, UploadServed, DeletionServed
      <3>3. QED
        BY <1>apart, <1>sizes, <1>codes, <2>2, <3>1, <3>2, ReplySound
    <2>3. QED
      BY <1>2, <2>1, <2>2 DEF RequireUser
  <1>3. CASE r \in AvatarId /\ CheckLength(r)
    <2>1. PICK s \in FileSize, declared \in BOOLEAN :
            /\ size' = [size EXCEPT ![r] = s]
            /\ IF declared /\ TooLarge(r)' THEN Reply(r, "length", 413, "rejected")
                                           ELSE Proceed(r, "length", "form")
      BY <1>3 DEF CheckLength
    <2>2. size' \in [AvatarId -> FileSize \cup {0}] /\ \A a \in AvatarId : a # r => size'[a] = size[a]
      BY <2>1 DEF HttpInv, HttpShape
    <2>3. CASE declared /\ TooLarge(r)'
      <3>1. Reply(r, "length", 413, "rejected")
        BY <2>1, <2>3
      <3>2. upload[r] = "none"
        BY <1>3, <3>1 DEF HttpInv, UploadServed, Reply, Moves
      <3>3. QED
        BY <1>3, <1>apart, <1>codes, <2>2, <2>3, <3>1, <3>2, ReplySound
    <2>4. CASE ~(declared /\ TooLarge(r)')
      <3>1. Proceed(r, "length", "form")
        BY <2>1, <2>4
      <3>2. QED
        BY <1>3, <2>2, <3>1, ProceedSound
    <2>5. QED
      BY <2>3, <2>4
  <1>4. CASE r \in AvatarId /\ ReadForm(r)
    <2>1. UNCHANGED size /\ at[r] = "form"
      BY <1>4 DEF ReadForm, Reply, Proceed, Moves
    <2>2. upload[r] = "none"
      BY <1>4, <2>1 DEF HttpInv, UploadServed
    <2>3. TooLarge(r)' = TooLarge(r)
      BY <2>1 DEF TooLarge
    <2>4. CASE Reply(r, "form", 400, "rejected")
      BY <1>4, <1>apart, <1>sizes, <1>codes, <2>1, <2>2, <2>4, ReplySound
    <2>5. CASE TooLarge(r) /\ Reply(r, "form", 413, "rejected")
      <3>1. Reply(r, "form", 413, "rejected") /\ TooLarge(r)'
        BY <2>3, <2>5
      <3>2. QED
        BY <1>4, <1>apart, <1>sizes, <1>codes, <2>1, <2>2, <3>1, ReplySound
    <2>6. CASE ~TooLarge(r) /\ Proceed(r, "form", "service")
      BY <1>4, <1>sizes, <2>1, <2>6, ProceedSound
    <2>7. QED
      BY <1>4, <2>4, <2>5, <2>6 DEF ReadForm
  <1>5. CASE r \in AvatarId /\ AnswerUpload(r)
    <2>1. UNCHANGED size
      BY <1>5 DEF AnswerUpload
    <2>2. CASE upload[r] = "created" /\ Reply(r, "service", 201, "ok")
      BY <1>5, <1>apart, <1>sizes, <1>codes, <2>1, <2>2, ReplySound
    <2>3. CASE upload[r] = "error" /\ Reply(r, "service", 500, "error")
      BY <1>5, <1>apart, <1>sizes, <1>codes, <2>1, <2>3, ReplySound
    <2>4. QED
      BY <1>5, <2>2, <2>3 DEF AnswerUpload
  <1>6. CASE r \in DeleteRequest /\ AnswerDelete(r)
    <2>1. /\ UNCHANGED size /\ del[r] \in {"deleted", "notFound", "forbidden", "failed"}
          /\ Reply(r, "service", DeleteStatus(del[r]), "ok")
      BY <1>6 DEF AnswerDelete, Refusal
    <2>2. /\ DeleteStatus(del[r]) \in {204, 403, 404, 500}
          /\ DeleteStatus(del[r]) \in {403, 404} => del[r] \in {"forbidden", "notFound"}
          /\ DeleteStatus(del[r]) = 204 => del[r] = "deleted"
      BY <2>1 DEF DeleteStatus
    <2>3. QED
      BY <1>6, <1>apart, <1>sizes, <1>codes, <2>1, <2>2, ReplySound
  <1>7. CASE ObserveRequest(r)
    <2> USE DEF HttpInv
    <2>1. /\ at[r] = "observe" /\ at' = [at EXCEPT ![r] = "over"]
          /\ requests' = [requests EXCEPT ![answer[r]] = @ + 1]
          /\ UNCHANGED <<storageVars, serviceVars, lifeVars, size, answer, uploads, sent>>
      BY <1>7 DEF ObserveRequest, Moves
    <2>2. HiddenBooks' /\ EventsOnlyLostLate' /\ StorageTypeOK' /\ ServiceTypeOK'
      BY <2>1, StoresAlone DEF lifeVars
    <2>3. HttpShape'
      <3>1. requests' \in [Status -> Nat]
        BY <2>1 DEF HttpShape, AnswerBooks
      <3>2. at' \in [Request -> Place]
        BY <2>1 DEF HttpShape, Place
      <3>3. QED
        BY <2>1, <2>2, <3>1, <3>2 DEF HttpShape, lifeVars
    <2>4. LifeBooks'
      BY <1>7, <2>1, LifeAfterMove DEF ObserveRequest, InFlight
    <2>5. \A q \in Request : AnswerBooks(q)'
      BY <2>1 DEF AnswerBooks, HttpShape
    <2>6. \A a \in AvatarId : UploadServed(a)'
      <3> TAKE a \in AvatarId
      <3>1. UNCHANGED <<row, object, upload, answer, size>> /\ UploadServed(a)
        BY <2>1 DEF storageVars, serviceVars, uploadVars
      <3>2. at'[a] = at[a] \/ at'[a] = "over"
        BY <2>1 DEF HttpShape, Request
      <3>3. QED
        BY <3>1, <3>2 DEF UploadServed, TooLarge, Exists, UploadInFlight
    <2>7. \A d \in DeleteRequest : DeletionServed(d)'
      BY <2>1 DEF DeletionServed, storageVars, serviceVars, deleteVars, HttpShape, Request
    <2>8. CountersAddUp'
      BY <1>7, CountersObserve
    <2>9. QED
      BY <2>2, <2>3, <2>4, <2>5, <2>6, <2>7, <2>8
  <1>8. QED
    BY <1>1, <1>2, <1>3, <1>4, <1>5, <1>6, <1>7

-----------------------------------------------------------------------------
(* The use cases *)

\* A step of a use case leaves the process, the chain and the counters alone.
LEMMA RestKept ==
  ASSUME HttpInv, UNCHANGED <<lifeVars, requestVars, counterVars>>,
         StorageTypeOK', ServiceTypeOK', sent' \subseteq Event
  PROVE  /\ HttpShape' /\ LifeBooks' /\ CountersAddUp'
         /\ \A r \in Request : AnswerBooks(r)'
  <1> USE DEF HttpInv, lifeVars, requestVars
  <1>1. HttpShape'
    BY DEF HttpShape, counterVars
  <1>2. LifeBooks'
    BY DEF LifeBooks, InFlight
  <1>3. CountersAddUp'
    BY CountersKept
  <1>4. \A r \in Request : AnswerBooks(r)'
    BY DEF AnswerBooks
  <1>5. QED
    BY <1>1, <1>2, <1>3, <1>4

\* A request that is served and not cut has a connection to publish with.
LEMMA Connected ==
  ASSUME HttpInv, NEW r \in Request, at[r] = "service"
  PROVE  conn \/ cut \/ expired
  BY DEF HttpInv, LifeBooks, InFlight

\* What an upload did to the stores and to itself.
LEMMA UploadWrites ==
  ASSUME HttpInv, NEW a \in AvatarId, at[a] = "service",
         UploadCreate(a) \/ UploadPut(a) \/ UploadMarkFailed(a) \/ UploadMarkUploaded(a),
         UNCHANGED <<at, answer, size>>
  PROVE  /\ StorageTypeOK' /\ ServiceTypeOK' /\ UNCHANGED deleteVars
         /\ UploadServed(a)'
         /\ \A b \in AvatarId : upload'[b] = "created" => upload[b] = "created"
         /\ \A b \in AvatarId : (row'[b].stage = "deleted") = (row[b].stage = "deleted")
         /\ \A b \in AvatarId \ {a} :
              row'[b] = row[b] /\ object'[b] = object[b] /\ upload'[b] = upload[b]
  <1> USE DEF HttpInv, HttpShape, StorageTypeOK, ServiceTypeOK, UploadState, OriginalKey, Outcome,
        Applied, TooLarge, Exists, UploadInFlight, UploadServed
  <1>1. /\ UploadServed(a) /\ answer[a] = 0 /\ a \in Request
    BY DEF AnswerBooks, Request
  <1>2. ASSUME NEW from, NEW faults, NEW o \in Outcome, NEW yes \in UploadState, NEW no \in UploadState,
               UploadCall(a, from, faults, o, yes, no)
        PROVE  /\ upload[a] = from /\ UNCHANGED deleteVars
               /\ upload' = [upload EXCEPT ![a] = IF o = "ok" THEN yes ELSE no]
               /\ uploadCtx' \in [AvatarId -> BOOLEAN]
    BY <1>2 DEF UploadCall, UploadCalls
  <1>3. UNCHANGED deleteVars => UNCHANGED <<del, delCtx, target, delKeys>>
    BY DEF deleteVars
  <1>4. CASE UploadCreate(a)
    <2>1. PICK o \in Outcome : UploadCall(a, "none", DatabaseFaults, o, "put", "error") /\ Create(a, o)
      BY <1>4 DEF UploadCreate
    <2>2. /\ upload[a] = "none" /\ UNCHANGED deleteVars
          /\ upload' = [upload EXCEPT ![a] = IF o = "ok" THEN "put" ELSE "error"]
          /\ uploadCtx' \in [AvatarId -> BOOLEAN]
      BY <1>2, <2>1
    <2>3. CASE o = "refused"
      <3>1. UNCHANGED storageVars
        BY <2>1, <2>3 DEF Create, storageVars
      <3>2. QED
        BY <1>1, <1>3, <2>2, <2>3, <3>1 DEF storageVars
    <2>4. CASE o # "refused"
      <3>1. PICK t \in {clock, clock + 1} : row' = [row EXCEPT ![a] = FreshRow(t)] /\ clock' = t
        BY <2>1, <2>4 DEF Create
      <3>2. UNCHANGED object /\ FreshRow(t) \in Row /\ FreshRow(t).stage = "live"
        BY <2>1 DEF Create, FreshRow, Row, UploadStatus, ProcessingStatus
      <3>3. QED
        BY <1>1, <1>3, <2>2, <2>4, <3>1, <3>2
    <2>5. QED
      BY <2>3, <2>4
  <1>5. CASE UploadPut(a)
    <2>1. PICK o \in Outcome : /\ UploadCall(a, "put", BucketFaults, o, "markUploaded", "markFailed")
                               /\ Put(a, OriginalKey, o)
      BY <1>5 DEF UploadPut
    <2>2. /\ upload[a] = "put" /\ UNCHANGED deleteVars
          /\ upload' = [upload EXCEPT ![a] = IF o = "ok" THEN "markUploaded" ELSE "markFailed"]
          /\ uploadCtx' \in [AvatarId -> BOOLEAN]
      BY <1>2, <2>1
    <2>3. /\ object' = IF o # "refused" THEN [object EXCEPT ![a] = @ \cup {OriginalKey}] ELSE object
          /\ UNCHANGED <<row, clock>>
      BY <2>1 DEF Put
    <2>4. StorageTypeOK'
      BY <1>1, <2>3 DEF Key
    <2>5. /\ \A b \in AvatarId \ {a} : object'[b] = object[b]
          /\ o = "ok" => OriginalKey \in object'[a]
      BY <1>1, <2>3
    <2>6. ServiceTypeOK' /\ UNCHANGED deleteVars
      BY <1>3, <2>2
    <2>7. UploadServed(a)'
      BY <1>1, <2>2, <2>3, <2>5
    <2>8. QED
      BY <2>2, <2>3, <2>4, <2>5, <2>6, <2>7
  <1>6. CASE UploadMarkFailed(a)
    <2>1. PICK o \in Outcome : /\ UploadCall(a, "markFailed", DatabaseFaults, o, "error", "error")
                               /\ SetUploadStatus(a, "failed", o)
      BY <1>6 DEF UploadMarkFailed
    <2>2. /\ upload[a] = "markFailed" /\ UNCHANGED deleteVars
          /\ upload' = [upload EXCEPT ![a] = "error"]
          /\ uploadCtx' \in [AvatarId -> BOOLEAN]
      BY <1>2, <2>1
    <2>3. /\ row' = IF o = "refused" THEN row
                   ELSE [row EXCEPT ![a] = [row[a] EXCEPT !.upload = "failed"]]
          /\ UNCHANGED <<object, clock>>
      BY <1>1, <2>1, <2>2 DEF SetUploadStatus, Update
    <2>4. StorageTypeOK'
      <3>1. row[a] \in Row
        OBVIOUS
      <3>2. [row[a] EXCEPT !.upload = "failed"] \in Row
        BY <3>1 DEF Row, UploadStatus
      <3>3. QED
        BY <2>3, <3>2
    <2>5. /\ \A b \in AvatarId : row'[b].stage = row[b].stage
          /\ \A b \in AvatarId \ {a} : row'[b] = row[b]
      BY <2>3 DEF Row
    <2>6. ServiceTypeOK' /\ UNCHANGED deleteVars
      BY <1>3, <2>2
    <2>7. UploadServed(a)'
      BY <1>1, <2>2, <2>3, <2>5
    <2>8. QED
      BY <2>2, <2>3, <2>4, <2>5, <2>6, <2>7
  <1>7. CASE UploadMarkUploaded(a)
    <2>1. PICK o \in Outcome : /\ UploadCall(a, "markUploaded", DatabaseFaults, o, "publish", "error")
                               /\ SetUploadStatus(a, "uploaded", o)
      BY <1>7 DEF UploadMarkUploaded
    <2>2. /\ upload[a] = "markUploaded" /\ UNCHANGED deleteVars
          /\ upload' = [upload EXCEPT ![a] = IF o = "ok" THEN "publish" ELSE "error"]
          /\ uploadCtx' \in [AvatarId -> BOOLEAN]
      BY <1>2, <2>1
    <2>3. /\ row' = IF o = "refused" THEN row
                   ELSE [row EXCEPT ![a] = [row[a] EXCEPT !.upload = "uploaded"]]
          /\ UNCHANGED <<object, clock>>
      BY <1>1, <2>1, <2>2 DEF SetUploadStatus, Update
    <2>4. StorageTypeOK'
      <3>1. row[a] \in Row
        OBVIOUS
      <3>2. [row[a] EXCEPT !.upload = "uploaded"] \in Row
        BY <3>1 DEF Row, UploadStatus
      <3>3. QED
        BY <2>3, <3>2
    <2>5. /\ \A b \in AvatarId : row'[b].stage = row[b].stage
          /\ \A b \in AvatarId \ {a} : row'[b] = row[b]
          /\ o = "ok" => row'[a].upload = "uploaded"
      BY <2>3 DEF Row
    <2>6. ServiceTypeOK' /\ UNCHANGED deleteVars
      BY <1>3, <2>2
    <2>7. UploadServed(a)'
      BY <1>1, <2>2, <2>3, <2>5
    <2>8. QED
      BY <2>2, <2>3, <2>4, <2>5, <2>6, <2>7
  <1>8. QED
    BY <1>4, <1>5, <1>6, <1>7

LEMMA UploadServedStep ==
  ASSUME HttpInv, NEW a \in AvatarId, ServeUpload(a)
  PROVE  HttpInv'
  <1> USE DEF HttpInv
  <1>1. at[a] = "service" /\ UNCHANGED <<lifeVars, requestVars, counterVars>>
    BY DEF ServeUpload
  <1>2. UNCHANGED <<at, size, answer, cut, expired, conn>>
    BY <1>1 DEF lifeVars, requestVars
  <1>3. CASE /\ UploadCreate(a) \/ UploadPut(a) \/ UploadMarkFailed(a) \/ UploadMarkUploaded(a)
             /\ UNCHANGED sent
    <2>1. /\ StorageTypeOK' /\ ServiceTypeOK' /\ UNCHANGED deleteVars
          /\ UploadServed(a)'
          /\ \A b \in AvatarId : upload'[b] = "created" => upload[b] = "created"
          /\ \A b \in AvatarId : (row'[b].stage = "deleted") = (row[b].stage = "deleted")
          /\ \A b \in AvatarId \ {a} :
               row'[b] = row[b] /\ object'[b] = object[b] /\ upload'[b] = upload[b]
      BY <1>1, <1>2, <1>3, UploadWrites
    <2>2. UNCHANGED <<del, target, delKeys>>
      BY <2>1 DEF deleteVars
    <2>3. sent' \subseteq Event
      BY <1>3 DEF HttpShape
    <2>4. \A b \in AvatarId : UploadServed(b)'
      BY <1>2, <2>1 DEF UploadServed, TooLarge, Exists, UploadInFlight
    <2>5. \A d \in DeleteRequest : DeletionServed(d)'
      BY <1>2, <2>1, <2>2 DEF DeletionServed
    <2>6. HiddenBooks'
      BY <2>1, <2>2 DEF HiddenBooks
    <2>7. EventsOnlyLostLate'
      BY <1>2, <1>3, <2>1, <2>2 DEF EventsOnlyLostLate, UploadEvent
    <2>8. QED
      BY <1>1, <2>1, <2>3, <2>4, <2>5, <2>6, <2>7, RestKept
  <1>4. CASE UploadPublish(a) /\ Send(UploadEvent(a))
    <2>1. /\ upload[a] = "publish" /\ upload' = [upload EXCEPT ![a] = "created"]
          /\ UNCHANGED <<uploadCtx, deleteVars, storageVars>>
          /\ sent' = IF conn THEN sent \cup {UploadEvent(a)} ELSE sent
      BY <1>4 DEF UploadPublish, Send
    <2>2. UNCHANGED <<del, delCtx, target, delKeys, row, object, clock>>
      BY <2>1 DEF deleteVars, storageVars
    <2>3. StorageTypeOK' /\ ServiceTypeOK' /\ sent' \subseteq Event
      BY <2>1, <2>2 DEF HttpShape, StorageTypeOK, ServiceTypeOK, UploadState, Event
    <2>4. \A b \in AvatarId : UploadServed(b)'
      <3>1. answer[a] = 0
        BY <1>1 DEF AnswerBooks, Request
      <3>2. QED
        BY <1>1, <1>2, <2>1, <2>2, <3>1
          DEF UploadServed, TooLarge, Exists, UploadInFlight, HttpShape, ServiceTypeOK
    <2>5. \A d \in DeleteRequest : DeletionServed(d)'
      BY <1>2, <2>2 DEF DeletionServed
    <2>6. HiddenBooks'
      BY <2>2 DEF HiddenBooks
    <2>7. conn \/ cut \/ expired
      BY <1>1, Connected DEF Request
    <2>8. EventsOnlyLostLate'
      BY <1>2, <2>1, <2>2, <2>7 DEF EventsOnlyLostLate, UploadEvent, HttpShape, ServiceTypeOK
    <2>9. QED
      BY <1>1, <2>3, <2>4, <2>5, <2>6, <2>8, RestKept
  <1>5. QED
    BY <1>3, <1>4 DEF ServeUpload

\* A deletion that reads a row or is refused: no store changes.
LEMMA DeletionChosen ==
  ASSUME HttpInv, NEW d \in DeleteRequest, at[d] = "service", del[d] = "none",
         \/ \E a \in AvatarId : Capture(d, a)
         \/ \E why \in Refusal : Reject(d, why),
         delCtx' \in [DeleteRequest -> BOOLEAN],
         UNCHANGED <<uploadVars, storageVars, sent, lifeVars, requestVars, counterVars>>
  PROVE  HttpInv'
  <1> USE DEF HttpInv
  <1>1. UNCHANGED <<upload, uploadCtx, row, object, clock, at, size, answer, cut, expired>>
    BY DEF uploadVars, storageVars, lifeVars, requestVars
  <1>2. answer[d] = 0 /\ d \in Request
    BY DEF AnswerBooks, Request
  <1>3. /\ \A e \in DeleteRequest \ {d} : del'[e] = del[e] /\ target'[e] = target[e]
        /\ \/ del'[d] = "hide" /\ target'[d] \in AvatarId
           \/ del'[d] \in Refusal
        /\ ServiceTypeOK'
    BY <1>1 DEF Capture, Reject, EndDelete, Refusal, HttpShape, StorageTypeOK, ServiceTypeOK,
      DeleteState, Row, Key
  <1>4. StorageTypeOK' /\ sent' \subseteq Event
    BY <1>1 DEF HttpShape, StorageTypeOK
  <1>5. \A a \in AvatarId : UploadServed(a)'
    BY <1>1 DEF UploadServed, TooLarge, Exists, UploadInFlight
  <1>6. \A e \in DeleteRequest : DeletionServed(e)'
    BY <1>1, <1>2, <1>3 DEF DeletionServed, Refusal
  <1>7. HiddenBooks'
    BY <1>1, <1>3 DEF HiddenBooks
  <1>8. EventsOnlyLostLate'
    BY <1>1, <1>3 DEF EventsOnlyLostLate, UploadEvent, Refusal
  <1>9. QED
    BY <1>3, <1>4, <1>5, <1>6, <1>7, <1>8, RestKept

\* SoftDelete, and what the request makes of its outcome.
LEMMA DeletionHides ==
  ASSUME HttpInv, NEW d \in DeleteRequest, at[d] = "service", DeleteHide(d),
         UNCHANGED <<sent, lifeVars, requestVars, counterVars>>
  PROVE  HttpInv'
  <1> USE DEF HttpInv
  <1>1. PICK o \in Outcome :
          /\ del[d] = "hide" /\ UNCHANGED <<uploadVars, target>>
          /\ IF o = "ok" /\ Visible(target[d])
               THEN del' = [del EXCEPT ![d] = "publish"] /\ UNCHANGED delKeys
               ELSE EndDelete(d, IF o = "ok" THEN "notFound" ELSE "failed")
          /\ DeleteCall(d, DatabaseFaults, o)
          /\ SoftDelete(target[d], o)
    BY DEF DeleteHide
  <1>2. UNCHANGED <<upload, uploadCtx, at, size, answer, cut, expired>>
    BY <1>1 DEF uploadVars, lifeVars, requestVars
  <1>3. answer[d] = 0 /\ d \in Request /\ target[d] \in AvatarId
    BY <1>1 DEF AnswerBooks, Request, DeletionServed
  <1>4. /\ StorageTypeOK' /\ UNCHANGED object
        /\ \A a \in AvatarId :
             /\ row'[a].upload = row[a].upload
             /\ \/ row'[a].stage = row[a].stage
                \/ a = target[d] /\ Visible(a) /\ Applied(o) /\ row'[a].stage = "deleted"
        /\ Applied(o) /\ Visible(target[d]) => row'[target[d]].stage = "deleted"
    <2> USE DEF StorageTypeOK, SoftDelete, Update, Row
    <2>1. StorageTypeOK /\ SoftDelete(target[d], o)
      BY <1>1 DEF HttpShape
    <2>2. StorageTypeOK'
      BY <1>3, <2>1
    <2>3. QED
      BY <1>3, <2>1, <2>2
  <1>5. /\ \A e \in DeleteRequest \ {d} : del'[e] = del[e]
        /\ del'[d] = IF o = "ok" THEN IF Visible(target[d]) THEN "publish" ELSE "notFound" ELSE "failed"
    BY <1>1 DEF EndDelete, HttpShape, ServiceTypeOK
  <1>6. ServiceTypeOK'
    BY <1>1, <1>2 DEF EndDelete, DeleteCall, HttpShape, ServiceTypeOK, DeleteState
  <1>7. sent' \subseteq Event
    BY DEF HttpShape
  <1>8. \A a \in AvatarId : UploadServed(a)'
    BY <1>2, <1>4 DEF UploadServed, TooLarge, Exists, UploadInFlight, Visible
  <1>9. \A e \in DeleteRequest : DeletionServed(e)'
    <2>1. \A e \in DeleteRequest \ {d} : DeletionServed(e)'
      BY <1>1, <1>2, <1>4, <1>5 DEF DeletionServed, Visible
    <2>2. DeletionServed(d)'
      BY <1>1, <1>2, <1>3, <1>4, <1>5 DEF DeletionServed, Applied
    <2>3. QED
      BY <2>1, <2>2
  <1>10. HiddenBooks'
    <2> SUFFICES ASSUME NEW a \in AvatarId, row'[a].stage = "deleted"
                 PROVE  \E e \in DeleteRequest :
                          /\ target'[e] = a
                          /\ del'[e] \in {"publish", "deleted", "failed", "crashed"}
      BY DEF HiddenBooks
    <2>1. CASE row[a].stage = "deleted"
      BY <1>1, <1>5, <2>1 DEF HiddenBooks
    <2>2. CASE row[a].stage # "deleted"
      BY <1>1, <1>4, <1>5, <2>2
    <2>3. QED
      BY <2>1, <2>2
  <1>11. EventsOnlyLostLate'
    BY <1>1, <1>2, <1>5 DEF EventsOnlyLostLate, UploadEvent
  <1>12. QED
    BY <1>4, <1>6, <1>7, <1>8, <1>9, <1>10, <1>11, RestKept

\* The delete event: it is handed over, or the connection is gone.
LEMMA DeletionPublished ==
  ASSUME HttpInv, NEW d \in DeleteRequest, at[d] = "service", DeletePublish(d),
         Send(DeleteEvent(target[d], delKeys[d])),
         UNCHANGED <<lifeVars, requestVars, counterVars>>
  PROVE  HttpInv'
  <1> USE DEF HttpInv
  <1>1. /\ del[d] = "publish" /\ EndDelete(d, "deleted")
        /\ UNCHANGED <<delCtx, target, uploadVars, storageVars>>
        /\ sent' = IF conn THEN sent \cup {DeleteEvent(target[d], delKeys[d])} ELSE sent
    BY DEF DeletePublish, Send
  <1>2. UNCHANGED <<upload, uploadCtx, row, object, clock, at, size, answer, cut, expired, conn>>
    BY <1>1 DEF uploadVars, storageVars, lifeVars, requestVars
  <1>3. answer[d] = 0 /\ d \in Request /\ target[d] \in AvatarId
    BY <1>1 DEF AnswerBooks, Request, DeletionServed
  <1>4. del' = [del EXCEPT ![d] = "deleted"] /\ delKeys' = [delKeys EXCEPT ![d] = {}]
    BY <1>1 DEF EndDelete
  <1>5. StorageTypeOK' /\ ServiceTypeOK'
    BY <1>1, <1>2, <1>4 DEF HttpShape, StorageTypeOK, ServiceTypeOK, DeleteState
  <1>6. sent' \subseteq Event
    <2>1. delKeys[d] \in SUBSET Key
      BY DEF HttpShape, ServiceTypeOK
    <2>2. DeleteEvent(target[d], delKeys[d]) \in Event
      BY <1>3, <2>1 DEF Event
    <2>3. QED
      BY <1>1, <2>2 DEF HttpShape
  <1>7. \A a \in AvatarId : UploadServed(a)'
    BY <1>2 DEF UploadServed, TooLarge, Exists, UploadInFlight
  <1>8. \A e \in DeleteRequest : DeletionServed(e)'
    BY <1>1, <1>2, <1>3, <1>4 DEF DeletionServed, HttpShape, ServiceTypeOK
  <1>9. HiddenBooks'
    BY <1>1, <1>2, <1>4 DEF HiddenBooks, HttpShape, ServiceTypeOK
  <1>10. EventsOnlyLostLate'
    <2>1. conn \/ cut \/ expired
      BY <1>3, Connected
    <2>2. /\ DeleteEvent(target[d], delKeys[d]).kind = "delete"
          /\ DeleteEvent(target[d], delKeys[d]).avatar = target[d]
      BY DEF DeleteEvent
    <2>3. \A e \in DeleteRequest \ {d} : del'[e] = del[e]
      BY <1>4 DEF HttpShape, ServiceTypeOK
    <2> HIDE DEF HttpInv
    <2>4. EventsOnlyLostLate
      BY DEF HttpInv
    <2>5. QED
      BY <1>1, <1>2, <2>1, <2>2, <2>3, <2>4 DEF EventsOnlyLostLate, UploadEvent
  <1>11. QED
    BY <1>5, <1>6, <1>7, <1>8, <1>9, <1>10, RestKept

LEMMA DeletionServedStep ==
  ASSUME HttpInv, NEW d \in DeleteRequest, ServeDelete(d)
  PROVE  HttpInv'
  <1>1. at[d] = "service" /\ UNCHANGED <<lifeVars, requestVars, counterVars>>
    BY DEF ServeDelete
  <1>2. ASSUME NEW o \in Outcome, DeleteCall(d, DatabaseFaults, o)
        PROVE  delCtx' \in [DeleteRequest -> BOOLEAN]
    BY <1>2 DEF DeleteCall, HttpInv, HttpShape, ServiceTypeOK
  <1>3. CASE DeleteLatestForeign(d) /\ UNCHANGED sent
    BY <1>1, <1>3, DeletionChosen
      DEF DeleteLatestForeign, Refusal, HttpInv, HttpShape, ServiceTypeOK
  <1>4. CASE DeleteLatestRead(d) /\ UNCHANGED sent
    <2>1. LatestByUser(Requester[d]) \subseteq AvatarId
      BY DEF LatestByUser
    <2>2. QED
      BY <1>1, <1>2, <1>4, <2>1, DeletionChosen DEF DeleteLatestRead, Refusal
  <1>5. ASSUME NEW a \in AvatarId, DeleteRead(d, a), UNCHANGED sent PROVE HttpInv'
    BY <1>1, <1>2, <1>5, DeletionChosen DEF DeleteRead, Refusal
  <1>6. CASE DeleteHide(d) /\ UNCHANGED sent
    BY <1>1, <1>6, DeletionHides
  <1>7. CASE DeletePublish(d) /\ Send(DeleteEvent(target[d], delKeys[d]))
    BY <1>1, <1>7, DeletionPublished
  <1>8. QED
    BY <1>3, <1>4, <1>5, <1>6, <1>7 DEF ServeDelete

-----------------------------------------------------------------------------
(* Panics and the process *)

\* A use case that breaks off has done what it did: nothing is undone.
LEMMA AbandonSound ==
  ASSUME HttpInv, NEW R \in SUBSET Request, Abandon(R), UNCHANGED <<size, sent, cut, expired>>
  PROVE  /\ StorageTypeOK' /\ ServiceTypeOK' /\ HiddenBooks' /\ EventsOnlyLostLate'
         /\ UNCHANGED <<row, object, target>>
         /\ \A a \in AvatarId : upload'[a] = upload[a] \/ (UploadInFlight(a) /\ upload'[a] = "crashed")
         /\ \A d \in DeleteRequest :
              del'[d] = del[d] \/ (del[d] \in {"hide", "publish"} /\ del'[d] = "crashed")
  <1> USE DEF HttpInv, Abandon
  <1>1. UNCHANGED <<row, object, clock, target>>
    BY DEF storageVars
  <1>2. \A a \in AvatarId : upload'[a] = upload[a] \/ (UploadInFlight(a) /\ upload'[a] = "crashed")
    OBVIOUS
  <1>3. \A d \in DeleteRequest :
          del'[d] = del[d] \/ (del[d] \in {"hide", "publish"} /\ del'[d] = "crashed")
    OBVIOUS
  <1>4. StorageTypeOK'
    BY <1>1 DEF HttpShape, StorageTypeOK
  <1>5. ServiceTypeOK'
    <2>1. upload' \in [AvatarId -> UploadState] /\ del' \in [DeleteRequest -> DeleteState]
      BY DEF HttpShape, ServiceTypeOK, UploadState, DeleteState
    <2>2. uploadCtx' \in [AvatarId -> BOOLEAN] /\ delCtx' \in [DeleteRequest -> BOOLEAN]
      BY DEF HttpShape, ServiceTypeOK
    <2>3. delKeys' \in [DeleteRequest -> SUBSET Key]
      BY DEF HttpShape, ServiceTypeOK
    <2>4. QED
      BY <1>1, <2>1, <2>2, <2>3 DEF HttpShape, ServiceTypeOK
  <1>6. HiddenBooks'
    BY <1>1, <1>3 DEF HiddenBooks
  <1>7. EventsOnlyLostLate'
    BY <1>1, <1>2, <1>3 DEF EventsOnlyLostLate, UploadEvent
  <1>8. QED
    BY <1>1, <1>2, <1>3, <1>4, <1>5, <1>6, <1>7

\* A request that broke off keeps its books: it is not told that it was served.
LEMMA AbandonedBooks ==
  ASSUME HttpInv, NEW R \in SUBSET Request, Abandon(R), UNCHANGED <<size, sent, cut, expired>>,
         \A r \in Request : \/ at'[r] = at[r] /\ answer'[r] = answer[r]
                            \/ at'[r] = "panicked" /\ answer'[r] = 500
                            \/ at'[r] = "gone" /\ answer'[r] = answer[r]
  PROVE  /\ \A a \in AvatarId : UploadServed(a)'
         /\ \A d \in DeleteRequest : DeletionServed(d)'
  <1>1. /\ UNCHANGED <<row, object, target>>
        /\ \A a \in AvatarId : upload'[a] = upload[a] \/ (UploadInFlight(a) /\ upload'[a] = "crashed")
        /\ \A d \in DeleteRequest :
             del'[d] = del[d] \/ (del[d] \in {"hide", "publish"} /\ del'[d] = "crashed")
    BY AbandonSound
  <1>2. ASSUME NEW a \in AvatarId PROVE UploadServed(a)'
    <2>1. UploadServed(a) /\ a \in Request
      BY DEF HttpInv, Request
    <2>2. QED
      BY <1>1, <2>1 DEF UploadServed, TooLarge, Exists, UploadInFlight
  <1>3. ASSUME NEW d \in DeleteRequest PROVE DeletionServed(d)'
    <2>1. DeletionServed(d) /\ d \in Request
      BY DEF HttpInv, Request
    <2>2. QED
      BY <1>1, <2>1 DEF DeletionServed
  <1>4. QED
    BY <1>2, <1>3

LEMMA PanicStep ==
  ASSUME HttpInv, NEW r \in Request, Panic(r)
  PROVE  HttpInv'
  <1> USE DEF HttpInv
  <1>1. /\ at[r] \in {"user", "length", "form", "service"}
        /\ at' = [at EXCEPT ![r] = "panicked"] /\ answer' = [answer EXCEPT ![r] = 500]
        /\ CountUpload(r, "rejected") /\ Abandon({r}) /\ {r} \in SUBSET Request
        /\ UNCHANGED <<lifeVars, size, requests, sent>>
    BY DEF Panic
  <1>2. UNCHANGED <<phase, stopping, expired, conn, cut>>
    BY <1>1 DEF lifeVars
  <1>3. StorageTypeOK' /\ ServiceTypeOK' /\ HiddenBooks' /\ EventsOnlyLostLate'
    BY <1>1, <1>2, AbandonSound
  <1>4. /\ \A q \in Request : \/ at'[q] = at[q] /\ answer'[q] = answer[q]
                              \/ at'[q] = "panicked" /\ answer'[q] = 500
    BY <1>1 DEF HttpShape
  <1>5. /\ \A a \in AvatarId : UploadServed(a)'
        /\ \A d \in DeleteRequest : DeletionServed(d)'
    BY <1>1, <1>2, <1>4, AbandonedBooks
  <1>6. HttpShape'
    BY <1>1, <1>2, <1>3 DEF HttpShape, Place, Status, CountUpload, UploadOutcome
  <1>7. LifeBooks'
    <2>1. InFlight' \subseteq InFlight
      BY <1>1 DEF InFlight, HttpShape
    <2>2. QED
      BY <1>2, <2>1 DEF LifeBooks
  <1>8. \A q \in Request : AnswerBooks(q)'
    BY <1>1 DEF AnswerBooks, HttpShape
  <1>9. CountersAddUp'
    BY CountersPanic
  <1>10. QED
    BY <1>3, <1>5, <1>6, <1>7, <1>8, <1>9

\* A step of the process that leaves its requests alone.
LEMMA PhaseSound ==
  ASSUME HttpInv, LifeBooks', phase' \in Phase,
         stopping' \in BOOLEAN, expired' \in BOOLEAN, conn' \in BOOLEAN, cut' \in BOOLEAN,
         cut => cut', expired => expired',
         UNCHANGED <<storageVars, serviceVars, requestVars, counterVars, sent>>
  PROVE  HttpInv'
  <1> USE DEF HttpInv
  <1>1. UNCHANGED <<row, object, clock, upload, uploadCtx, del, delCtx, target, delKeys,
                    at, size, answer, sent>>
    BY DEF storageVars, serviceVars, uploadVars, deleteVars, requestVars
  <1>2. HttpShape'
    BY <1>1 DEF HttpShape, StorageTypeOK, ServiceTypeOK, counterVars
  <1>3. \A r \in Request : AnswerBooks(r)'
    BY <1>1 DEF AnswerBooks
  <1>4. \A a \in AvatarId : UploadServed(a)'
    BY <1>1 DEF UploadServed, TooLarge, Exists, UploadInFlight
  <1>5. \A d \in DeleteRequest : DeletionServed(d)'
    BY <1>1 DEF DeletionServed
  <1>6. HiddenBooks'
    BY <1>1 DEF HiddenBooks
  <1>7. EventsOnlyLostLate'
    BY <1>1 DEF EventsOnlyLostLate, UploadEvent
  <1>8. CountersAddUp'
    BY <1>1, CountersKept
  <1>9. QED
    BY <1>2, <1>3, <1>4, <1>5, <1>6, <1>7, <1>8

LEMMA ProcessStepSound ==
  ASSUME HttpInv,
         \/ StopListening \/ ShutdownTimeout \/ Drained \/ ClosePublisher
         \/ Signal \/ LoseConnection
  PROVE  HttpInv'
  <1> USE DEF HttpInv, HttpShape, Phase, LifeBooks, Goes, Running
  <1>1. CASE StopListening
    <2>1. LifeBooks'
      BY <1>1 DEF StopListening
    <2>2. QED
      BY <1>1, <2>1, PhaseSound DEF StopListening
  <1>2. CASE ShutdownTimeout
    <2>1. LifeBooks'
      BY <1>2 DEF ShutdownTimeout
    <2>2. QED
      BY <1>2, <2>1, PhaseSound DEF ShutdownTimeout
  <1>3. CASE Drained
    <2>1. InFlight' = InFlight
      BY <1>3 DEF Drained, requestVars, InFlight
    <2>2. LifeBooks'
      BY <1>3, <2>1 DEF Drained
    <2>3. QED
      BY <1>3, <2>2, PhaseSound DEF Drained
  <1>4. CASE ClosePublisher
    <2>1. InFlight' = InFlight
      BY <1>4 DEF ClosePublisher, requestVars, InFlight
    <2>2. LifeBooks'
      BY <1>4, <2>1 DEF ClosePublisher
    <2>3. QED
      BY <1>4, <2>2, PhaseSound DEF ClosePublisher
  <1>5. CASE Signal
    <2>1. InFlight' = InFlight
      BY <1>5 DEF Signal, requestVars, InFlight
    <2>2. LifeBooks'
      BY <1>5, <2>1 DEF Signal
    <2>3. QED
      BY <1>5, <2>2, PhaseSound DEF Signal
  <1>6. CASE LoseConnection
    <2>1. InFlight' = InFlight
      BY <1>6 DEF LoseConnection, requestVars, InFlight
    <2>2. LifeBooks'
      BY <1>6, <2>1 DEF LoseConnection
    <2>3. QED
      BY <1>6, <2>2, PhaseSound DEF LoseConnection
  <1>7. QED
    BY <1>1, <1>2, <1>3, <1>4, <1>5, <1>6

\* With the process its last requests are gone.
LEMMA EndSound ==
  ASSUME HttpInv, NEW last \in {"exited", "killed"}, Ends(last)
  PROVE  HttpInv'
  <1> USE DEF HttpInv
  <1>1. /\ phase' = last /\ conn' = FALSE
        /\ at' = [r \in Request |-> IF r \in InFlight THEN "gone" ELSE at[r]]
        /\ Abandon(InFlight) /\ InFlight \in SUBSET Request
        /\ UNCHANGED <<stopping, expired, cut, size, answer, counterVars, sent>>
    BY DEF Ends, InFlight
  <1>2. StorageTypeOK' /\ ServiceTypeOK' /\ HiddenBooks' /\ EventsOnlyLostLate'
    BY <1>1, AbandonSound
  <1>3. \A r \in Request : at'[r] = at[r] \/ (at'[r] = "gone" /\ r \in InFlight)
    BY <1>1
  <1>4. /\ \A a \in AvatarId : UploadServed(a)'
        /\ \A d \in DeleteRequest : DeletionServed(d)'
    BY <1>1, <1>3, AbandonedBooks
  <1>5. HttpShape'
    BY <1>1, <1>2 DEF HttpShape, Place, Phase, counterVars
  <1>6. LifeBooks'
    <2>1. InFlight' = {}
      BY <1>1 DEF InFlight
    <2>2. QED
      BY <1>1, <2>1 DEF LifeBooks
  <1>7. \A r \in Request : AnswerBooks(r)'
    BY <1>1, <1>3 DEF AnswerBooks
  <1>8. CountersAddUp'
    <2>1. \A r \in Request : /\ at'[r] = "panicked" <=> at[r] = "panicked"
                             /\ at'[r] = "over" <=> at[r] = "over"
      BY <1>1, <1>3 DEF InFlight
    <2>2. QED
      BY <1>1, <2>1, CountersKept
  <1>9. QED
    BY <1>2, <1>4, <1>5, <1>6, <1>7, <1>8

-----------------------------------------------------------------------------
(* The invariant *)

LEMMA HttpInitially ==
  ASSUME HttpInit
  PROVE  HttpInv
  <1> USE DEF HttpInit, StorageInit, ServiceInit
  <1>1. StorageTypeOK /\ ServiceTypeOK
    <2>1. [FreshRow(0) EXCEPT !.stage = "absent"] \in Row
      BY DEF FreshRow, Row, UploadStatus, ProcessingStatus
    <2>2. QED
      BY <2>1 DEF StorageTypeOK, ServiceTypeOK, UploadState, DeleteState
  <1>2. HttpShape
    <2>1. uploads \in [UploadOutcome -> Nat] /\ requests \in [Status -> Nat]
      OBVIOUS
    <2>2. /\ at \in [Request -> Place] /\ answer \in [Request -> Status \cup {0}]
          /\ size \in [AvatarId -> FileSize \cup {0}]
      BY DEF Place
    <2>3. sent \subseteq Event /\ phase \in Phase
      BY DEF Phase
    <2>4. QED
      BY <1>1, <2>1, <2>2, <2>3 DEF HttpShape
  <1>3. InFlight = {}
    BY DEF InFlight
  <1>4. LifeBooks
    BY <1>3 DEF LifeBooks
  <1>5. \A r \in Request : AnswerBooks(r)
    BY DEF AnswerBooks
  <1>6. \A a \in AvatarId : row[a].stage = "absent"
    BY DEF FreshRow
  <1>7. \A a \in AvatarId : UploadServed(a)
    BY <1>6 DEF UploadServed, Exists, UploadInFlight, Request
  <1>8. \A d \in DeleteRequest : DeletionServed(d)
    BY DEF DeletionServed, Request
  <1>9. HiddenBooks /\ EventsOnlyLostLate
    BY <1>6 DEF HiddenBooks, EventsOnlyLostLate
  <1>10. CountersAddUp
    <2>1. Created = {} /\ Failed = {} /\ Rejected = {}
      BY DEF Created, Failed, Rejected, Answered, Request
    <2>2. \A s \in Status : Left[s] = {}
      BY DEF Left
    <2>3. QED
      BY <2>1, <2>2, FS_EmptySet DEF CountersAddUp, UploadOutcome
  <1>11. QED
    BY <1>2, <1>4, <1>5, <1>7, <1>8, <1>9, <1>10 DEF HttpInv

LEMMA HttpStep ==
  ASSUME HttpInv, [HttpNext]_httpVars
  PROVE  HttpInv'
  <1>1. CASE UNCHANGED httpVars
    <2>1. UNCHANGED <<storageVars, serviceVars, requestVars, counterVars, sent>>
          /\ UNCHANGED <<phase, stopping, expired, conn, cut, at>>
      BY <1>1 DEF httpVars, lifeVars, requestVars
    <2>2. LifeBooks'
      BY <2>1 DEF HttpInv, LifeBooks, InFlight
    <2>3. QED
      BY <2>1, <2>2, PhaseSound DEF HttpInv, HttpShape
  <1>2. ASSUME NEW r \in Request, Receive(r) \/ RequestStep(r) \/ Panic(r)
        PROVE  HttpInv'
    BY <1>2, ChainStep, UploadServedStep, DeletionServedStep, PanicStep DEF RequestStep
  <1>3. ASSUME NEW a \in AvatarId, ReadForm(a) PROVE HttpInv'
    BY <1>3, ChainStep DEF Request
  <1>4. CASE ShutdownStep
    BY <1>4, ProcessStepSound, EndSound DEF ShutdownStep, Exit
  <1>5. CASE Kill
    BY <1>5, EndSound DEF Kill
  <1>6. CASE Signal \/ LoseConnection
    BY <1>6, ProcessStepSound
  <1>7. QED
    BY <1>1, <1>2, <1>3, <1>4, <1>5, <1>6 DEF HttpNext

\* The inductive invariant holds.
THEOREM HttpInvariant == HttpSpec => []HttpInv
  BY HttpInitially, HttpStep, PTL DEF HttpSpec

\* Types, and that no counter outgrows the requests there are.
THEOREM HttpTypes == HttpSpec => []HttpTypeOK
  <1>1. HttpInv => HttpTypeOK
    <2> SUFFICES ASSUME HttpInv PROVE HttpTypeOK
      OBVIOUS
    <2>1. \A S : S \subseteq AvatarId => Cardinality(S) \in 0 .. Cardinality(AvatarId)
      BY FiniteAssumption, FS_Subset, FS_CardinalityType
    <2>2. \A S : S \subseteq Request => Cardinality(S) \in 0 .. Cardinality(Request)
      BY CountedFinite, FS_Subset, FS_CardinalityType
    <2>3. Created \subseteq AvatarId /\ Failed \subseteq AvatarId /\ Rejected \subseteq AvatarId
      BY DEF Created, Failed, Rejected, Answered
    <2>4. \A s \in Status : Left[s] \subseteq Request
      BY DEF Left
    <2>5. uploads \in [UploadOutcome -> 0 .. Cardinality(AvatarId)]
      BY <2>1, <2>3 DEF HttpInv, HttpShape, CountersAddUp, UploadOutcome
    <2>6. requests \in [Status -> 0 .. Cardinality(Request)]
      BY <2>2, <2>4 DEF HttpInv, HttpShape, CountersAddUp
    <2>7. QED
      BY <2>5, <2>6 DEF HttpInv, HttpTypeOK
  <1>2. QED
    BY <1>1, HttpInvariant, PTL

\* The dashboards tell the truth: each upload is counted once by its outcome,
\* each request that left the chain once by its status.
THEOREM CountersTellTheTruth == HttpSpec => []CountersAddUp
  <1>1. HttpInv => CountersAddUp
    BY DEF HttpInv
  <1>2. QED
    BY <1>1, HttpInvariant, PTL

\* A shutdown loses no event of a request that was answered in time, unless the
\* broker's connection was lost.
THEOREM LateEventsOnly == HttpSpec => []EventsOnlyLostLate
  <1>1. HttpInv => EventsOnlyLostLate
    BY DEF HttpInv
  <1>2. QED
    BY <1>1, HttpInvariant, PTL

\* A body above the limit leaves no row, and only such a body is told 413.
THEOREM LimitEnforced == HttpSpec => []LimitHolds
  <1>1. HttpInv => LimitHolds
    BY DEF HttpInv, UploadServed, LimitHolds
  <1>2. QED
    BY <1>1, HttpInvariant, PTL

\* A client error means that nothing was done.
THEOREM DenialsMeanNothingDone == HttpSpec => []DenialsTruthful
  <1>1. HttpInv => DenialsTruthful
    <2> SUFFICES ASSUME HttpInv PROVE DenialsTruthful
      OBVIOUS
    <2>1. \A a \in AvatarId : answer[a] \in {400, 413} => ~Exists(a) /\ object[a] = {}
      BY DEF HttpInv, UploadServed
    <2>2. ASSUME NEW a \in AvatarId, row[a].stage = "deleted"
          PROVE  \E d \in DeleteRequest : target[d] = a /\ answer[d] \notin {400, 403, 404}
      <3>1. PICK d \in DeleteRequest :
              target[d] = a /\ del[d] \in {"publish", "deleted", "failed", "crashed"}
        BY <2>2 DEF HttpInv, HiddenBooks
      <3>2. DeletionServed(d)
        BY DEF HttpInv
      <3>3. QED
        BY <3>1, <3>2 DEF DeletionServed
    <2>3. QED
      BY <2>1, <2>2 DEF DenialsTruthful
  <1>2. QED
    BY <1>1, HttpInvariant, PTL

\* A success means that what it promises is done.
THEOREM SuccessMeansDone == HttpSpec => []SuccessTruthful
  <1>1. HttpInv => SuccessTruthful
    BY DEF HttpInv, UploadServed, DeletionServed, SuccessTruthful
  <1>2. QED
    BY <1>1, HttpInvariant, PTL

-----------------------------------------------------------------------------
(* The server is a process of module Processes. *)

\* A step that leaves the process and the number of its requests alone is unseen.
LEMMA Unseen ==
  ASSUME UNCHANGED <<phase, stopping, expired, conn, cut>>, InFlight' = InFlight
  PROVE  UNCHANGED P!vars
  BY DEF P!vars, P!sharedVars, P!processVars, P!probeVars, P!countVars, Running

\* A request more, or one less.
LEMMA Joins ==
  ASSUME NEW r \in Request, r \notin InFlight, InFlight' = InFlight \cup {r}
  PROVE  /\ Cardinality(InFlight) \in Nat /\ Cardinality(InFlight) < Cardinality(Request)
         /\ Cardinality(InFlight') = Cardinality(InFlight) + 1
  <1>1. InFlight \subseteq Request /\ InFlight # Request
    BY DEF InFlight
  <1>2. IsFiniteSet(InFlight) /\ IsFiniteSet(Request)
    BY <1>1, CountedFinite
  <1>3. Cardinality(InFlight) \in Nat /\ Cardinality(InFlight) < Cardinality(Request)
    BY <1>1, <1>2, FS_Subset, FS_CardinalityType
  <1>4. QED
    BY <1>1, <1>3, OneMore

LEMMA Leaves ==
  ASSUME NEW r \in InFlight, InFlight' = InFlight \ {r}
  PROVE  /\ Cardinality(InFlight) \in Nat /\ Cardinality(InFlight) > 0
         /\ Cardinality(InFlight') = Cardinality(InFlight) - 1
  <1>1. IsFiniteSet(InFlight) /\ InFlight \subseteq Request
    BY CountedFinite DEF InFlight
  <1>2. IsFiniteSet(InFlight \ {r}) /\ Cardinality(InFlight \ {r}) = Cardinality(InFlight) - 1
    BY <1>1, FS_RemoveElement
  <1>3. Cardinality(InFlight) \in Nat /\ Cardinality(InFlight \ {r}) \in Nat
    BY <1>1, <1>2, FS_CardinalityType
  <1>4. QED
    BY <1>2, <1>3

\* What the requests do is unseen, but that they come and go.
LEMMA RequestsSeen ==
  ASSUME HttpInv, NEW r \in Request,
         Receive(r) \/ RequestStep(r) \/ Panic(r) \/ (r \in AvatarId /\ ReadForm(r))
  PROVE  [P!ProcessNext]_(P!vars)
  <1> USE DEF InFlight
  <1>at. at \in [Request -> Place]
    BY DEF HttpInv, HttpShape
  <1>1. UNCHANGED <<phase, stopping, expired, conn, cut>>
    BY DEF Receive, RequestStep, Panic, ReadForm, RequireUser, ObserveRequest, CheckLength,
      ServeUpload, AnswerUpload, ServeDelete, AnswerDelete, Reply, Proceed, lifeVars
  <1>2. CASE Receive(r)
    <2>1. phase = "serve" /\ r \notin InFlight /\ InFlight' = InFlight \cup {r}
      BY <1>at, <1>2 DEF Receive, Moves
    <2> HIDE DEF InFlight
    <2>2. P!Accept("server")
      BY <1>1, <2>1, Joins DEF P!Accept, P!sharedVars, P!probeVars, Running
    <2>3. QED
      BY <1>1, <2>2 DEF P!ProcessNext, P!ClientStep, P!countVars, Running
  <1>3. CASE ObserveRequest(r) \/ Panic(r)
    <2>1. r \in InFlight /\ InFlight' = InFlight \ {r}
      BY <1>at, <1>3 DEF ObserveRequest, Panic, Moves
    <2> HIDE DEF InFlight
    <2>2. P!Finish("server")
      BY <1>1, <2>1, Leaves DEF P!Finish, P!sharedVars, P!probeVars, Running
    <2>3. QED
      BY <1>1, <2>2 DEF P!ProcessNext, P!ClientStep, P!countVars, Running
  <1>4. CASE \/ RequireUser(r) \/ CheckLength(r) \/ ReadForm(r) \/ AnswerUpload(r) \/ AnswerDelete(r)
             \/ ServeUpload(r) \/ ServeDelete(r)
    <2>1. InFlight' = InFlight
      BY <1>at, <1>4 DEF RequireUser, CheckLength, ReadForm, AnswerUpload, AnswerDelete,
        ServeUpload, ServeDelete, Reply, Proceed, Moves, requestVars
    <2>2. QED
      BY <1>1, <2>1, Unseen
  <1>5. QED
    BY <1>2, <1>3, <1>4 DEF RequestStep

\* The process is shut down, killed or cut off as module Processes says.
LEMMA ProcessSeen ==
  ASSUME HttpInv, ShutdownStep \/ Kill \/ Signal \/ LoseConnection
  PROVE  [P!ProcessNext]_(P!vars)
  <1> USE DEF P!sharedVars, P!probeVars, P!countVars, Running, Goes
  <1>types. /\ stopping \in BOOLEAN /\ expired \in BOOLEAN /\ conn \in BOOLEAN /\ cut \in BOOLEAN
            /\ phase \in Phase /\ LifeBooks
    BY DEF HttpInv, HttpShape
  <1>none. Cardinality(InFlight) = 0 <=> InFlight = {}
    BY CountedFinite, FS_EmptySet DEF InFlight
  <1>1. CASE StopListening \/ ShutdownTimeout \/ Drained \/ ClosePublisher
    <2>1. InFlight' = InFlight
      BY <1>1 DEF StopListening, ShutdownTimeout, Drained, ClosePublisher, requestVars, InFlight
    <2>2. CASE StopListening
      <3>1. P!StopListening("server")
        BY <1>types, <2>1, <2>2 DEF StopListening, P!StopListening, P!Goto
      <3>2. QED
        BY <2>2, <3>1 DEF StopListening, P!ProcessNext, P!ProcessStep, P!Process
    <2>3. CASE ShutdownTimeout
      <3>1. P!ShutdownTimeout("server")
        BY <1>types, <2>1, <2>3 DEF ShutdownTimeout, P!ShutdownTimeout
      <3>2. QED
        BY <2>3, <3>1 DEF ShutdownTimeout, P!ProcessNext, P!ProcessStep, P!Process
    <2>4. CASE Drained
      <3>1. P!Drained("server")
        BY <1>types, <1>none, <2>1, <2>4 DEF Drained, P!Drained, P!Goto
      <3>2. QED
        BY <2>4, <3>1 DEF Drained, P!ProcessNext, P!ProcessStep, P!Process
    <2>5. CASE ClosePublisher
      <3>1. P!ClosePublisher("server")
        BY <1>types, <2>1, <2>5 DEF ClosePublisher, P!ClosePublisher
      <3>2. QED
        BY <2>5, <3>1 DEF ClosePublisher, P!ProcessNext, P!ProcessStep, P!Process
    <2>6. QED
      BY <1>1, <2>2, <2>3, <2>4, <2>5
  <1>2. CASE Exit \/ Kill
    <2>1. InFlight' = {}
      BY <1>2 DEF Exit, Kill, Ends, InFlight
    <2>2. Cardinality(InFlight') = 0
      BY <2>1, FS_EmptySet
    <2>3. P!End("server", "down")
      BY <1>2, <2>2 DEF Exit, Kill, Ends, P!End
    <2>4. CASE Exit
      <3>1. P!Exit("server")
        BY <2>3, <2>4 DEF Exit, Ends, P!Exit
      <3>2. QED
        BY <2>4, <3>1 DEF P!ProcessNext, P!ProcessStep, P!Process, Exit, Ends
    <2>5. CASE Kill
      <3>1. P!Kill("server")
        BY <2>3, <2>5 DEF Kill, P!Kill, P!Running
      <3>2. P!Disruption
        BY <1>types, <2>5, <3>1 DEF Kill, Ends, P!Disruption, P!Process
      <3>3. QED
        BY <3>2 DEF P!ProcessNext
    <2>6. QED
      BY <1>2, <2>4, <2>5
  <1>3. CASE Signal
    <2>1. InFlight' = InFlight
      BY <1>3 DEF Signal, requestVars, InFlight
    <2>2. P!Signal("server")
      BY <1>3, <2>1 DEF Signal, P!Signal, P!Running
    <2>3. P!Disruption
      BY <1>types, <1>3, <2>2 DEF Signal, P!Disruption, P!Process
    <2>4. QED
      BY <2>3 DEF P!ProcessNext
  <1>4. CASE LoseConnection
    <2>1. InFlight' = InFlight
      BY <1>4 DEF LoseConnection, requestVars, InFlight
    <2>2. P!LoseConnection("server")
      BY <1>4, <2>1 DEF LoseConnection, P!LoseConnection
    <2>3. P!Failure
      BY <1>types, <1>4, <2>2 DEF LoseConnection, LifeBooks, P!Failure, P!Process
    <2>4. QED
      BY <2>3 DEF P!ProcessNext
  <1>5. QED
    BY <1>1, <1>2, <1>3, <1>4 DEF ShutdownStep

\* The server with its requests implements the process that counts requests.
THEOREM ServerIsAProcess == HttpSpec => ServesAsProcess
  <1>1. ASSUME HttpInv, [HttpNext]_httpVars
        PROVE  [P!ProcessNext]_(P!vars)
    <2>1. CASE UNCHANGED httpVars
      BY <2>1, Unseen DEF httpVars, lifeVars, requestVars, InFlight
    <2>2. CASE HttpNext
      BY <1>1, <2>2, RequestsSeen, ProcessSeen DEF HttpNext, Request
    <2>3. QED
      BY <1>1, <2>1, <2>2
  <1>2. QED
    BY <1>1, HttpInvariant, PTL DEF HttpSpec, ServesAsProcess

=============================================================================
