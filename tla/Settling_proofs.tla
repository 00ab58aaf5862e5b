--------------------------- MODULE Settling_proofs --------------------------
(***************************************************************************)
(* With a single worker an acknowledged upload is settled, and a completed *)
(* avatar stays completed if the database never fails.  With two workers   *)
(* neither need be: the run stale_worker shows a copy that is still at     *)
(* work when the message is acknowledged.                                  *)
(***************************************************************************)
EXTENDS GophProfile_proofs

SingleWorker == \A v, w \in Worker : v = w

Processed == {"completed", "failed"}

\* With one worker the loops are told apart by their queues.
LEMMA LoopsApart ==
  ASSUME SystemInv, SingleWorker, NEW k \in Loop, NEW l \in Loop, k # l
  PROVE  k[2] # l[2]
  BY DEF SingleWorker, Loop

-----------------------------------------------------------------------------
(* Steps that write no processing status. *)

\* Rows that exist keep their status, none comes back, and a new one is not deleted.
RowsSettle ==
  \A a \in AvatarId :
    IF Exists(a) THEN row'[a].processing = row[a].processing /\ (Visible(a)' => Visible(a))
                 ELSE Visible(a)' => row'[a].processing # "deleted"

LEMMA Undisturbed ==
  ASSUME SystemInv, SettledInv, RowsSettle, UNCHANGED acked,
         \A l \in Loop : /\ pc'[l] = "ack" => pc[l] = "ack" /\ cur'[l] = cur[l]
                         /\ (buffer'[l] \cup {cur'[l]}) \cap acked = {}
  PROVE  SettledInv'
  <1>1. \A a \in AvatarId : UploadEvent(a) \in acked => Exists(a)
    <2>1. \A m \in acked : Exists(m.avatar)
      BY DEF SystemInv, ConsumerInv, Issued, EventBooks
    <2>2. \A a \in AvatarId : UploadEvent(a).avatar = a
      BY DEF UploadEvent
    <2>3. QED
      BY <2>1, <2>2
  <1>2. AckedUploadsSettled'
    BY <1>1 DEF SettledInv, AckedUploadsSettled, RowsSettle, Visible
  <1>3. ASSUME NEW l \in Loop PROVE SettledBooks(l)'
    <2>1. CASE pc'[l] # "ack"
      BY <2>1 DEF SettledBooks
    <2>2. CASE pc'[l] = "ack"
      <3>1. pc[l] = "ack" /\ cur'[l] = cur[l] /\ SettledBooks(l)
        BY <2>2 DEF SettledInv
      <3>2. Goal(l) \in AvatarId /\ Exists(Goal(l)) /\ Goal(l)' = Goal(l)
        BY <3>1, HeldMessage DEF Goal
      <3>3. row'[Goal(l)].processing = row[Goal(l)].processing
            /\ (Visible(Goal(l))' => Visible(Goal(l)))
        BY <3>2 DEF RowsSettle, Visible
      <3>4. QED
        BY <3>1, <3>2, <3>3 DEF SettledBooks
    <2>3. QED
      BY <2>1, <2>2
  <1>4. \A a \in AvatarId : Visible(a)' => row'[a].processing # "deleted"
    BY DEF SettledInv, RowsSettle, Visible
  <1>5. QED
    BY <1>2, <1>3, <1>4 DEF SettledInv

\* A request writes no processing status but that of a fresh record.
LEMMA RequestSettles ==
  ASSUME SystemInv, RequestCall
  PROVE  RowsSettle
  <1>1. \A a \in AvatarId : Served(a)
    BY RequestWrites
  <1>2. \A a \in AvatarId : ~Exists(a) => ~Visible(a)
    BY DEF Exists, Visible
  <1>3. QED
    BY <1>1, <1>2 DEF Served, RowsSettle, FreshRow, Visible

-----------------------------------------------------------------------------
(* The handlers. *)

\* What a call of a handler does to the statuses, and what it leaves behind when
\* its message is to be acknowledged.
CallSettles(l) ==
  /\ \A b \in AvatarId \ {Goal(l)} : row'[b] = row[b]
  /\ \/ row'[Goal(l)].processing = row[Goal(l)].processing
     \/ cur[l].kind = "upload" /\ row'[Goal(l)].processing # "deleted"
     \/ ~Visible(Goal(l))
  /\ pc'[l] = "ack" /\ cur[l].kind = "upload" /\ Visible(Goal(l))
       => row'[Goal(l)].processing \in Processed

LEMMA HandlerCallSettles ==
  ASSUME SystemInv, SettledInv, NEW l \in Loop, HandlerCall(l)
  PROVE  CallSettles(l)
  <1>types. StorageTypeOK /\ HandlerBooks(l) /\ ConsumerTypeOK
    BY DEF SystemInv, TypeOK
  <1>goal. pc[l] \in {"handle", "callback"} =>
             /\ Goal(l) \in AvatarId /\ Exists(Goal(l))
             /\ cur[l].kind = "delete" => ~Visible(Goal(l))
    BY HandlerGoal
  <1>ends. /\ Succeed(l) => pc'[l] = "ack"
           /\ Fail(l) => pc'[l] # "ack"
           /\ \A next, left : Continue(l, next, left) => pc'[l] = pc[l]
    BY <1>types DEF Succeed, Fail, HandlerOK, HandlerFails, Goto, ConsumerTypeOK, Continue,
      consumerVars, loopVars
  <1>1. CASE ReadAvatar(l)
    <2>1. pc[l] = "handle" /\ UNCHANGED row
      BY <1>1 DEF ReadAvatar, At, storageVars
    <2>2. pc'[l] = "ack" /\ Visible(Goal(l)) => row[Goal(l)].processing \in {"completed", "deleted"}
      BY <1>1, <1>ends, <2>1 DEF ReadAvatar
    <2>3. pc'[l] = "ack" /\ Visible(Goal(l)) => row'[Goal(l)].processing \in Processed
      BY <1>goal, <2>1, <2>2 DEF SettledInv, Processed
    <2>4. QED
      BY <2>1, <2>3 DEF CallSettles
  <1>2. CASE MarkProcessing(l)
    <2>1. PICK o \in WorkerOutcome(l, DatabaseFaults) :
            /\ SetProcessingStatus(Goal(l), "processing", o)
            /\ IF o = "ok" THEN Continue(l, "fetch", {}) ELSE Fail(l)
      BY <1>2 DEF MarkProcessing
    <2>2. pc[l] = "handle" /\ cur[l].kind = "upload" /\ pc'[l] # "ack"
      BY <1>2, <1>types, <1>ends, <2>1 DEF MarkProcessing, At, HandlerBooks
    <2>3. QED
      BY <1>types, <1>goal, <2>1, <2>2, StatusWritten DEF CallSettles
  <1>3. CASE FetchOriginal(l)
    <2>1. pc[l] = "handle" /\ UNCHANGED row
      BY <1>3 DEF FetchOriginal, At, storageVars
    <2>2. pc'[l] # "ack"
      BY <1>3, <1>ends, <2>1 DEF FetchOriginal
    <2>3. QED
      BY <2>1, <2>2 DEF CallSettles
  <1>4. ASSUME NEW key \in Key, StoreThumbnail(l, key) PROVE CallSettles(l)
    <2>1. pc[l] = "handle" /\ UNCHANGED row
      BY <1>4 DEF StoreThumbnail, At, Put
    <2>2. pc'[l] # "ack"
      BY <1>4, <1>ends, <2>1 DEF StoreThumbnail
    <2>3. QED
      BY <2>1, <2>2 DEF CallSettles
  <1>5. ASSUME NEW key \in Key, RemoveObject(l, key) PROVE CallSettles(l)
    <2>1. pc[l] = "handle" /\ UNCHANGED row
      BY <1>5 DEF RemoveObject, At, Remove
    <2>2. pc'[l] # "ack"
      BY <1>5, <1>ends, <2>1 DEF RemoveObject
    <2>3. QED
      BY <2>1, <2>2 DEF CallSettles
  <1>6. CASE RejectOriginal(l)
    <2>1. PICK o \in WorkerOutcome(l, DatabaseFaults) :
            SetProcessingStatus(Goal(l), "failed", o) /\ Finish(l, o)
      BY <1>6 DEF RejectOriginal
    <2>2. pc[l] = "handle" /\ cur[l].kind = "upload" /\ (pc'[l] = "ack" => o = "ok")
      BY <1>6, <1>types, <1>ends, <2>1 DEF RejectOriginal, At, HandlerBooks, Finish
    <2>3. QED
      BY <1>types, <1>goal, <2>1, <2>2, StatusWritten DEF CallSettles, Processed
  <1>7. CASE SaveThumbnails(l)
    <2>1. PICK o \in WorkerOutcome(l, DatabaseFaults) :
            SetThumbnails(Goal(l), ThumbnailSizes, o) /\ Finish(l, o)
      BY <1>7 DEF SaveThumbnails
    <2>2. pc[l] = "handle" /\ cur[l].kind = "upload" /\ (pc'[l] = "ack" => o = "ok")
      BY <1>7, <1>types, <1>ends, <2>1 DEF SaveThumbnails, At, HandlerBooks, Finish
    <2>3. QED
      BY <1>types, <1>goal, <2>1, <2>2, StatusWritten DEF CallSettles, Processed
  <1>8. CASE MarkDeleted(l)
    <2>1. \E o : SetProcessingStatus(Goal(l), "deleted", o)
      BY <1>8 DEF MarkDeleted
    <2>2. pc[l] = "handle" /\ ~Visible(Goal(l))
      BY <1>8, <1>types, <1>goal DEF MarkDeleted, At, HandlerBooks
    <2>3. QED
      BY <1>types, <1>goal, <2>1, <2>2, StatusWritten DEF CallSettles
  <1>9. CASE UploadFailed(l)
    <2>1. pc[l] = "callback" /\ pc'[l] # "ack" /\ \E o : SetProcessingStatus(Goal(l), "failed", o)
      BY <1>9, <1>types DEF UploadFailed, CallbackReturns, Goto, ConsumerTypeOK
    <2>2. cur[l].kind \in {"upload", "delete"}
      BY <2>1, HeldMessage, EventFields
    <2>3. QED
      BY <1>types, <1>goal, <2>1, <2>2, StatusWritten DEF CallSettles
  <1>10. QED
    BY <1>1, <1>2, <1>3, <1>4, <1>5, <1>6, <1>7, <1>8, <1>9 DEF HandlerCall

\* A handler at work on an upload writes to an avatar whose event is not
\* acknowledged yet, and with a single worker nobody else is about to do so.
LEMMA HandlerCallKeeps ==
  ASSUME SystemInv, SettledInv, SingleWorker, NEW l \in Loop, HandlerCall(l)
  PROVE  SettledInv'
  <1>1. CallSettles(l)
    BY HandlerCallSettles
  <1>2. HandlerSound(l)
    BY HandlerStepSound
  <1>3. /\ UNCHANGED <<acked, buffer, cur>> /\ pc[l] \in {"handle", "callback"}
        /\ \A k \in Loop \ {l} : pc'[k] = pc[k]
    <2>1. UNCHANGED <<acked, buffer, cur>> /\ pc[l] \in {"handle", "callback"}
      BY DEF HandlerCall, ReadAvatar, MarkProcessing, FetchOriginal, StoreThumbnail, RemoveObject,
        RejectOriginal, SaveThumbnails, MarkDeleted, UploadFailed, At, CallbackReturns, Finish,
        Succeed, Fail, HandlerOK, HandlerFails, Continue, consumerVars, loopVars, brokerVars
    <2>2. QED
      BY <1>2, <2>1 DEF HandlerSound, OthersUntouched
  <1>4. \A b \in AvatarId : row'[b].stage = row[b].stage
    BY <1>2 DEF HandlerSound, StoresStep, RowsStand
  <1>5. /\ Goal(l) \in AvatarId /\ cur[l] \in Message /\ Route[cur[l]] = l[2]
        /\ cur[l] \notin acked
        /\ cur[l].kind = "upload" => cur[l] = UploadEvent(Goal(l))
    BY <1>3, HeldMessage, UploadEventOf DEF Goal, SettledInv, SettledBooks
  <1>6. AckedUploadsSettled'
    <2> SUFFICES ASSUME NEW a \in AvatarId, UploadEvent(a) \in acked, Visible(a)'
                 PROVE  row'[a].processing \in {"completed", "failed"}
      BY <1>3 DEF AckedUploadsSettled
    <2>1. Visible(a) /\ row[a].processing \in {"completed", "failed"}
      BY <1>4 DEF SettledInv, AckedUploadsSettled, Visible
    <2>2. row'[a].processing = row[a].processing
      BY <1>1, <1>5, <2>1 DEF CallSettles
    <2>3. QED
      BY <2>1, <2>2
  <1>7. ASSUME NEW k \in Loop PROVE SettledBooks(k)'
    <2>1. (buffer'[k] \cup {cur'[k]}) \cap acked' = {}
      BY <1>3 DEF SettledInv, SettledBooks
    <2> SUFFICES ASSUME pc'[k] = "ack", cur[k].kind = "upload", Visible(Goal(k))'
                 PROVE  row'[Goal(k)].processing \in {"completed", "failed"}
      BY <1>3, <2>1 DEF SettledBooks, Goal
    <2>2. CASE k = l
      BY <1>1, <1>3, <1>4, <1>5, <2>2 DEF CallSettles, Processed, Visible, Goal
    <2>3. CASE k # l
      <3>1. pc[k] = "ack"
        BY <1>3, <2>3
      <3>2. Goal(k) \in AvatarId /\ cur[k] \in Message /\ Route[cur[k]] = k[2]
            /\ cur[k] = UploadEvent(Goal(k))
        BY <3>1, HeldMessage, UploadEventOf DEF Goal
      <3>3. Visible(Goal(k))
        BY <1>3, <1>4, <3>2 DEF Visible, Goal
      <3>4. row[Goal(k)].processing \in {"completed", "failed"}
        BY <3>1, <3>3 DEF SettledInv, SettledBooks
      <3>5. cur[k] # cur[l]
        BY <1>5, <2>3, <3>2, LoopsApart
      <3>6. row'[Goal(k)].processing = row[Goal(k)].processing
        BY <1>1, <1>5, <3>2, <3>3, <3>5 DEF CallSettles
      <3>7. QED
        BY <3>4, <3>6
    <2>4. QED
      BY <2>2, <2>3
  <1>8. \A a \in AvatarId : Visible(a)' => row'[a].processing # "deleted"
    BY <1>1, <1>4, <1>5 DEF SettledInv, CallSettles, Visible
  <1>9. QED
    BY <1>6, <1>7, <1>8 DEF SettledInv

-----------------------------------------------------------------------------
(* The broker, the loops and the process. *)

\* An Ack that reaches the broker: the upload is settled, and no other loop holds
\* the message.
LEMMA AckKeeps ==
  ASSUME SystemInv, SettledInv, SingleWorker, NEW l \in Loop, Ack(l), UNCHANGED storageVars
  PROVE  SettledInv'
  <1>types. /\ pc \in [Loop -> LoopState] /\ cur \in [Loop -> Message \cup {NoMessage}]
            /\ acked \subseteq Message
    BY DEF SystemInv, ConsumerInv, ConsumerTypeOK, Issued
  <1>1. /\ pc[l] = "ack" /\ cur[l] \in Message /\ Route[cur[l]] = l[2] /\ Goal(l) \in AvatarId
        /\ cur[l].kind = "upload" => cur[l] = UploadEvent(Goal(l))
    BY HeldMessage, UploadEventOf DEF Ack, Goal
  <1>2. /\ acked' = IF Connected(l[1]) THEN acked \cup {cur[l]} ELSE acked
        /\ UNCHANGED <<buffer, row>>
        /\ pc' = [pc EXCEPT ![l] = "select"] /\ cur' = [cur EXCEPT ![l] = NoMessage]
    BY DEF Ack, Release, Goto, storageVars
  <1>3. AckedUploadsSettled'
    <2> SUFFICES ASSUME NEW a \in AvatarId, UploadEvent(a) \in acked', Visible(a)
                 PROVE  row[a].processing \in {"completed", "failed"}
      BY <1>2 DEF AckedUploadsSettled, Visible
    <2>1. CASE UploadEvent(a) \in acked
      BY <2>1 DEF SettledInv, AckedUploadsSettled
    <2>2. CASE UploadEvent(a) = cur[l]
      <3>1. cur[l].kind = "upload" /\ Goal(l) = a
        BY <2>2 DEF UploadEvent, Goal
      <3>2. QED
        BY <1>1, <3>1 DEF SettledInv, SettledBooks
    <2>3. QED
      BY <1>2, <2>1, <2>2
  <1>4. ASSUME NEW k \in Loop PROVE SettledBooks(k)'
    <2>1. (buffer[k] \cup {cur[k]}) \cap acked = {}
      BY DEF SettledInv, SettledBooks
    <2>2. CASE k = l
      <3>1. Connected(l[1]) => cur[l] \notin buffer[l]
        BY DEF SystemInv, ConsumerInv, NothingDoubled
      <3>2. pc'[l] = "select" /\ cur'[l] = NoMessage
        BY <1>types, <1>2
      <3>3. QED
        BY <1>types, <1>1, <1>2, <2>1, <2>2, <3>1, <3>2, NoMessageAssumption DEF SettledBooks
    <2>3. CASE k # l
      <3>1. pc'[k] = pc[k] /\ cur'[k] = cur[k] /\ buffer'[k] = buffer[k]
        BY <1>types, <1>2, <2>3
      <3>2. \A m \in buffer[k] \cup {cur[k]} : m # NoMessage => Route[m] = k[2]
        BY DEF SystemInv, ConsumerInv, Issued
      <3>3. cur[l] \notin buffer[k] \cup {cur[k]}
        BY <1>1, <2>3, <3>2, LoopsApart, NoMessageAssumption
      <3>4. (buffer'[k] \cup {cur'[k]}) \cap acked' = {}
        BY <1>2, <2>1, <3>1, <3>3
      <3>5. QED
        BY <1>2, <3>1, <3>4 DEF SettledInv, SettledBooks, Goal, Visible
    <2>4. QED
      BY <2>2, <2>3
  <1>5. QED
    BY <1>2, <1>3, <1>4 DEF SettledInv, Visible

\* A step that touches neither the stores nor what is acknowledged.
LEMMA OutsideSettles ==
  ASSUME SystemInv, SettledInv, UNCHANGED <<storageVars, acked>>,
         \A l \in Loop : /\ pc'[l] = "ack" => pc[l] = "ack" /\ cur'[l] = cur[l]
                         /\ buffer'[l] \cup {cur'[l]} \subseteq
                              buffer[l] \cup {cur[l], NoMessage} \cup ready
  PROVE  SettledInv'
  <1>1. RowsSettle
    BY DEF RowsSettle, storageVars, SettledInv, Visible
  <1>2. ready \cap acked = {} /\ NoMessage \notin acked
    BY NoMessageAssumption DEF SystemInv, ConsumerInv, ConsumerTypeOK, NothingDoubled, Issued
  <1>3. \A l \in Loop : (buffer'[l] \cup {cur'[l]}) \cap acked = {}
    BY <1>2 DEF SettledInv, SettledBooks
  <1>4. QED
    BY <1>1, <1>3, Undisturbed

-----------------------------------------------------------------------------
(* The theorem. *)

LEMMA SettledInit ==
  ASSUME Init
  PROVE  SettledInv
  <1>1. acked = {} /\ \A l \in Loop : pc[l] = "select"
    BY DEF Init, ConsumerInit
  <1>2. \A a \in AvatarId : row[a].stage = "absent"
    BY DEF Init, StorageInit, FreshRow
  <1>3. QED
    BY <1>1, <1>2 DEF SettledInv, AckedUploadsSettled, SettledBooks, Visible

LEMMA SettledStep ==
  ASSUME SystemInv, SettledInv, SingleWorker, [SystemNext]_vars
  PROVE  SettledInv'
  <1> USE DEF brokerVars, loopVars
  <1>types. /\ pc \in [Loop -> LoopState] /\ cur \in [Loop -> Message \cup {NoMessage}]
            /\ buffer \in [Loop -> SUBSET Message]
    BY DEF SystemInv, ConsumerInv, ConsumerTypeOK
  <1>held. \A l \in Loop : (buffer[l] \cup {cur[l]}) \cap acked = {}
    BY DEF SettledInv, SettledBooks
  <1>server. ASSUME RowsSettle, UNCHANGED <<acked, buffer, cur, pc>> PROVE SettledInv'
    BY <1>held, <1>server, Undisturbed
  <1>publish. ASSUME NEW m, Publish(m) PROVE UNCHANGED <<acked, buffer, cur, pc>>
    BY <1>publish DEF Publish, Enqueue, consumerVars
  <1>1. CASE UNCHANGED vars
    BY <1>1, OutsideSettles DEF vars, consumerVars
  <1>2. CASE NewRequest \/ ServerCrash
    BY <1>2, <1>server, RequestSettles DEF NewRequest, ServerCrash, RequestCall, consumerVars
  <1>3. ASSUME NEW a \in AvatarId, UploadStep(a) PROVE SettledInv'
    <2>1. RowsSettle
      BY <1>3, RequestSettles DEF UploadStep, RequestCall
    <2>2. UNCHANGED <<acked, buffer, cur, pc>>
      BY <1>3, <1>publish DEF UploadStep, consumerVars
    <2>3. QED
      BY <1>server, <2>1, <2>2
  <1>4. ASSUME NEW d \in DeleteRequest, DeleteStep(d) PROVE SettledInv'
    <2>1. RowsSettle
      BY <1>4, RequestSettles DEF DeleteStep, RequestCall
    <2>2. UNCHANGED <<acked, buffer, cur, pc>>
      BY <1>4, <1>publish DEF DeleteStep, consumerVars
    <2>3. QED
      BY <1>server, <2>1, <2>2
  <1>5. ASSUME NEW l \in Loop, WorkerLoopStep(l) PROVE SettledInv'
    <2>1. CASE /\ \/ StopLoop(l) \/ LoseChannel(l) \/ BackoffCanceled(l) \/ Requeue(l)
                  \/ GiveUp(l) \/ Bury(l)
               /\ UNCHANGED storageVars
      <3>1. UNCHANGED acked
        BY <2>1 DEF StopLoop, LoseChannel, BackoffCanceled, Requeue, GiveUp, Bury
      <3>2. \A k \in Loop : /\ pc'[k] = "ack" => pc[k] = "ack" /\ cur'[k] = cur[k]
                            /\ buffer'[k] \subseteq buffer[k] /\ cur'[k] \in {cur[k], NoMessage}
        BY <1>types, <2>1 DEF StopLoop, LoseChannel, BackoffCanceled, Requeue, GiveUp, Bury,
          Release, Goto
      <3>3. QED
        BY <2>1, <3>1, <3>2, OutsideSettles
    <2>2. CASE Ack(l) /\ UNCHANGED storageVars
      BY <2>2, AckKeeps
    <2>3. CASE HandlerCall(l)
      BY <2>3, HandlerCallKeeps
    <2>4. ASSUME \/ \E m \in buffer[l] : TakeAndHandle(l, m)
                 \/ RetryHandler(l)
          PROVE  SettledInv'
      <3>1. UNCHANGED <<storageVars, acked>>
        BY <2>4 DEF TakeAndHandle, Take, RetryHandler, Retry
      <3>2. \A k \in Loop : /\ pc'[k] = "ack" => pc[k] = "ack" /\ cur'[k] = cur[k]
                            /\ buffer'[k] \subseteq buffer[k] /\ cur'[k] \in {cur[k]} \cup buffer[k]
        BY <1>types, <2>4 DEF TakeAndHandle, Take, RetryHandler, Retry, Goto
      <3>3. QED
        BY <3>1, <3>2, OutsideSettles
    <2>5. QED
      BY <1>5, <2>1, <2>2, <2>3, <2>4 DEF WorkerLoopStep, PlainLoopStep
  <1>6. ASSUME NEW l \in Loop, BrokerStep(l) PROVE SettledInv'
    <2>1. UNCHANGED <<storageVars, acked, pc, cur>>
      BY <1>6 DEF BrokerStep, Deliver
    <2>2. \A k \in Loop : buffer'[k] \subseteq buffer[k] \cup ready
      BY <1>6, <1>types DEF BrokerStep, Deliver
    <2>3. QED
      BY <2>1, <2>2, OutsideSettles
  <1>7. ASSUME NEW w \in Worker, WorkerRunStep(w) \/ WorkerDisruption(w) PROVE SettledInv'
    <2>1. UNCHANGED <<storageVars, acked>>
      BY <1>7 DEF WorkerRunStep, RunStep, CloseConn, Restart, WorkerDisruption, Terminate,
        LoseConn, Crash
    <2>2. \A k \in Loop : /\ pc'[k] = "ack" => pc[k] = "ack" /\ cur'[k] = cur[k]
                          /\ buffer'[k] \subseteq buffer[k] /\ cur'[k] \in {cur[k], NoMessage}
      BY <1>7, <1>types DEF WorkerRunStep, RunStep, CloseConn, Restart, WorkerDisruption, Terminate,
        LoseConn, Crash, LoopsOf
    <2>3. QED
      BY <2>1, <2>2, OutsideSettles
  <1>8. QED
    BY <1>1, <1>2, <1>3, <1>4, <1>5, <1>6, <1>7 DEF SystemNext

\* UploadsSettledByOneWorker: with one worker process, through any retries,
\* redeliveries, shutdowns and crashes of it, no live avatar is left pending or
\* processing once its upload event is acknowledged.
THEOREM UploadsSettledByOneWorker == SingleWorker => (SystemSpec => []AckedUploadsSettled)
  <1> SUFFICES ASSUME SingleWorker PROVE SystemSpec => []AckedUploadsSettled
    OBVIOUS
  <1>1. Init => SettledInv
    BY SettledInit
  <1>2. SystemInv /\ SettledInv /\ [SystemNext]_vars => SettledInv'
    BY SettledStep
  <1>3. SettledInv => AckedUploadsSettled
    BY DEF SettledInv
  <1>4. QED
    BY <1>1, <1>2, <1>3, SystemInvariant, PTL DEF SystemSpec

-----------------------------------------------------------------------------
(* Completed avatars. *)

\* A loop in which an upload's handler, or the callback after it, may still write.
Busy(l) ==
  \/ step[l] \in {"mark", "fetch", "store", "save"}
  \/ pc[l] \in {"backoff", "callback"}
  \/ pc[l] = "failed" /\ Live(l[1])

\* A live avatar that is completed stays so, or is hidden.
CompletionStands ==
  \A a \in AvatarId :
    row[a].processing = "completed" /\ Visible(a) /\ Visible(a)'
      => row[a]'.processing = "completed"

LEMMA BusyHolds ==
  ASSUME SystemInv, NEW l \in Loop, Busy(l)
  PROVE  Goal(l) \in AvatarId /\ Exists(Goal(l))
  <1>1. pc[l] \notin {"select", "done"}
    BY DEF Busy, SystemInv, HandlerBooks
  <1>2. QED
    BY <1>1, HeldMessage

\* A loop that becomes no busier, while nobody completes the avatar of its event.
LEMMA UnfinishedKept ==
  ASSUME SystemInv, UnfinishedInv, NEW l \in Loop,
         Busy(l)' => Busy(l) /\ cur'[l] = cur[l],
         \A b \in AvatarId :
           b = Goal(l) /\ Exists(b) /\ Visible(b)'
             => /\ Visible(b)
                /\ row'[b].processing = "completed" => row[b].processing = "completed"
  PROVE  UnfinishedBooks(l)'
  <1>1. UnfinishedBooks(l)
    BY DEF UnfinishedInv
  <1>2. CASE Busy(l)'
    <2>1. Goal(l)' = Goal(l) /\ Goal(l) \in AvatarId /\ Exists(Goal(l))
      BY <1>2, BusyHolds DEF Goal
    <2>2. QED
      BY <1>1, <1>2, <2>1 DEF UnfinishedBooks, Busy, Visible
  <1>3. CASE ~Busy(l)'
    BY <1>3 DEF UnfinishedBooks, Busy
  <1>4. QED
    BY <1>2, <1>3

\* What a call of a handler, or the callback, does to the avatar of its event.
LEMMA CallUnfinished ==
  ASSUME SystemInv, UnfinishedInv, DatabaseFaults = {}, NEW l \in Loop, HandlerCall(l)
  PROVE  /\ UnfinishedBooks(l)'
         /\ Visible(Goal(l)) /\ row[Goal(l)].processing = "completed"
              => row'[Goal(l)].processing = "completed"
  <1>types. StorageTypeOK /\ HandlerBooks(l) /\ ConsumerTypeOK /\ ProcessorTypeOK
    BY DEF SystemInv, TypeOK
  <1>goal. pc[l] \in {"handle", "callback"} =>
             /\ Goal(l) \in AvatarId /\ Exists(Goal(l))
             /\ cur[l].kind = "delete" => ~Visible(Goal(l))
    BY HandlerGoal
  <1>books. Busy(l) /\ Visible(Goal(l)) => row[Goal(l)].processing # "completed"
    BY DEF UnfinishedInv, UnfinishedBooks, Busy
  <1>ends. /\ Succeed(l) => ~Busy(l)'
           /\ Fail(l) /\ ~Live(l[1]) => ~Busy(l)'
           /\ \A next, left : Continue(l, next, left) => pc'[l] = pc[l] /\ step'[l] = next
    BY <1>types DEF Succeed, Fail, EndHandler, HandlerOK, HandlerFails, Goto, ConsumerTypeOK,
      ProcessorTypeOK, Continue, consumerVars, loopVars, workerVars, Busy, Live
  <1>stage. UNCHANGED cur /\ Goal(l)' = Goal(l)
            /\ (Goal(l) \in AvatarId => row'[Goal(l)].stage = row[Goal(l)].stage)
    <2>1. UNCHANGED cur
      BY DEF HandlerCall, ReadAvatar, MarkProcessing, FetchOriginal, StoreThumbnail, RemoveObject,
        RejectOriginal, SaveThumbnails, MarkDeleted, UploadFailed, CallbackReturns, Finish,
        Succeed, Fail, HandlerOK, HandlerFails, Continue, consumerVars, loopVars
    <2>2. QED
      BY <2>1, HandlerStepSound DEF HandlerSound, StoresStep, RowsStand, Goal
  <1>outcome. \A o \in WorkerOutcome(l, DatabaseFaults) : o = "ok" \/ ~Live(l[1])
    BY DEF WorkerOutcome
  <1>kept. ASSUME pc[l] \in {"handle", "callback"},
                  ~Visible(Goal(l)) \/ row'[Goal(l)].processing # "completed" \/ ~Busy(l)'
           PROVE  UnfinishedBooks(l)'
    BY <1>kept, <1>goal, <1>stage DEF UnfinishedBooks, Busy, Visible
  <1>1. CASE ReadAvatar(l)
    <2>1. pc[l] = "handle" /\ UNCHANGED row
      BY <1>1 DEF ReadAvatar, At, storageVars
    <2>2. \/ Succeed(l) \/ (Fail(l) /\ ~Live(l[1]))
          \/ ~Visible(Goal(l)) \/ row[Goal(l)].processing # "completed"
      BY <1>1, <1>outcome DEF ReadAvatar
    <2>3. ~Busy(l)' \/ ~Visible(Goal(l)) \/ row'[Goal(l)].processing # "completed"
      BY <1>ends, <2>1, <2>2
    <2>4. QED
      BY <1>kept, <2>1, <2>3
  <1>2. CASE MarkProcessing(l) \/ RejectOriginal(l)
    <2>1. PICK o \in WorkerOutcome(l, DatabaseFaults), status \in {"processing", "failed"} :
            SetProcessingStatus(Goal(l), status, o)
      BY <1>2 DEF MarkProcessing, RejectOriginal
    <2>2. Busy(l) /\ pc[l] = "handle"
      BY <1>2 DEF MarkProcessing, RejectOriginal, At, Busy
    <2>3. row'[Goal(l)].processing \in {row[Goal(l)].processing, status}
      BY <1>types, <1>goal, <2>1, <2>2, StatusWritten
    <2>4. QED
      BY <1>books, <1>kept, <2>2, <2>3
  <1>3. ASSUME FetchOriginal(l) \/ \E key \in Key : StoreThumbnail(l, key)
        PROVE  /\ UnfinishedBooks(l)'
               /\ row'[Goal(l)].processing = row[Goal(l)].processing
    <2>1. Busy(l) /\ pc[l] = "handle" /\ UNCHANGED row
      BY <1>3 DEF FetchOriginal, StoreThumbnail, At, Busy, storageVars, Put
    <2>2. QED
      BY <1>books, <1>kept, <2>1
  <1>4. CASE SaveThumbnails(l)
    <2>1. PICK o \in WorkerOutcome(l, DatabaseFaults) :
            SetThumbnails(Goal(l), ThumbnailSizes, o) /\ Finish(l, o)
      BY <1>4 DEF SaveThumbnails
    <2>2. Busy(l) /\ pc[l] = "handle"
      BY <1>4 DEF SaveThumbnails, At, Busy
    <2>3. ~Busy(l)'
      BY <1>ends, <1>outcome, <2>1 DEF Finish
    <2>4. QED
      BY <1>books, <1>kept, <2>2, <2>3
  <1>5. CASE MarkDeleted(l) \/ \E key \in Key : RemoveObject(l, key)
    <2>1. pc[l] = "handle" /\ ~Visible(Goal(l))
      BY <1>5, <1>types, <1>goal DEF MarkDeleted, RemoveObject, At, HandlerBooks
    <2>2. QED
      BY <1>kept, <2>1
  <1>6. CASE UploadFailed(l)
    <2>1. pc[l] = "callback" /\ pc'[l] = "nack" /\ step'[l] = step[l]
      BY <1>6, <1>types DEF UploadFailed, CallbackReturns, Goto, ConsumerTypeOK, processorVars
    <2>2. Busy(l) /\ ~Busy(l)'
      BY <1>types, <2>1 DEF Busy, HandlerBooks
    <2>3. QED
      BY <1>books, <1>kept, <2>1, <2>2
  <1>7. QED
    BY <1>1, <1>2, <1>3, <1>4, <1>5, <1>6 DEF HandlerCall

\* Two loops of one worker never work on the same live avatar: the queue of a
\* message is its kind, and a deletion's avatar is hidden.
LEMMA GoalsApart ==
  ASSUME SystemInv, SingleWorker, NEW k \in Loop, NEW l \in Loop, k # l,
         pc[k] \notin {"select", "done"}, pc[l] \notin {"select", "done"},
         Goal(k) = Goal(l)
  PROVE  ~Visible(Goal(k))
  <1>1. k[2] # l[2]
    BY LoopsApart
  <1>2. /\ cur[k] \in Message /\ cur[l] \in Message
        /\ Route[cur[k]] = k[2] /\ Route[cur[l]] = l[2]
        /\ cur[k] \in published /\ cur[l] \in published
    BY HeldMessage
  <1>3. cur[k].kind # cur[l].kind
    BY <1>1, <1>2, EventAssumption, TopologyAssumption
  <1>4. cur[k].kind = "delete" \/ cur[l].kind = "delete"
    BY <1>2, <1>3, EventFields
  <1>5. QED
    BY <1>2, <1>4 DEF SystemInv, EventBooks, Goal, Visible

LEMMA HandlerCallUnfinished ==
  ASSUME SystemInv, UnfinishedInv, SingleWorker, DatabaseFaults = {}, NEW l \in Loop,
         HandlerCall(l), UNCHANGED serviceVars
  PROVE  UnfinishedInv' /\ CompletionStands
  <1>1. pc[l] \in {"handle", "callback"} /\ UNCHANGED <<cur, ctx>>
    BY DEF HandlerCall, ReadAvatar, MarkProcessing, FetchOriginal, StoreThumbnail, RemoveObject,
      RejectOriginal, SaveThumbnails, MarkDeleted, UploadFailed, At, CallbackReturns, Finish,
      Succeed, Fail, HandlerOK, HandlerFails, Continue, consumerVars, loopVars, workerVars
  <1>2. \A b \in AvatarId : /\ row'[b].stage = row[b].stage
                            /\ row'[b] # row[b] => b = Goal(l)
    BY WorkerWrites DEF WorkerLoopStep
  <1>3. CompletionStands
    BY <1>2, CallUnfinished DEF CompletionStands
  <1>4. ASSUME NEW k \in Loop, k # l PROVE UnfinishedBooks(k)'
    <2>1. Busy(k)' => Busy(k) /\ cur'[k] = cur[k]
      BY <1>1, <1>4, HandlerStepSound DEF HandlerSound, OthersUntouched, Busy, Live
    <2>2. CASE Busy(k)
      <3>1. pc[k] \notin {"select", "done"}
        BY <2>2 DEF Busy, SystemInv, HandlerBooks
      <3>2. Goal(k) = Goal(l) => ~Visible(Goal(k))
        BY <1>1, <1>4, <3>1, GoalsApart
      <3>3. QED
        BY <1>2, <2>1, <3>2, UnfinishedKept DEF Visible
    <2>3. CASE ~Busy(k)
      BY <2>1, <2>3 DEF UnfinishedBooks, Busy
    <2>4. QED
      BY <2>2, <2>3
  <1>5. QED
    BY <1>3, <1>4, CallUnfinished DEF UnfinishedInv

LEMMA UnfinishedStep ==
  ASSUME SystemInv, UnfinishedInv, SingleWorker, DatabaseFaults = {}, [SystemNext]_vars
  PROVE  UnfinishedInv' /\ CompletionStands
  <1> USE DEF brokerVars, loopVars
  <1>types. /\ pc \in [Loop -> LoopState] /\ cur \in [Loop -> Message \cup {NoMessage}]
            /\ step \in [Loop -> Step] /\ ctx \in [Worker -> {"live", "canceled"}]
            /\ \A l \in Loop : step[l] # "none" <=> pc[l] = "handle"
    BY DEF SystemInv, ConsumerInv, ConsumerTypeOK, TypeOK, ProcessorTypeOK, HandlerBooks
  <1>still. ASSUME RowsSettle, \A l \in Loop : Busy(l)' => Busy(l) /\ cur'[l] = cur[l]
            PROVE  UnfinishedInv' /\ CompletionStands
    <2>1. \A b \in AvatarId : Visible(b) => Exists(b)
      BY DEF Visible, Exists
    <2>2. CompletionStands
      BY <1>still, <2>1 DEF CompletionStands, RowsSettle
    <2>3. \A l \in Loop : UnfinishedBooks(l)'
      BY <1>still, UnfinishedKept DEF RowsSettle, Visible
    <2>4. QED
      BY <2>2, <2>3 DEF UnfinishedInv
  <1>rows. UNCHANGED storageVars => RowsSettle
    BY DEF storageVars, RowsSettle, Exists, Visible
  <1>calm. ASSUME UNCHANGED <<step, pc, cur, ctx>>
           PROVE  \A l \in Loop : Busy(l)' => Busy(l) /\ cur'[l] = cur[l]
    BY <1>calm DEF Busy, Live
  <1>publish. ASSUME NEW m, Publish(m) PROVE UNCHANGED <<step, pc, cur, ctx>>
    BY <1>publish DEF Publish, Enqueue, consumerVars, workerVars, processorVars
  <1>1. CASE UNCHANGED vars
    BY <1>1, <1>still, <1>rows, <1>calm DEF vars, consumerVars, workerVars, processorVars
  <1>2. CASE NewRequest \/ ServerCrash
    BY <1>2, <1>still, <1>calm, RequestSettles
      DEF NewRequest, ServerCrash, RequestCall, consumerVars, workerVars, processorVars
  <1>3. ASSUME NEW a \in AvatarId, UploadStep(a) PROVE UnfinishedInv' /\ CompletionStands
    <2>1. UNCHANGED <<step, pc, cur, ctx>>
      BY <1>3, <1>publish DEF UploadStep, consumerVars, workerVars, processorVars
    <2>2. RowsSettle
      BY <1>3, RequestSettles DEF UploadStep, RequestCall
    <2>3. QED
      BY <1>still, <1>calm, <2>1, <2>2
  <1>4. ASSUME NEW d \in DeleteRequest, DeleteStep(d) PROVE UnfinishedInv' /\ CompletionStands
    <2>1. UNCHANGED <<step, pc, cur, ctx>>
      BY <1>4, <1>publish DEF DeleteStep, consumerVars, workerVars, processorVars
    <2>2. RowsSettle
      BY <1>4, RequestSettles DEF DeleteStep, RequestCall
    <2>3. QED
      BY <1>still, <1>calm, <2>1, <2>2
  <1>5. ASSUME NEW l \in Loop, WorkerLoopStep(l) PROVE UnfinishedInv' /\ CompletionStands
    <2>1. CASE PlainLoopStep(l) /\ UNCHANGED <<storageVars, processorVars>>
      <3>1. \A k \in Loop \ {l} : pc'[k] = pc[k] /\ cur'[k] = cur[k]
        BY <1>types, <2>1 DEF PlainLoopStep, StopLoop, LoseChannel, BackoffCanceled, Ack, Requeue,
          GiveUp, Bury, Release, Goto
      <3>2. \A w \in Worker : Live(w)' => Live(w)
        BY <1>types, <2>1 DEF PlainLoopStep, StopLoop, LoseChannel, BackoffCanceled, Ack, Requeue,
          GiveUp, Bury, workerVars, Live
      <3>3. Busy(l)' => Busy(l) /\ cur'[l] = cur[l]
        BY <1>types, <2>1 DEF PlainLoopStep, StopLoop, LoseChannel, BackoffCanceled, Ack, Requeue,
          GiveUp, Bury, Release, Goto, Busy, processorVars, workerVars, Live
      <3>4. \A k \in Loop : Busy(k)' => Busy(k) /\ cur'[k] = cur[k]
        BY <2>1, <3>1, <3>2, <3>3 DEF Busy, Loop, processorVars
      <3>5. QED
        BY <1>still, <1>rows, <2>1, <3>4
    <2>2. ASSUME (\E m \in buffer[l] : TakeAndHandle(l, m)) \/ RetryHandler(l)
          PROVE  UnfinishedInv' /\ CompletionStands
      <3>1. UNCHANGED <<storageVars, ctx>> /\ pc'[l] = "handle" /\ step'[l] \in {"read", "remove"}
            /\ \A k \in Loop \ {l} : pc'[k] = pc[k] /\ cur'[k] = cur[k] /\ step'[k] = step[k]
        BY <1>types, <2>2 DEF TakeAndHandle, Take, RetryHandler, Retry, Goto, StartHandler, workerVars
      <3>2. \A k \in Loop : Busy(k)' => Busy(k) /\ cur'[k] = cur[k]
        BY <3>1 DEF Busy, Live
      <3>3. QED
        BY <1>still, <1>rows, <3>1, <3>2
    <2>3. CASE HandlerCall(l)
      BY <1>5, <2>3, HandlerCallUnfinished DEF WorkerLoopStep
    <2>4. QED
      BY <1>5, <2>1, <2>2, <2>3 DEF WorkerLoopStep
  <1>6. ASSUME NEW l \in Loop, BrokerStep(l) PROVE UnfinishedInv' /\ CompletionStands
    BY <1>6, <1>still, <1>rows, <1>calm DEF BrokerStep, Deliver, workerVars, processorVars
  <1>7. ASSUME NEW w \in Worker, WorkerRunStep(w) \/ WorkerDisruption(w)
        PROVE  UnfinishedInv' /\ CompletionStands
    <2>1. UNCHANGED storageVars
      BY <1>7 DEF WorkerRunStep, WorkerDisruption
    <2>2. ASSUME NEW k \in Loop
          PROVE  Busy(k)' => Busy(k) /\ cur'[k] = cur[k]
      <3>1. CASE CloseConn(w) \/ LoseConn(w) \/ Terminate(w)
        BY <1>7, <1>types, <3>1
          DEF WorkerRunStep, RunStep, WorkerDisruption, CloseConn, Restart, LoseConn, Terminate, Crash,
            Busy, Live, Loop, processorVars
      <3>2. CASE Restart(w) \/ Crash(w)
        BY <1>7, <1>types, <3>2
          DEF WorkerRunStep, RunStep, WorkerDisruption, CloseConn, Restart, LoseConn, Terminate, Crash,
            Busy, Live, Loop, LoopsOf, processorVars
      <3>3. QED
        BY <1>7, <3>1, <3>2 DEF WorkerRunStep, RunStep, WorkerDisruption
    <2>3. QED
      BY <1>still, <1>rows, <2>1, <2>2
  <1>8. QED
    BY <1>1, <1>2, <1>3, <1>4, <1>5, <1>6, <1>7 DEF SystemNext

\* CompletionFinal: with one worker process and a database that never fails, a live
\* avatar that is completed stays so through redeliveries, retries, shutdowns, crashes
\* and failures of the bucket.  Both hypotheses are needed: the run stale_worker drops
\* the first, the run redelivery the second.
THEOREM CompletionFinal ==
  SingleWorker /\ DatabaseFaults = {} => (SystemSpec => CompletedStaysCompleted)
  <1> SUFFICES ASSUME SingleWorker, DatabaseFaults = {}
               PROVE  SystemSpec => CompletedStaysCompleted
    OBVIOUS
  <1>1. Init => UnfinishedInv
    BY DEF Init, ConsumerInit, ProcessorInit, UnfinishedInv, UnfinishedBooks
  <1>2. SystemInv /\ UnfinishedInv /\ [SystemNext]_vars => UnfinishedInv' /\ CompletionStands
    BY UnfinishedStep
  <1>3. QED
    BY <1>1, <1>2, SystemInvariant, PTL DEF SystemSpec, CompletedStaysCompleted, CompletionStands

=============================================================================
