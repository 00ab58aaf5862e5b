----------------------------- MODULE HttpServer -----------------------------
(***************************************************************************)
(* One server process that serves requests and is shut down while it does  *)
(* (internal/server/httpserver, cmd/server): the handler chain with its    *)
(* validation, the use cases of module Service, the answer, the upload and *)
(* request counters (internal/metrics), the publisher's one connection.    *)
(*                                                                         *)
(* A request is an upload, named by the avatar it is going to create, or a *)
(* deletion.  Downloads change nothing and are in module Api.  How the     *)
(* process came up is in Processes, which the shutdown here refines.       *)
(***************************************************************************)
EXTENDS Service, Topology

CONSTANTS Limit,            \* maxUploadBytes
          Envelope,         \* what a multipart body adds to its file
          FileSize,         \* the sizes of the files clients send
          HandlerMayPanic   \* whether a handler may panic

ASSUME SizeAssumption == Limit \in Nat /\ Envelope \in Nat /\ FileSize \subseteq Nat
ASSUME PanicAssumption == HandlerMayPanic \in BOOLEAN
ASSUME RequestAssumption == AvatarId \cap DeleteRequest = {}
ASSUME FiniteAssumption == IsFiniteSet(AvatarId) /\ IsFiniteSet(DeleteRequest)

Request == AvatarId \cup DeleteRequest

VARIABLES phase,      \* where the process is
          stopping,   \* it got a signal
          expired,    \* the time to finish the requests is over
          conn,       \* the publisher's connection is open
          cut,        \* the connection was lost, not closed
          at,         \* at[r]: where request r is in the handler chain
          size,       \* size[a]: the size of the file that is uploaded
          answer,     \* answer[r]: the status written, or 0
          uploads,    \* avatars_uploads_total by outcome
          requests,   \* http_requests_total by status
          sent        \* the events handed to the broker

lifeVars == <<phase, stopping, expired, conn, cut>>
requestVars == <<at, size, answer>>
counterVars == <<uploads, requests>>
httpVars == <<storageVars, serviceVars, lifeVars, requestVars, counterVars, sent>>

Phase == {"serve", "drain", "close", "exited", "killed"}
Place == {"new", "user", "length", "form", "service", "observe", "over", "panicked", "gone"}
Status == {201, 204, 400, 403, 404, 413, 500}
UploadOutcome == {"ok", "error", "rejected"}

HttpShape ==
  /\ StorageTypeOK /\ ServiceTypeOK
  /\ phase \in Phase
  /\ stopping \in BOOLEAN /\ expired \in BOOLEAN /\ conn \in BOOLEAN /\ cut \in BOOLEAN
  /\ at \in [Request -> Place]
  /\ size \in [AvatarId -> FileSize \cup {0}]
  /\ answer \in [Request -> Status \cup {0}]
  /\ uploads \in [UploadOutcome -> Nat]
  /\ requests \in [Status -> Nat]
  /\ sent \subseteq Event

HttpTypeOK ==
  /\ HttpShape
  /\ uploads \in [UploadOutcome -> 0 .. Cardinality(AvatarId)]
  /\ requests \in [Status -> 0 .. Cardinality(Request)]

HttpInit ==
  /\ StorageInit /\ ServiceInit
  /\ phase = "serve" /\ stopping = FALSE /\ expired = FALSE /\ conn = TRUE /\ cut = FALSE
  /\ at = [r \in Request |-> "new"]
  /\ size = [a \in AvatarId |-> 0]
  /\ answer = [r \in Request |-> 0]
  /\ uploads = [o \in UploadOutcome |-> 0]
  /\ requests = [s \in Status |-> 0]
  /\ sent = {}

Running == phase \in {"serve", "drain", "close"}
InFlight == {r \in Request : at[r] \notin {"new", "over", "panicked", "gone"}}

-----------------------------------------------------------------------------
(* The handler chain *)

Moves(r, from, to) == at[r] = from /\ at' = [at EXCEPT ![r] = to]

\* Faulty Receive: keep-alive connections are served during the shutdown.
ReceiveToTheEnd(r) ==
  /\ Running /\ Moves(r, "new", "user")
  /\ UNCHANGED <<storageVars, serviceVars, lifeVars, size, answer, counterVars, sent>>

\* A connection is accepted for the request; only a server that listens does.
Receive(r) ==
  /\ phase = "serve" /\ Moves(r, "new", "user")
  /\ UNCHANGED <<storageVars, serviceVars, lifeVars, size, answer, counterVars, sent>>

\* Faulty CountUpload: the handler counts by itself what the deferred call counts.
CountUploadTwice(r, o) ==
  uploads' = IF r \in AvatarId THEN [uploads EXCEPT ![o] = @ + 2] ELSE uploads

\* The deferred ObserveUpload of the upload handler.
CountUpload(r, o) ==
  uploads' = IF r \in AvatarId THEN [uploads EXCEPT ![o] = @ + 1] ELSE uploads

\* The handler writes its answer and returns to the middleware.
Reply(r, from, code, o) ==
  /\ Moves(r, from, "observe")
  /\ answer' = [answer EXCEPT ![r] = code]
  /\ CountUpload(r, o)
  /\ UNCHANGED <<storageVars, serviceVars, lifeVars, requests, sent>>

Proceed(r, from, to) ==
  /\ Moves(r, from, to)
  /\ UNCHANGED <<storageVars, serviceVars, lifeVars, answer, counterVars, sent>>

\* requireUserID: a header that is missing or too long for its column.
RequireUser(r) ==
  /\ \/ Proceed(r, "user", IF r \in AvatarId THEN "length" ELSE "service")
     \/ Reply(r, "user", 400, "rejected")
  /\ UNCHANGED size

\* The limit applies to the body, not to the file in it.
TooLarge(a) == size[a] + Envelope > Limit

\* A client may declare the length of the body, and then it is checked first.
CheckLength(a) ==
  \E s \in FileSize, declared \in BOOLEAN :
    /\ size' = [size EXCEPT ![a] = s]
    /\ IF declared /\ TooLarge(a)' THEN Reply(a, "length", 413, "rejected")
                                   ELSE Proceed(a, "length", "form")

\* Faulty ReadForm: no MaxBytesReader, the declared length is trusted.
ReadFormToTheEnd(a) ==
  /\ \/ Reply(a, "form", 400, "rejected")
     \/ Proceed(a, "form", "service")
  /\ UNCHANGED size

\* formFile and ReadAll: a body that breaks off or is no form is a bad request
\* whatever its size; a form that is read to its end is too large, or has
\* neither a "file" nor an "image", or is accepted.  It takes as long as the
\* client likes.
ReadForm(a) ==
  /\ \/ Reply(a, "form", 400, "rejected")
     \/ TooLarge(a) /\ Reply(a, "form", 413, "rejected")
     \/ ~TooLarge(a) /\ Proceed(a, "form", "service")
  /\ UNCHANGED size

-----------------------------------------------------------------------------
(* The use cases *)

\* Faulty Send: a publisher that waits for a connection.
SendWaits(m) == conn /\ sent' = sent \cup {m}

\* Publisher.publish: without a connection the event is lost and the error logged.
Send(m) == sent' = IF conn THEN sent \cup {m} ELSE sent

ServeUpload(a) ==
  /\ at[a] = "service"
  /\ \/ (UploadCreate(a) \/ UploadPut(a) \/ UploadMarkFailed(a) \/ UploadMarkUploaded(a))
          /\ UNCHANGED sent
     \/ UploadPublish(a) /\ Send(UploadEvent(a))
  /\ UNCHANGED <<lifeVars, requestVars, counterVars>>

ServeDelete(d) ==
  /\ at[d] = "service"
  /\ \/ (\/ DeleteLatestForeign(d) \/ DeleteLatestRead(d) \/ DeleteHide(d)
         \/ \E a \in AvatarId : DeleteRead(d, a)) /\ UNCHANGED sent
     \/ DeletePublish(d) /\ Send(DeleteEvent(target[d], delKeys[d]))
  /\ UNCHANGED <<lifeVars, requestVars, counterVars>>

\* Faulty AnswerUpload: the outcome is set before the use case runs.
AnswerUploadCountedEarly(a) ==
  /\ \/ upload[a] = "created" /\ Reply(a, "service", 201, "ok")
     \/ upload[a] = "error" /\ Reply(a, "service", 500, "ok")
  /\ UNCHANGED size

\* Faulty AnswerUpload: an error of the use case is logged only.
AnswerUploadAnyway(a) ==
  /\ upload[a] \in {"created", "error"} /\ Reply(a, "service", 201, "ok")
  /\ UNCHANGED size

AnswerUpload(a) ==
  /\ \/ upload[a] = "created" /\ Reply(a, "service", 201, "ok")
     \/ upload[a] = "error" /\ Reply(a, "service", 500, "error")
  /\ UNCHANGED size

\* Faulty DeleteStatus: every error but ErrNotOwner reads as not found.
DeleteStatusMissing(label) ==
  CASE label = "deleted"  -> 204 [] label = "forbidden" -> 403 [] OTHER -> 404

\* 204, or what serviceError makes of the error.
DeleteStatus(label) ==
  CASE label = "deleted"  -> 204 [] label = "forbidden" -> 403
    [] label = "notFound" -> 404 [] OTHER               -> 500

AnswerDelete(d) ==
  /\ del[d] \in {"deleted"} \cup Refusal
  /\ Reply(d, "service", DeleteStatus(del[d]), "ok")
  /\ UNCHANGED size

\* The observability middleware, after the handler has returned.
ObserveRequest(r) ==
  /\ Moves(r, "observe", "over")
  /\ requests' = [requests EXCEPT ![answer[r]] = @ + 1]
  /\ UNCHANGED <<storageVars, serviceVars, lifeVars, size, answer, uploads, sent>>

\* What becomes of the use cases of the requests in R when they break off.
Abandon(R) ==
  /\ upload' = [a \in AvatarId |-> IF a \in R /\ UploadInFlight(a) THEN "crashed" ELSE upload[a]]
  /\ uploadCtx' = [a \in AvatarId |-> a \in R \/ uploadCtx[a]]
  /\ del' = [d \in DeleteRequest |->
               IF d \in R /\ del[d] \in {"hide", "publish"} THEN "crashed" ELSE del[d]]
  /\ delCtx' = [d \in DeleteRequest |-> d \in R \/ delCtx[d]]
  /\ delKeys' = [d \in DeleteRequest |-> IF d \in R THEN {} ELSE delKeys[d]]
  /\ UNCHANGED <<storageVars, target>>

\* A panic before the answer: the deferred ObserveUpload still counts, with the
\* default label; the recovery middleware answers; the observability middleware,
\* which it unwinds, counts nothing.
Panic(r) ==
  /\ HandlerMayPanic /\ at[r] \in {"user", "length", "form", "service"}
  /\ at' = [at EXCEPT ![r] = "panicked"]
  /\ answer' = [answer EXCEPT ![r] = 500]
  /\ CountUpload(r, "rejected")
  /\ Abandon({r})
  /\ UNCHANGED <<lifeVars, size, requests, sent>>

-----------------------------------------------------------------------------
(* The process *)

Goes(from, to) ==
  /\ phase = from /\ phase' = to
  /\ UNCHANGED <<storageVars, serviceVars, stopping, expired, conn, cut,
                 requestVars, counterVars, sent>>

\* Shutdown closes the listener first.
StopListening == stopping /\ Goes("serve", "drain")

ShutdownTimeout ==
  /\ phase = "drain" /\ ~expired /\ expired' = TRUE
  /\ UNCHANGED <<storageVars, serviceVars, phase, stopping, conn, cut,
                 requestVars, counterVars, sent>>

\* Faulty Drained: run returns when ListenAndServe does.
DrainedAtOnce == Goes("drain", "close")

\* Faulty Drained: Shutdown under a context without a deadline.
DrainedInTheEnd == InFlight = {} /\ Goes("drain", "close")

Drained == (InFlight = {} \/ expired) /\ Goes("drain", "close")

\* The deferred closes of run.  The pool is closed as well: a refused call of a
\* request that is still there.
ClosePublisher ==
  /\ phase = "close" /\ conn /\ conn' = FALSE
  /\ UNCHANGED <<storageVars, serviceVars, phase, stopping, expired, cut,
                 requestVars, counterVars, sent>>

\* The process ends, and with it every request it still works on.
Ends(last) ==
  /\ phase' = last /\ conn' = FALSE
  /\ at' = [r \in Request |-> IF r \in InFlight THEN "gone" ELSE at[r]]
  /\ Abandon(InFlight)
  /\ UNCHANGED <<stopping, expired, cut, size, answer, counterVars, sent>>

Exit == phase = "close" /\ ~conn /\ Ends("exited")

Kill == Running /\ Ends("killed")

Signal ==
  /\ Running /\ ~stopping /\ stopping' = TRUE
  /\ UNCHANGED <<storageVars, serviceVars, phase, expired, conn, cut,
                 requestVars, counterVars, sent>>

\* The publisher never gets it back.
LoseConnection ==
  /\ conn /\ conn' = FALSE /\ cut' = TRUE
  /\ UNCHANGED <<storageVars, serviceVars, phase, stopping, expired,
                 requestVars, counterVars, sent>>

ShutdownStep == StopListening \/ ShutdownTimeout \/ Drained \/ ClosePublisher \/ Exit

\* What the server does for a request once its client has sent it all.
RequestStep(r) ==
  \/ RequireUser(r) \/ ObserveRequest(r)
  \/ r \in AvatarId /\ (CheckLength(r) \/ ServeUpload(r) \/ AnswerUpload(r))
  \/ r \in DeleteRequest /\ (ServeDelete(r) \/ AnswerDelete(r))

HttpNext ==
  \/ \E r \in Request : Receive(r) \/ RequestStep(r) \/ Panic(r)
  \/ \E a \in AvatarId : ReadForm(a)
  \/ ShutdownStep \/ Kill \/ Signal \/ LoseConnection

HttpSpec == HttpInit /\ [][HttpNext]_httpVars

\* Goroutines run and remote calls return; a client need not send its body to
\* the end, as the server sets no timeout but that of the headers.
HttpFairness == WF_httpVars(ShutdownStep) /\ \A r \in Request : WF_httpVars(RequestStep(r))

FairHttpSpec == HttpSpec /\ HttpFairness

-----------------------------------------------------------------------------
(* Properties *)

\* EventsOnlyLostLate: a success answered by a process that is shut down goes
\* with its event, whatever the order of signal, shutdown and last requests,
\* unless the connection was lost or the request outlived its time.
EventsOnlyLostLate ==
  cut \/ expired
    \/ /\ \A a \in AvatarId : upload[a] = "created" => UploadEvent(a) \in sent
       /\ \A d \in DeleteRequest : del[d] = "deleted" =>
            \E m \in sent : m.kind = "delete" /\ m.avatar = target[d]

\* LimitHolds: however a client declares or hides the length of its body, a body
\* above the limit leaves no row, and only such a body is answered 413.
LimitHolds ==
  \A a \in AvatarId : (Exists(a) => ~TooLarge(a)) /\ (answer[a] = 413 => TooLarge(a))

\* DenialsTruthful: a client error means that nothing was done: an upload so
\* answered has no row and no object, and a hidden avatar was hidden by a request
\* that was not told 400, 403 or 404, whatever calls failed after taking effect
\* and whichever other deletion came first.
DenialsTruthful ==
  /\ \A a \in AvatarId : answer[a] \in {400, 413} => ~Exists(a) /\ object[a] = {}
  /\ \A a \in AvatarId : row[a].stage = "deleted" =>
       \E d \in DeleteRequest : target[d] = a /\ answer[d] \notin {400, 403, 404}

\* SuccessTruthful: 201 means a stored original under a row that says so, hidden
\* or not (removing the objects is the worker's); 204 means a hidden row.
SuccessTruthful ==
  /\ \A a \in AvatarId : answer[a] = 201 =>
       row[a].upload = "uploaded" /\ OriginalKey \in object[a]
  /\ \A d \in DeleteRequest : answer[d] = 204 => row[target[d]].stage = "deleted"

Answered(S) == {a \in AvatarId : answer[a] \in S /\ at[a] # "panicked"}
Created == Answered({201})
Failed == Answered({500})
Rejected == Answered({400, 413}) \cup {a \in AvatarId : at[a] = "panicked"}
Left == [s \in Status |-> {r \in Request : at[r] = "over" /\ answer[r] = s}]

\* CountersAddUp: the dashboards tell the truth at every moment: each upload is
\* counted once, by what it was answered, and each request that left the chain
\* by its status.  A panic is the exception: its 500 is counted as "rejected"
\* and in no request counter.
CountersAddUp ==
  /\ uploads["ok"] = Cardinality(Created)
  /\ uploads["error"] = Cardinality(Failed)
  /\ uploads["rejected"] = Cardinality(Rejected)
  /\ \A s \in Status : requests[s] = Cardinality(Left[s])

\* When the publisher has no connection, and who is left when it is closed.
LifeBooks ==
  /\ conn \/ cut \/ phase \in {"close", "exited", "killed"}
  /\ cut => ~conn
  /\ phase = "close" => InFlight = {} \/ expired
  /\ phase \in {"exited", "killed"} => InFlight = {} /\ ~conn

\* A request is answered when it leaves its handler.
AnswerBooks(r) ==
  /\ at[r] \in {"new", "user", "length", "form", "service"} => answer[r] = 0
  /\ at[r] \in {"observe", "over", "panicked"} => answer[r] # 0

\* What was done for an upload, by its place and by its answer.
UploadServed(a) ==
  /\ at[a] \in {"new", "user", "length", "form"} => upload[a] = "none"
  /\ at[a] = "service" \/ upload[a] # "none" => ~TooLarge(a)
  /\ upload[a] = "none" => ~Exists(a) /\ object[a] = {}
  /\ UploadInFlight(a) \/ upload[a] = "created" => Exists(a)
  /\ upload[a] \in {"markUploaded", "publish", "created"} => OriginalKey \in object[a]
  /\ upload[a] \in {"publish", "created"} => row[a].upload = "uploaded"
  /\ answer[a] = 413 => TooLarge(a)
  /\ answer[a] \in {400, 413} => upload[a] = "none"
  /\ answer[a] = 201 => upload[a] = "created"

\* The same of a deletion.
DeletionServed(d) ==
  /\ at[d] \in {"new", "user"} => del[d] = "none"
  /\ del[d] \in {"hide", "publish", "deleted"} => target[d] \in AvatarId
  /\ del[d] \in {"publish", "deleted"} => row[target[d]].stage = "deleted"
  /\ answer[d] = 400 => del[d] = "none"
  /\ answer[d] \in {403, 404} => del[d] \in {"forbidden", "notFound"}
  /\ answer[d] = 204 => del[d] = "deleted"

\* Who hid a row got past SoftDelete, with or without knowing.
HiddenBooks ==
  \A a \in AvatarId : row[a].stage = "deleted" =>
    \E d \in DeleteRequest :
      target[d] = a /\ del[d] \in {"publish", "deleted", "failed", "crashed"}

\* The inductive invariant.
HttpInv ==
  /\ HttpShape /\ LifeBooks
  /\ \A r \in Request : AnswerBooks(r)
  /\ \A a \in AvatarId : UploadServed(a)
  /\ \A d \in DeleteRequest : DeletionServed(d)
  /\ HiddenBooks /\ EventsOnlyLostLate /\ CountersAddUp

\* ServesAsProcess: to module Processes the server with its real requests is a
\* process that counts requests: every step is one of Processes or unseen there.
P == INSTANCE Processes WITH
  Server <- {"server"}, Worker <- {}, AutoMigrate <- {}, MigrateOnly <- {},
  MaxActive <- Cardinality(Request), MaxOutages <- 1, MaxDisruptions <- 2,
  up <- {"db", "s3", "broker"}, schema <- "current", bucket <- TRUE, declared <- Declaration,
  pc <- [p \in {"server"} |-> IF Running THEN phase ELSE "down"],
  declares <- [p \in {"server"} |-> IF Running THEN Len(Declarations) ELSE 0],
  conn <- [p \in {"server"} |-> conn],
  stopping <- [p \in {"server"} |-> Running /\ stopping],
  active <- [p \in {"server"} |-> Cardinality(InFlight)],
  expired <- [p \in {"server"} |-> Running /\ expired],
  probe <- [p \in {"server"} |-> "db"], healthy <- [p \in {"server"} |-> TRUE],
  ready <- [p \in {"server"} |-> FALSE],
  outages <- IF cut THEN 1 ELSE 0,
  disruptions <- (IF stopping THEN 1 ELSE 0) + (IF phase = "killed" THEN 1 ELSE 0)

ServesAsProcess == [][P!ProcessNext]_(P!vars)

\* RequestsEnd: a use case that has begun ends, with or without a connection to
\* the broker, in a process that serves or is being shut down: there are finitely
\* many requests here, so at last none is under way.
RequestsEnd == <>[](\A r \in Request : at[r] \notin {"service", "observe"})

\* ShutdownEnds: a signal ends the process, although clients may hold back the
\* rest of their bodies for ever (a signal, once there, is never withdrawn).
ShutdownEnds == <>[](stopping => ~Running)

=============================================================================
