# GophProfile: formal verification

TLA+ models of GophProfile, an avatar service: a REST server stores originals
in S3 and records in PostgreSQL and publishes events to RabbitMQ; a worker
builds thumbnails and cleans up after deletions. The handler chain with its
validation and counters, readers, startup, probes and shutdown of the processes
are modelled as well. TLC checks the models on small
instances, TLAPS proves the main safety properties for every instance.
`PROJECT.json` lists the components, the runs, the source lines of every
definition, the hazards and the theorems.

Run from this directory: `tlc -config MC_Consumer_delivery.cfg MC_Consumer`,
`tlapm GophProfile_proofs.tla`.

## 1. Inventory of the system

| Component | State | Operations | Correct when |
|---|---|---|---|
| Domain model, `internal/avatar` | none | statuses, `OriginalKey`, `ThumbnailKey`, events | - |
| Repository, `internal/storage/postgres`, `migrations` | the `avatars` table | `Create`, `GetByID`, `LatestByUser`, `ListByUser`, `SetUploadStatus`, `SetProcessingStatus`, `SetThumbnails`, `SoftDelete` | a deleted row never becomes visible again; a record names only objects that exist |
| File store, `internal/storage/s3` | the bucket | `Put`, `Get`, `Delete`, `EnsureBucket`, `Ping` | what a live record names is there; what was deleted is gone |
| Service, `internal/server/service` | per request: which call is next, captured keys | `Upload`, `Delete`, `DeleteLatest`, readers | only the owner deletes; one deletion wins; failures leave a truthful record |
| HTTP API, `internal/server/httpserver` | per request: its place in the handler chain, the answer; the links clients hold | 8 API routes, pages, probes | an answer tells what was done; a body above the limit leaves nothing; a link stays good until the deletion; a ready server can serve |
| Counters of the server, `internal/metrics` | uploads by outcome, requests by status | `ObserveUpload`, `ObserveRequest` | they agree with the answers |
| Publisher and topology, `internal/broker` | one connection | `PublishUpload`, `PublishDelete`, `Declare`, `Ping` | events reach the right queue; rejected ones the dead queue |
| Consumer, `internal/broker/consumer.go` | two loops per process, one connection, one shared context | `Run`, `loop`, `process`, `withRetry` | no message lost or buried by a shutdown; the process never runs half dead |
| Processor, `internal/worker/processor` | per delivery: which call is next | `HandleUpload`, `HandleDelete`, `UploadFailed` | repeated deliveries do no harm; every upload settles |
| Worker and server processes, `cmd/*` | contexts, errgroups, requests in flight; shared: schema, bucket, topology | start, migrate, shutdown, crash, restart | any order of starting works; what serves is prepared; shutdown lets requests finish |
| Thumbnails, other metrics, logging, telemetry, config, web pages, deployment | none of the avatars' state | - | - |

**Interactions.** A request of the server calls the repository, the store and
the publisher in turn, under a context that ends when the client goes away. The
worker's two loops (upload and delete queue) run at the same time and share a
connection and a context; both write the rows and objects the requests write.
Nothing ties the three stores together: there is no transaction across them, no
outbox and no publisher confirm. Servers and workers start in any order against
a schema, a bucket and a topology that each of them may be the first to need:
migrations run under the lock of golang-migrate, the bucket is created by check,
create and check again, the topology by declarations that may be repeated.
Clients hold links from earlier answers and follow them at any time; a download
reads the row first and opens the object afterwards.

**What is hard.** Requests and handlers of the same avatar interleave at every
remote call. Calls fail, or succeed and report an error. Messages are delivered
again after a lost connection while the first worker still handles them.
Processes die between two calls. Shutdown, retry and dead-lettering race, and so
do a server's shutdown, its deadline and the requests it still serves. A body may
hide its length or stop arriving; a handler may panic under two middlewares. The
`hazards` of `PROJECT.json` name each of these at its line.

## 2. Modules

```
Avatar        statuses, keys, events                       internal/avatar
  Storage     the table and the bucket                     internal/storage/*
    Service   Upload, Delete, DeleteLatest                 internal/server/service
    Processor the worker's handlers  (with Consumer)       internal/worker/processor
Consumer      the loops, RabbitMQ, the worker process      internal/broker/consumer.go, cmd/worker
GophProfile   Service + Processor + Consumer               the whole system
  Api         clients that read and follow links           internal/server/httpserver, service
Topology      exchanges, queues, bindings                  internal/broker/topology.go
  Processes   startup, /health, shutdown                   cmd/*, internal/broker, internal/storage
  HttpServer  Service behind the handler chain             internal/server/httpserver, cmd/server
Delivery      what the consumer promises about a message   (abstract)
AvatarPromise what a client may rely on                    (abstract)
Consumer_proofs, GophProfile_proofs, Promise_proofs, Settling_proofs,
Recording_proofs, Api_proofs, Processes_proofs, HttpServer_proofs   theorems
MC_Consumer, MC_GophProfile, MC_Api, MC_Processes, MC_HttpServer   values for TLC
```

**Avatar.** An avatar's identity stands for its row and its keys: keys are
relative to their avatar, `"original"` or a thumbnail size. `UploadEvent(a)` and
`DeleteEvent(a, K)` are the two events. `Decodable` is the set of avatars whose
original is an image.

**Storage.** `row[a]` holds the columns the control flow reads (`deleted_at` as
`stage`, the two statuses, the thumbnail keys, `created_at`), `object[a]` the
variants in the bucket. Every call is one step with an outcome: `ok`, `refused`
(an error, nothing changed) or `lostReply` (an error, the change is made). The
updates have the `WHERE` clauses of the SQL: the status writes match deleted
rows too, `SoftDelete` does not. `created_at` may be equal for two inserts and
`LatestByUser` then returns either.

**Service.** `upload[a]` and `del[d]` are the program counters of the requests,
one action per remote call. `Call` says how a call may end: under a live context
with any configured fault; interrupted (the client goes away), with or without
effect; under a context that is over, refused. A context is tracked only while a
call under it is still to come. The keys of a delete event are captured when the
row is read, before `SoftDelete`, as in `deleteAvatar`. `DeleteLatest` for
somebody else's path answers 403 before it touches a store
(`DeleteLatestForeign`).

**Consumer.** One program counter per worker and queue: `select`, `handle`,
`backoff`, `failed`, `callback`, `ack`, `nack`, `done`. `buffer[l]` are the
deliveries in the Go channel, `cur[l]` the one in `process`. The broker's side is
`ready`, `dead` and the unacknowledged deliveries of a connection that is up; a
connection that ends returns them to `ready`, and Acks and Nacks sent afterwards
change nothing at the broker. A worker whose connection is gone goes on with
`cur[l]` and may take what is left in its channel: the code notices a lost
connection only in `select`, where closed channel and pending deliveries compete.
The errgroup is `ctx[w]`: `Terminate` (a signal, a failing metrics listener) and
`LoseChannel` (a loop's error) cancel it, `CloseConn` is Run's third goroutine.
When all loops are done the process exits and `Restart` brings it back. The order
of a queue is abstracted to a set.

**Processor.** While a loop is in `handle`, `step[l]` is the handler's next call
and `todo[l]` the sizes or keys left. A call under a canceled context is refused.
The thumbnails come in any order (the code's fixed order is one of them), a
delete event's keys with the original first, as the code builds the list.
`Finish`, `Succeed` and `Fail` return to `withRetry`; a retry starts the handler
from its first call.

**GophProfile.** Joins a request's publishing step with the broker (`Publish`:
the event is enqueued, or lost when `PublishMayFail`), a handler's calls with
the consumer's steps, and a crash of the worker with the handlers it ends. A
message is identified by its event and may be enqueued once: an upload publishes
once per avatar, and that a second delete event of an avatar never comes up is
`OneDeletion`, which is proved.

**Api.** A reader learns links (`known`: the original's from a 201, thumbnails'
from metadata and lists) and downloads: `GetFile`, `LatestFile` and
`ThumbnailFile` read the row, `OpenObject` opens the object later (`opening` is
the read in between). `missed` are the known links that were answered 404. A
thumbnail's size that is not recorded is a 404, a bucket that fails a 500.

**Processes.** `pc[p]` is where a server or worker is: `migrate`, `apply`,
`pingDB`, `checkBucket`, `makeBucket`, `recheckBucket`, `dial`, `declare` (the
nine declarations one by one), `listen`, then `serve`, `drain`, `close` for a
server and `consume` for a worker. `down` is started again, `done` is a finished
migration job. What they share is `up`, `schema`, `bucket` and `declared`. An
outage of the broker ends the connections, one of the database the migration
that runs; a single connection may be lost as well. `/health` of a serving
process is three steps (`CheckDB`, `CheckS3`, `CheckBroker`) whose answer is
`ready[p]`. The lock and the dirty mark of golang-migrate are external and
modelled by how `Migrate` uses them. A request is a counter here: what it does
is in GophProfile, where a process that exits over an active request is
`UploadCrash` or `DeleteCrash` and a lost publisher is `PublishMayFail`, and in
HttpServer, where it is lost for a reason. The declarations themselves are in
module Topology, which both share.

**HttpServer.** One server process that is up. `at[r]` is where a request is in
the chain: `new`, `user` (the header), `length` and `form` (an upload's declared
length, then its body), `service` (the use case, call by call, with the actions
of Service), `observe` (the handler has returned, the middleware has yet to
count), `over`; `panicked` and `gone` for what broke off. A file's size is a
number, `Envelope` is what the multipart body adds to it, and `TooLarge` compares
the sum with `Limit`, as the code does: `CheckLength` when a length is declared,
`ReadForm` always. A body that breaks off is a 400 whatever its size, because
the limit is noticed while it is read. `Reply` writes the answer and runs the
deferred `ObserveUpload`; `ObserveRequest` counts by status; `Panic` unwinds both
as the two middlewares are nested. `conn` is the publisher's one connection,
`sent` what it has handed over: `Send` without a connection loses the event and
the request goes on. The process is `phase` (`serve`, `drain`, `close`, `exited`,
`killed`) with `stopping` and `expired`; what it ends over is `gone` and its use
case `crashed` (`Abandon`). `ServesAsProcess` is a refinement: with the requests
in flight counted, every step is one of Processes or unseen there, so what
Processes shows of shutdowns holds for requests that do real work.

**Delivery** and **AvatarPromise** are the abstract specifications. Delivery: a
message is sent, possibly handled several times, acknowledged only after a
handler succeeded, and finally acknowledged or buried. AvatarPromise: an avatar
appears, its original becomes downloadable, then all thumbnails at once; nothing
is withdrawn before the deletion and a deleted avatar never returns. They appear
as `AtLeastOnce` and `ClientPromise` through `INSTANCE ... WITH`; the client's
view of `ClientPromise` is what `GetFile` and `ThumbnailFile` can return.

Definitions whose comment begins with "Faulty" (`BuryUnrouted`,
`StoreThumbnailUnchecked`, ...) are deliberate mistakes, used to confirm that
each property notices the mistake it is meant to notice. No specification uses them.

## 3. What TLC checks

Passing runs:

| Run | Question | Instance | States |
|---|---|---|---|
| Consumer_delivery | Is a message ever lost, held twice, or buried by a shutdown; does the consumer implement Delivery; does the worker always come back? | 1 worker with both loops, 3 messages, prefetch 2, 1 retry, 2 disruptions | 58k |
| HttpServer_requests | Do answers, counters and events tell the truth in a server that is stopped, killed, cut off or panics at any moment? | 1 upload, 2 deletions by the owner and a stranger, refused and lost-reply database calls, refused bucket calls | 849k |
| GophProfile_faults | Do record, bucket and client's view stay consistent under every fault, and does an acknowledged deletion remove the original? | 1 avatar, 2 sizes, 1 deletion, 1 worker, 1 retry, 2 disruptions, all faults, cancellation, crashes | 414k |
| GophProfile_deletions | Does one deletion win, and only the owner's? What moves a user's latest avatar? | 2 avatars, 3 deletions by 2 users, by id and as the latest, lost replies | 1.6M |
| Api_reads | Does a cut-off worker, or a deletion between row and object, break a link a client holds, leave an acknowledged upload without its thumbnails on record, or make the broker hold a message twice? | 2 workers, 1 reader, 1 avatar, 1 size, 1 deletion, refused bucket calls, 1 disruption | 1.9M |
| GophProfile_liveness | Do uploads settle for good, and do captured objects go for good? | 1 avatar, 1 deletion, 1 worker, refused calls, 1 retry, 2 disruptions | 123k |
| Processes_lifecycle | Do processes come up in any order, serve only when prepared, tell the truth on `/health`, and stop gracefully? | 1 server that migrates, 1 migration job, 1 worker, 1 request, 2 outages, 1 disruption | 444k |

Runs that show a statement of the documentation broken by the code:

| Run | Statement | What happens |
|---|---|---|
| stale_worker | `README.md:15`, a repeated delivery breaks nothing | Worker 1 has read `pending` when its connection is lost; worker 2 completes the avatar and acks; worker 1 writes `processing`. The avatar stays `processing` for ever. |
| redelivery | the same | The ack of a completed avatar is lost, the redelivery fails on `GetByID` until the retries are used up, and `UploadFailed` turns `completed` into `failed`. |
| orphan_race | `README.md:16`, the worker removes the objects | `HandleDelete` runs while `HandleUpload` of the same avatar is about to `Put` a thumbnail; the thumbnail stays in the bucket for ever. |
| orphan_thumbnail | `service.go:198-199` | A handler stores one thumbnail and fails for good; no record names it and no deletion removes it. |
| canceled_upload | `service.go:84-86`, a failed write leaves a failed row | The client goes away during `Put`; the compensation uses the same context, is refused, and the row stays `uploading`. |

How far each of them reaches is proved (section 4, "The boundaries of the findings").

Two relatives of these are visible in the models and have no run of their own:
the original of an avatar deleted before its upload reaches `Put`
(`service.go:123`) is stored after the cleanup; and `UploadFailed` tries its
write once, so an avatar whose event is dead need not be `failed`.

Processes_lifecycle shows two facts worth knowing that no document denies. The
publisher never reconnects, so after a broker outage every server that was up
answers 503 on `/health` for good (`LostConnectionShows`); the liveness probe
asks `/live` only (`deploy/helm/gophprofile/templates/server-deployment.yaml:44-59`),
so nothing restarts it. And a process killed while it migrates leaves the schema
dirty: nobody that migrates starts again until it is repaired by hand
(`EveryoneComesUp` has to allow for it).

**Bounds.** `MaxDisruptions` (signals, lost connections, crashes), `MaxRetries`
(the code has 3; the control is the same from 1 on, and 0 makes the single
attempt the last), `Prefetch`, the numbers of avatars, sizes, requests and
workers. Two workers and two disruptions are enough for the interesting cases: a
message redelivered while its first handler runs, a shutdown during a backoff,
a second fault during the recovery from the first. One avatar is enough where
avatars share nothing but the queues; `deletions` has two because of
`DeleteLatest`. `AckedUploadsSettled` is checked with one worker only: with two
it is false (stale_worker). In Processes, `MaxActive` bounds a server's requests
(one is enough for a shutdown to wait for), `MaxOutages` the failing
dependencies and connections, `MaxDisruptions` signals and kills; two outages
allow for a second one during the recovery from the first. Two processes that
migrate and make the same bucket, and a third that declares the same topology,
show every race of the startup. In HttpServer the files have sizes 2 and 3 with a
limit of 3 and an envelope of 1: the largest body that is accepted and the
smallest that is not, and a file that is within the limit only without its
envelope. Two deletions of one avatar race; a third request of another kind
shares nothing with them. `Cardinality(Request)` bounds every counter. Alice's
two avatars and two deletions in `deletions` are interchangeable, which
`AliceSymmetry` uses; only invariants and an action property that treat them alike
are checked there. What two workers add to
the consumer (a message given to both) is checked in Api_reads, with the whole
system around it. `CHECK_DEADLOCK FALSE`: a system whose requests are
all answered and whose queues are empty has nothing to do.

**Fairness.** Weak fairness of each loop, of the broker's delivery to each loop,
of the process's housekeeping (`CloseConn`, `Restart`) and of each request that
has started. Goroutines are scheduled; remote calls return (with an error at
worst); the broker delivers to a consumer with prefetch left; the deployment
restarts a worker that exits (`docker-compose.yml:174`,
`deploy/helm/gophprofile/templates/worker-deployment.yaml:44`). No client has to
come, no fault has to happen, and no choice among outcomes is fair: a call may
fail every time, which the retry bound turns into a dead letter. Disruptions are
finite by the bound.

In Processes, weak fairness of each process's own steps (its startup and
shutdown are sequential code, and the deployment starts it again), of the probes
(`server-deployment.yaml` and `docker-compose.yml:165` run them periodically) and of the
end of an outage. Requests need not end, as the server has no write timeout; the
deadline of `Shutdown` makes the exit come nevertheless.

In HttpServer, weak fairness of what the server does for each request once it has
read it, and of the shutdown's steps. `ReadForm` is not fair: the body comes when
the client sends it, and no timeout covers it (`server.go:43` limits the headers
only). `RequestsEnd` therefore speaks of requests past their body. Both liveness
properties have the form `<>[]`: requests are finitely many here and a signal is
never withdrawn, so this is what "leads to" comes to.

## 4. What is proved

All theorems hold for every value of the constants under the assumptions stated
beside them in the modules: any avatars, users, sizes, requests, workers, retry
bound and prefetch, any combination of faults, cancellations and crashes. Those with
a hypothesis of their own (one worker, no database faults) state it, and are
collected in the table of boundaries below.

**Consumer_proofs.** `ConsumerInvariant` proves `ConsumerInv` inductive. Besides
the two properties `NothingLost` and `NothingDoubled` it needs:
- `LoopBooks`: a loop holds a message exactly while it is in `process`, and under
  a live context `failures` counts every attempt made. Without it nothing says
  that the loop in `nack` used all its attempts, or that `Release` drops only a
  message just settled.
- `Issued`: what circulates was published and travels in its own queue. Without
  it a fresh message might already be somewhere.

From it: `ConsumerTypes`, `NoMessageLost`, `NoMessageDoubled`, and, because only
`Bury` adds to the dead queue, `ShutdownNeverBuries`. `ConsumerDelivers` is a
step simulation: the consumer implements the safety part of Delivery. It needs
that a loop in `ack` holds a message some handler finished (`AckBooks`), and
`NothingDoubled`, so that an Ack or a Nack that reaches the broker finds its
message pending.

**GophProfile_proofs.** `SystemInvariant` proves `SystemInv` inductive:
`ConsumerInv`, the types and
- `UploadBooks`: a request in flight has its row, and its object once `Put` succeeded;
- `DeleteBooks`: past `SoftDelete` the row is deleted, and one request per avatar gets there;
- `EventBooks`: a published event's row exists, a delete event's row is deleted
  and its request answered, and there is one delete event per avatar at most;
- `HandlerBooks`: a handler runs exactly while its loop is in `handle`, works on an
  event of its kind, and the thumbnails it has stored are still there as long as
  the avatar is visible.

The argument: only `HandleDelete` removes objects; it runs on a delete event,
whose row is deleted (`EventBooks`); so no object of a visible avatar ever goes
(`ObjectsStand`), whatever other handlers of the same avatar do, and what a
handler has stored still stands when it records it. Each step is shown in three
parts: its effect on the stores, on the books of its own handler or request, and
on everybody else's (`HandlerBooksKept`, `WorkerStepKeeps`).

From it: `SystemTypes`, `ThumbnailsAdvertisedExist`, `OriginalsStored`,
`DeletionsUnique`; and `SystemDrivesConsumer`: every step of the system is a step
of `Consumer` or leaves it alone, so the consumer's safety theorems hold of the
composed system.

`SystemDelivers` draws the first consequence: the system with its real handlers
implements the safety part of Delivery.

`DeletionsOwned` (`OwnAvatarsOnly`) has an invariant of its own on top, `OwnInv`:
a request that has chosen an avatar chose one of its user's, whichever way it
chose (`OwnBooks`); without it nothing is known of the requests between reading
a row and hiding it.

`LatestMovesForCause` (`LatestChangesForCause`): who is the latest avatar of a
user, or are the latest where `created_at` ties, changes only by an upload that
becomes the latest or by the deletion of one that was. It rests on `ClockBooks` (no
record is newer than the clock) and on `created_at` being written by nobody but the
insert.

`FailedUploadsShow` (`FailedWriteLeavesFailedRow`) is conditional, see below. Its
invariant is that a request's context lives as long as nobody may cancel it.

**Promise_proofs.** `ClientsPromised`: the system implements AvatarPromise. The
order it rests on is `PromiseBooks`: the original is stored before the event is
published, the event is published before any thumbnail is recorded, and
thumbnails are recorded all at once. So a first `SetThumbnails` finds exactly the
original on show and a repeated one changes nothing; a handler's `Put` is unseen
(its size is not recorded, or is there already). Each action moves one avatar
(`OneMoves`) by one step of AvatarPromise or by none (`Progress`).

**Settling_proofs.** `UploadsSettledByOneWorker`: with one worker process
`AckedUploadsSettled` holds. The invariant `SettledInv` says that no loop holds a
copy of what is acknowledged, and that what is about to be acknowledged is
settled. Where `SingleWorker` is used is where two workers fail: when a message
is acknowledged, no other loop may hold it, connected or not. The run
stale_worker shows the other case. `CompletionFinal` (`CompletedStaysCompleted`)
is conditional as well; its invariant `UnfinishedInv` says that whoever may still
write a status, a handler past its check or the callback, works on an avatar that
is not completed.

**Recording_proofs.** What the worker leaves behind, for any number of workers and
any faults unless said otherwise.
- `UploadsRecorded` (`AckedUploadsRecorded`): once its upload event is
  acknowledged, a live image has all its thumbnails on record, and the bucket holds
  nothing that the record does not name. `RecordedInv`: "completed" stands for
  recorded thumbnails, only images have any, what is acknowledged was handled, and
  nobody finishes the upload event of a live image without its thumbnails. The
  last holds for stale workers too, because a handler that skips has seen
  "completed", and one that does not skip records.
- `DeletionsComplete` (`DeletionsRemoveOriginal`): once the deletion of an avatar
  that had thumbnails is acknowledged, the original is gone for good.
  `RemovalInv`: keys with a thumbnail among them show that the upload request is
  over (`Finished`), so nobody stores the original again, and a handler beyond the
  original has removed it (`RemovalBooks`). Without the condition it is false: a
  deletion may overtake the upload's `Put`.
- `DeletionsClean` (`DeletionsLeaveNothing`), conditional, see below. `CleanupInv`:
  keys with a thumbnail among them are all keys there can be, of thumbnails that
  are on record (`Whole`); where they are on record, no handler is between its
  check and its last write (`CleanupBooks`); so nothing is stored while the keys go
  one by one. It builds on `UnfinishedInv` and `RemovalInv`.
- `OnlyFaultsFail` (`OnlyFaultsBury`): where no store call fails and one retry is
  allowed, no message is buried and no image marked failed. `FaultFreeBooks`: a
  handler that failed was an upload's whose original a deletion had removed, and
  its next attempt sees the deleted row. With `MaxRetries = 0` it is false.

**The boundaries of the findings.** The runs of the second table show that a
statement fails; these theorems show how far it holds.

| Run | What holds | Proved for |
|---|---|---|
| stale_worker | `UploadsSettledByOneWorker`: an acknowledged upload is settled | one worker process |
| stale_worker | `UploadsRecorded`: its thumbnails are on record, whatever its status says | every system |
| redelivery, stale_worker | `CompletionFinal`: completed stays completed | one worker process, no database faults |
| orphan_race | `DeletionsClean`: a deletion that captured a thumbnail leaves nothing | one worker process, no database faults |
| orphan_thumbnail | `UploadsRecorded`: after an acknowledged upload the record names every object | every system |
| canceled_upload | `FailedUploadsShow`: a failed write leaves a failed row | clients that wait, no database faults |

The hypotheses are needed: without one of them TLC finds a counterexample, for
the first and the last rows in the runs named. For `DeletionsClean` it is, with
two workers, a cut-off handler that stores after the other worker has completed
the avatar, and with a database that refuses calls, a completed avatar that a
failing redelivery marks failed, so that the next delivery stores once more.
`CompletedStaysCompleted` and `FailedWriteLeavesFailedRow` are the properties of
the runs that break them; `DeletionsLeaveNothing` and `OnlyFaultsBury` are in no
run, since the runs that matter have faults. Their invariants were model-checked
on the instance of GophProfile_faults without the faults in question before they
were proved.

**Api_proofs.** `LinksServed`: in every reachable state a known link that was
answered 404 belongs to a deleted avatar. The invariant `ApiInv` adds to
`SystemInv` that every known link stands (`LinkStands`): its avatar is deleted,
or row and object are there and the row names the size. The argument: no step of
the system takes a thumbnail out of a live row (`SystemStands`), so a link that
stands goes on standing (`LinkKept`), also between the two halves of a download.
`ReadersChangeNothing`: a reader's step is a stuttering step of the system, so
every theorem about `SystemSpec`, `ClientsPromised` among them, holds of `ApiSpec`.

**Processes_proofs.** `ProcessInvariant` proves `ProcessInv` inductive: the types
and `ProcessBooks`, which says that what a process has declared is there, that
its place in the code tells how much that is, and that one process at a time
migrates. From it: `ProcessTypes`, `TopologyStands`, `ServiceIsPrepared`,
`ShutdownWaits`, and `StartupRacesHarmless`: a startup never fails because
somebody else did the same work first. For the last the order of the
declarations matters: a binding comes after its exchange and its queue
(`RequiredFirst`).

**HttpServer_proofs.** `HttpInvariant` proves `HttpInv` inductive, for any finite
set of requests, any limit, envelope and sizes:
- `LifeBooks`: when the publisher's connection is gone, and that nobody in time is
  left when it is closed;
- `AnswerBooks`: a request is answered exactly when it leaves its handler;
- `UploadServed`, `DeletionServed`: what was done by place and by answer. The truth
  of an answer is not inductive by itself: it needs what the use case knew when
  it returned;
- `HiddenBooks`: who hid a row got past `SoftDelete`, with or without knowing.

From it: `HttpTypes`, `LateEventsOnly`, `LimitEnforced`, `DenialsMeanNothingDone`,
`SuccessMeansDone`, and `CountersTellTheTruth`, which counts sets of requests and
therefore assumes that they are finite (`FiniteAssumption`). `ServerIsAProcess`
(`ServesAsProcess`) is a step simulation: each step of the server maps to a step
of module Processes or to none. There a process exits with its requests; here
each of them breaks off.

**Only model-checked.** Liveness: the fairness part of `AtLeastOnce`,
`WorkerRecovers`, `UploadsSettleForGood`, `CapturedKeysGo`, `EveryoneComesUp`,
`ReadyAgain`, `LostConnectionShows`, `RequestsEnd`, `ShutdownEnds`; it is out of
the prover's reach, as is ENABLED. Every invariant and every action property that
a passing run checks is proved as well; `AckedUploadsSettled` for one worker only,
because it is false for two. No recursive definition occurs in the models, so
nothing is left out for want of induction over data.

## 5. What is not modelled

- Rendering of answers, content types, the headers of reading requests, the
  tracing middleware, the pages and the docs. An identifier that is no UUID is
  refused by the database and is a 500: to the model a refused call.
- A listener whose port is in use: `run` returns the error and the process exits.
- Image decoding and scaling (only whether an original decodes matters, constant
  `Decodable`), logging, telemetry, configuration.
- The histograms and the worker's counters, which no decision reads; the pool and
  storage collectors, which read other state on a scrape.
- A panic in the worker: nothing recovers it, so it is `Crash`, and a message that
  makes a handler panic is delivered again without an attempt being counted.
- A broker or store that loses what it has accepted.
- The order of messages in a queue, and real time: the waits of the backoff are a
  step that may come any time later.

Facts met while modelling that no property is about: the limit of 10 MB is on the
whole multipart body, so a file of just that size is refused. A panic in the
upload handler is counted as `rejected`, which `metrics.go:19-21` keeps for
clients' mistakes, and appears in no request counter. A client that goes away is
counted as `error`. The newest avatar answers for its user even if its upload
failed and an older one is complete (`LatestFile`, which the model has, opens
whatever is newest); two avatars with equal `created_at` may take turns. The
bytes per user count failed uploads too. The checks of `/health` share one
deadline, so a slow database makes the other two fail.

## 6. Plan

Done: the modules above, in the order Consumer, Delivery; Storage, Service,
Processor, GophProfile, AvatarPromise; Api; Processes; Topology and HttpServer;
and their proofs.

Next, in this order:
1. HttpServer with the worker of GophProfile: a rolling update, in which an old
   server drains while a new one serves, and how many events a lost publisher costs.
2. The worker's counters: an attempt per handler, also for repeated deliveries
   and for an attempt a crash ends.
3. `DeleteLatest` and `LatestFile` on ties of `created_at`: what a user may
   conclude from two answers in a row.

Theorems next: HttpServer on top of AvatarPromise; one deletion and only the
owner's (`OneDeletion`, `OwnAvatarsOnly`) behind the handler chain; what `/health`
answers as a theorem about the three moments it looks at; `CaptureIsComplete`
where every upload event is acknowledged before its avatar is deleted.
