----------------------------- MODULE Processes ------------------------------
(***************************************************************************)
(* The life of the server and worker processes (cmd/server, cmd/worker):   *)
(* startup against a database, a bucket and a broker they share and none   *)
(* of them owns, the /health probe, and shutdown.  Any process may start   *)
(* first; one whose startup fails exits and is started again.              *)
(*                                                                         *)
(* What requests and handlers do meanwhile is in GophProfile; here a       *)
(* request is only something a shutdown has to wait for.                   *)
(***************************************************************************)
EXTENDS Topology

CONSTANTS Server, Worker,
          AutoMigrate,      \* the servers that migrate when they start
          MigrateOnly,      \* the servers started as migration jobs
          MaxActive,        \* bound: requests of a server at a time
          MaxOutages,       \* bound: dependencies and connections that fail
          MaxDisruptions    \* bound: signals and crashes

ASSUME ProcessAssumption ==
  /\ Server \cap Worker = {}
  /\ AutoMigrate \subseteq Server /\ MigrateOnly \subseteq Server
ASSUME BoundsAssumption == MaxActive \in Nat /\ MaxOutages \in Nat /\ MaxDisruptions \in Nat

Process == Server \cup Worker
Dependency == {"db", "s3", "broker"}

VARIABLES up,           \* the dependencies that answer
          schema,       \* "dirty" while a migration runs, or after one that broke off
          bucket,       \* whether the bucket exists
          declared,     \* what the broker has of the topology
          pc,           \* pc[p]: where process p is
          declares,     \* declares[p]: how much of the topology p has declared
          conn,         \* conn[p]: whether p's connection to the broker is open
          stopping,     \* stopping[p]: p got a signal
          active,       \* active[p]: the requests p works on
          expired,      \* expired[p]: the time to finish them is over
          probe,        \* probe[p]: the dependency the /health check of p asks next
          healthy,      \* healthy[p]: whether those asked so far answered
          ready,        \* ready[p]: what the last /health check said
          outages, disruptions

sharedVars == <<up, schema, bucket, declared>>
probeVars == <<probe, healthy, ready>>
processVars == <<pc, declares, conn, stopping, active, expired>>
countVars == <<outages, disruptions>>
vars == <<sharedVars, processVars, probeVars, countVars>>

Startup == {"migrate", "apply", "pingDB", "checkBucket", "makeBucket", "recheckBucket",
            "dial", "declare", "listen"}
ProcessState == Startup \cup {"serve", "drain", "close", "consume", "done", "down"}

SharedTypeOK ==
  /\ up \subseteq Dependency /\ bucket \in BOOLEAN
  /\ schema \in {"absent", "dirty", "current"}
  /\ declared \subseteq Declaration

OwnTypeOK ==
  /\ pc \in [Process -> ProcessState]
  /\ declares \in [Process -> 0 .. Len(Declarations)]
  /\ conn \in [Process -> BOOLEAN] /\ stopping \in [Process -> BOOLEAN]
  /\ active \in [Process -> 0 .. MaxActive] /\ expired \in [Process -> BOOLEAN]
  /\ probe \in [Process -> Dependency]
  /\ healthy \in [Process -> BOOLEAN] /\ ready \in [Process -> BOOLEAN]

ProcessTypeOK ==
  /\ SharedTypeOK /\ OwnTypeOK
  /\ outages \in 0 .. MaxOutages /\ disruptions \in 0 .. MaxDisruptions

\* A fresh installation, before anything runs.
ProcessInit ==
  /\ up = Dependency /\ schema = "absent" /\ bucket = FALSE /\ declared = {}
  /\ pc = [p \in Process |-> "down"]
  /\ declares = [p \in Process |-> 0]
  /\ conn = [p \in Process |-> FALSE] /\ stopping = [p \in Process |-> FALSE]
  /\ active = [p \in Process |-> 0] /\ expired = [p \in Process |-> FALSE]
  /\ probe = [p \in Process |-> "db"]
  /\ healthy = [p \in Process |-> TRUE] /\ ready = [p \in Process |-> FALSE]
  /\ outages = 0 /\ disruptions = 0

-----------------------------------------------------------------------------
(* Steps of a process *)

Goto(p, label) ==
  /\ pc' = [pc EXCEPT ![p] = label]
  /\ UNCHANGED <<declares, conn, stopping, active, expired, probeVars>>

\* The process ends: "down" to be started again, "done" for a finished job.
End(p, label) ==
  /\ pc' = [pc EXCEPT ![p] = label]
  /\ declares' = [declares EXCEPT ![p] = 0]
  /\ conn' = [conn EXCEPT ![p] = FALSE]
  /\ stopping' = [stopping EXCEPT ![p] = FALSE]
  /\ active' = [active EXCEPT ![p] = 0]
  /\ expired' = [expired EXCEPT ![p] = FALSE]
  /\ probe' = [probe EXCEPT ![p] = "db"]
  /\ healthy' = [healthy EXCEPT ![p] = TRUE]
  /\ ready' = [ready EXCEPT ![p] = FALSE]

Begin(p) ==
  /\ pc[p] = "down"
  /\ Goto(p, IF p \in AutoMigrate \cup MigrateOnly THEN "migrate" ELSE "pingDB")
  /\ UNCHANGED sharedVars

Migrated(p) == IF p \in MigrateOnly THEN End(p, "done") ELSE Goto(p, "pingDB")

Locked(p) == \E q \in Process \ {p} : pc[q] = "apply"

\* Faulty Migrate: a schema somebody else migrates is taken as up to date.
MigrateUnlessLocked(p) ==
  /\ pc[p] = "migrate"
  /\ \/ Locked(p) /\ Migrated(p) /\ UNCHANGED sharedVars
     \/ ("db" \notin up \/ schema = "dirty") /\ End(p, "down") /\ UNCHANGED sharedVars
     \/ "db" \in up /\ schema = "current" /\ Migrated(p) /\ UNCHANGED sharedVars
     \/ /\ "db" \in up /\ schema = "absent" /\ Goto(p, "apply")
        /\ schema' = "dirty" /\ UNCHANGED <<up, bucket, declared>>

\* migrate.Up: one process at a time holds the lock, the others wait and may
\* give up.  A schema left dirty is an error until somebody repairs it by hand.
Migrate(p) ==
  /\ pc[p] = "migrate"
  /\ \/ ("db" \notin up \/ schema = "dirty" \/ Locked(p)) /\ End(p, "down") /\ UNCHANGED sharedVars
     \/ "db" \in up /\ schema = "current" /\ Migrated(p) /\ UNCHANGED sharedVars
     \/ /\ "db" \in up /\ schema = "absent" /\ Goto(p, "apply")
        /\ schema' = "dirty" /\ UNCHANGED <<up, bucket, declared>>

Apply(p) ==
  /\ pc[p] = "apply"
  /\ schema' = "current" /\ Migrated(p)
  /\ UNCHANGED <<up, bucket, declared>>

\* A call under the process's context, which a signal ends.
Answers(p, d) == d \in up /\ ~stopping[p]

PingDB(p) ==
  /\ pc[p] = "pingDB"
  /\ IF Answers(p, "db") THEN Goto(p, IF p \in Server THEN "checkBucket" ELSE "dial")
                         ELSE End(p, "down")
  /\ UNCHANGED sharedVars

CheckBucket(p) ==
  /\ pc[p] = "checkBucket"
  /\ IF Answers(p, "s3") THEN Goto(p, IF bucket THEN "dial" ELSE "makeBucket") ELSE End(p, "down")
  /\ UNCHANGED sharedVars

\* Faulty MakeBucket: its error ends the process, whatever the reason.
MakeBucketOnce(p) ==
  /\ pc[p] = "makeBucket"
  /\ IF Answers(p, "s3") /\ ~bucket THEN bucket' = TRUE /\ Goto(p, "dial")
                                    ELSE End(p, "down") /\ UNCHANGED bucket
  /\ UNCHANGED <<up, schema, declared>>

MakeBucket(p) ==
  /\ pc[p] = "makeBucket"
  /\ IF Answers(p, "s3") /\ ~bucket THEN bucket' = TRUE /\ Goto(p, "dial")
                                    ELSE Goto(p, "recheckBucket") /\ UNCHANGED bucket
  /\ UNCHANGED <<up, schema, declared>>

RecheckBucket(p) ==
  /\ pc[p] = "recheckBucket"
  /\ IF Answers(p, "s3") /\ bucket THEN Goto(p, "dial") ELSE End(p, "down")
  /\ UNCHANGED sharedVars

\* NewPublisher and NewConsumer take no context.
Dial(p) ==
  /\ pc[p] = "dial"
  /\ IF "broker" \in up
       THEN /\ pc' = [pc EXCEPT ![p] = "declare"] /\ conn' = [conn EXCEPT ![p] = TRUE]
            /\ UNCHANGED <<declares, stopping, active, expired, probeVars>>
       ELSE End(p, "down")
  /\ UNCHANGED sharedVars

Prepared(p) == IF p \in Server THEN "listen" ELSE "consume"

\* Faulty Declare: a topology whose exchange exists is taken as complete.
DeclareIfMissing(p) ==
  LET x == Declarations[declares[p] + 1]
      n == IF declares[p] = 0 /\ x \in declared THEN Len(Declarations) ELSE declares[p] + 1
  IN  /\ pc[p] = "declare"
      /\ IF conn[p] /\ Requires(x) \subseteq declared
           THEN /\ declared' = declared \cup {x}
                /\ declares' = [declares EXCEPT ![p] = n]
                /\ pc' = [pc EXCEPT ![p] = IF n = Len(Declarations) THEN Prepared(p) ELSE @]
                /\ UNCHANGED <<conn, stopping, active, expired, probeVars>>
           ELSE End(p, "down") /\ UNCHANGED declared
      /\ UNCHANGED <<up, schema, bucket>>

\* The next declaration; one that exists already succeeds as well.
Declare(p) ==
  LET x == Declarations[declares[p] + 1]
      n == declares[p] + 1
  IN  /\ pc[p] = "declare"
      /\ IF conn[p] /\ Requires(x) \subseteq declared
           THEN /\ declared' = declared \cup {x}
                /\ declares' = [declares EXCEPT ![p] = n]
                /\ pc' = [pc EXCEPT ![p] = IF n = Len(Declarations) THEN Prepared(p) ELSE @]
                /\ UNCHANGED <<conn, stopping, active, expired, probeVars>>
           ELSE End(p, "down") /\ UNCHANGED declared
      /\ UNCHANGED <<up, schema, bucket>>

Listen(p) == pc[p] = "listen" /\ Goto(p, "serve") /\ UNCHANGED sharedVars

\* The worker ends with its context or its connection (module Consumer).
StopConsuming(p) ==
  pc[p] = "consume" /\ (stopping[p] \/ ~conn[p]) /\ End(p, "down") /\ UNCHANGED sharedVars

-----------------------------------------------------------------------------
(* Requests and shutdown *)

Accept(p) ==
  /\ pc[p] = "serve" /\ active[p] < MaxActive
  /\ active' = [active EXCEPT ![p] = @ + 1]
  /\ UNCHANGED <<sharedVars, pc, declares, conn, stopping, expired, probeVars>>

\* Faulty Finish: a request is counted off twice.
FinishTwice(p) ==
  /\ active' = [active EXCEPT ![p] = @ - 1]
  /\ UNCHANGED <<sharedVars, pc, declares, conn, stopping, expired, probeVars>>

Finish(p) ==
  /\ active[p] > 0
  /\ active' = [active EXCEPT ![p] = @ - 1]
  /\ UNCHANGED <<sharedVars, pc, declares, conn, stopping, expired, probeVars>>

\* Shutdown closes the listener, and with it ListenAndServe returns.
StopListening(p) ==
  /\ pc[p] = "serve" /\ stopping[p]
  /\ Goto(p, "drain")
  /\ UNCHANGED sharedVars

\* Faulty Drained: the process ends with its listener.
DrainedAtOnce(p) ==
  /\ pc[p] = "drain"
  /\ Goto(p, "close")
  /\ UNCHANGED sharedVars

\* Faulty Drained: no deadline.
DrainedInTheEnd(p) ==
  /\ pc[p] = "drain" /\ active[p] = 0
  /\ Goto(p, "close")
  /\ UNCHANGED sharedVars

\* Shutdown returns when the last request is finished or the time is over.
Drained(p) ==
  /\ pc[p] = "drain" /\ (active[p] = 0 \/ expired[p])
  /\ Goto(p, "close")
  /\ UNCHANGED sharedVars

ShutdownTimeout(p) ==
  /\ pc[p] = "drain" /\ ~expired[p]
  /\ expired' = [expired EXCEPT ![p] = TRUE]
  /\ UNCHANGED <<sharedVars, pc, declares, conn, stopping, active, probeVars>>

\* The deferred calls of run: the publisher and the pool are closed, the traces
\* flushed.  Requests that are still there go on without a connection.
ClosePublisher(p) ==
  /\ pc[p] = "close" /\ conn[p]
  /\ conn' = [conn EXCEPT ![p] = FALSE]
  /\ UNCHANGED <<sharedVars, pc, declares, stopping, active, expired, probeVars>>

Exit(p) == pc[p] = "close" /\ ~conn[p] /\ End(p, "down") /\ UNCHANGED sharedVars

ProcessStep(p) ==
  /\ \/ Begin(p) \/ Migrate(p) \/ Apply(p) \/ PingDB(p)
     \/ CheckBucket(p) \/ MakeBucket(p) \/ RecheckBucket(p)
     \/ Dial(p) \/ Declare(p) \/ Listen(p) \/ StopConsuming(p)
     \/ StopListening(p) \/ Drained(p) \/ ShutdownTimeout(p) \/ ClosePublisher(p) \/ Exit(p)
  /\ UNCHANGED countVars

ClientStep(p) == (Accept(p) \/ Finish(p)) /\ UNCHANGED countVars

-----------------------------------------------------------------------------
(* GET /health: the checks run one after the other and all of them run. *)

\* Faulty CheckDB: what failed in an earlier probe counts in this one.
CheckDBOnTop(p) ==
  /\ probe[p] = "db" /\ probe' = [probe EXCEPT ![p] = "s3"]
  /\ healthy' = [healthy EXCEPT ![p] = @ /\ "db" \in up]
  /\ UNCHANGED ready

CheckDB(p) ==
  /\ probe[p] = "db" /\ probe' = [probe EXCEPT ![p] = "s3"]
  /\ healthy' = [healthy EXCEPT ![p] = "db" \in up]
  /\ UNCHANGED ready

CheckS3(p) ==
  /\ probe[p] = "s3" /\ probe' = [probe EXCEPT ![p] = "broker"]
  /\ healthy' = [healthy EXCEPT ![p] = @ /\ "s3" \in up]
  /\ UNCHANGED ready

\* Faulty CheckBroker: asks the broker instead of the publisher's connection.
CheckBrokerItself(p) ==
  /\ probe[p] = "broker" /\ probe' = [probe EXCEPT ![p] = "db"]
  /\ ready' = [ready EXCEPT ![p] = healthy[p] /\ "broker" \in up]
  /\ UNCHANGED healthy

\* Publisher.Ping, and the answer: 200 or 503.
CheckBroker(p) ==
  /\ probe[p] = "broker" /\ probe' = [probe EXCEPT ![p] = "db"]
  /\ ready' = [ready EXCEPT ![p] = healthy[p] /\ conn[p]]
  /\ UNCHANGED healthy

ProbeStep(p) ==
  /\ pc[p] = "serve"
  /\ CheckDB(p) \/ CheckS3(p) \/ CheckBroker(p)
  /\ UNCHANGED <<sharedVars, processVars, countVars>>

-----------------------------------------------------------------------------
(* The world *)

\* An outage ends the sessions with the dependency: the broker's connections
\* and, with the database, the migration that runs.
Outage(d) ==
  /\ d \in up /\ up' = up \ {d}
  /\ conn' = [p \in Process |-> conn[p] /\ d # "broker"]
  /\ pc' = [p \in Process |-> IF d = "db" /\ pc[p] = "apply" THEN "down" ELSE pc[p]]
  /\ stopping' = [p \in Process |-> stopping[p] /\ pc'[p] = pc[p]]
  /\ UNCHANGED <<schema, bucket, declared, declares, active, expired, probeVars>>

LoseConnection(p) ==
  /\ conn[p] /\ conn' = [conn EXCEPT ![p] = FALSE]
  /\ UNCHANGED <<sharedVars, pc, declares, stopping, active, expired, probeVars>>

Failure ==
  /\ outages < MaxOutages /\ outages' = outages + 1
  /\ (\E d \in Dependency : Outage(d)) \/ (\E p \in Process : LoseConnection(p))
  /\ UNCHANGED disruptions

Repair(d) ==
  /\ d \notin up /\ up' = up \cup {d}
  /\ UNCHANGED <<schema, bucket, declared, processVars, probeVars, countVars>>

\* The compose job that creates the bucket as well.
BucketJob ==
  /\ "s3" \in up /\ ~bucket /\ bucket' = TRUE
  /\ UNCHANGED <<up, schema, declared, processVars, probeVars, countVars>>

Running(p) == pc[p] \notin {"down", "done"}

Signal(p) ==
  /\ Running(p) /\ ~stopping[p]
  /\ stopping' = [stopping EXCEPT ![p] = TRUE]
  /\ UNCHANGED <<pc, declares, conn, active, expired, probeVars>>

Kill(p) == Running(p) /\ End(p, "down")

Disruption ==
  /\ disruptions < MaxDisruptions /\ disruptions' = disruptions + 1
  /\ \E p \in Process : Signal(p) \/ Kill(p)
  /\ UNCHANGED <<sharedVars, outages>>

ProcessNext ==
  \/ \E p \in Process : ProcessStep(p)
  \/ \E p \in Server : ClientStep(p) \/ ProbeStep(p)
  \/ Failure \/ BucketJob \/ Disruption
  \/ \E d \in Dependency : Repair(d)

ProcessSpec == ProcessInit /\ [][ProcessNext]_vars

\* Processes run and are started again, probes come, an outage ends.  Requests
\* need not end: downloads have no write timeout.
ProcessFairness ==
  /\ \A p \in Process : WF_vars(ProcessStep(p))
  /\ \A p \in Server : WF_vars(ProbeStep(p))
  /\ \A d \in Dependency : WF_vars(Repair(d))

FairProcessSpec == ProcessSpec /\ ProcessFairness

-----------------------------------------------------------------------------
(* Properties *)

\* TopologyComplete: a process that can publish or consume finds every key
\* routed and every rejected message dead-lettered, whoever else is still
\* declaring the topology; otherwise RabbitMQ drops messages silently.
TopologyComplete ==
  \A p \in Process : pc[p] \in {"listen", "serve", "drain", "consume"} =>
    \A key \in EventKey :
      {<<"avatars", key, key>>, <<"avatars.dlx", "dead", key>>} \subseteq declared

\* PreparedBeforeService: a server that serves has a bucket, and one that
\* migrates by itself has a migrated schema, although others may be migrating
\* or making the bucket at the same time.
PreparedBeforeService ==
  \A p \in Server : pc[p] \in {"serve", "drain"} =>
    bucket /\ (p \in AutoMigrate => schema = "current")

\* OnlyLateRequestsCut: a shutdown takes the broker away from a request only if
\* the request has outlived the time it was given.
OnlyLateRequestsCut ==
  \A p \in Server : pc[p] = "close" /\ active[p] > 0 => expired[p]

\* What process p has declared is there, and its place tells how much that is,
\* whether it has a bucket, and whether it has a migrated schema.
ProcessBooks(p) ==
  /\ \A n \in 1 .. declares[p] : Declarations[n] \in declared
  /\ pc[p] \in {"listen", "serve", "drain", "close", "consume"} => declares[p] = Len(Declarations)
  /\ pc[p] = "declare" => declares[p] < Len(Declarations)
  /\ pc[p] \in (Startup \ {"declare", "listen"}) \cup {"done", "down"} => declares[p] = 0
  /\ p \in Server /\ pc[p] \in {"dial", "declare", "listen", "serve", "drain", "close"} => bucket
  /\ p \in AutoMigrate /\ pc[p] \notin {"down", "migrate", "apply", "done"} => schema = "current"
  /\ pc[p] = "apply" => schema = "dirty" /\ \A q \in Process : pc[q] = "apply" => q = p
  /\ pc[p] = "close" /\ active[p] > 0 => expired[p]

\* The inductive invariant.
ProcessInv == ProcessTypeOK /\ \A p \in Process : ProcessBooks(p)

\* StartupFailsForCause: a starting process gives up only for a signal, for a
\* dependency that does not answer, for a migration that is running or broke
\* off, for a bucket that could not be made, or for a lost connection: never
\* because another process did the same work first.
StartupFailsForCause ==
  [][\A p \in Process :
       pc[p] \in Startup /\ pc'[p] = "down" /\ UNCHANGED countVars =>
         \/ stopping[p] \/ up # Dependency
         \/ pc[p] = "migrate" /\ schema = "dirty"
         \/ pc[p] = "recheckBucket" /\ ~bucket
         \/ pc[p] = "declare" /\ ~conn[p]]_vars

\* EveryoneComesUp: every server and worker works again and again, every job
\* gets done, in whatever order they start and however long requests last,
\* unless a migration broke off: that needs a person.
EveryoneComesUp ==
  \A p \in Process :
    []<>(pc[p] \in {"serve", "consume", "done"} \/ schema = "dirty")

\* ReadyAgain: after an outage a server that kept its connection gets back to
\* 200 without a restart.
ReadyAgain ==
  \A p \in Server :
    <>[](pc[p] = "serve" /\ conn[p] /\ up = Dependency) => <>[]ready[p]

\* LostConnectionShows: the publisher does not reconnect, so a server that lost
\* its connection answers 503 from then on, although the broker is back.
LostConnectionShows ==
  \A p \in Server : <>[](pc[p] = "serve" /\ ~conn[p]) => <>[]~ready[p]

=============================================================================
