-------------------------- MODULE Processes_proofs --------------------------
(***************************************************************************)
(* Proofs about module Processes, for any number of servers, jobs and      *)
(* workers and any bounds.                                                 *)
(***************************************************************************)
EXTENDS Processes, TLAPS

\* The lengths and members of the literal sequence, for the provers.
LEMMA DeclarationCount == Len(Declarations) = 9 /\ DOMAIN Declarations = 1 .. 9
BY DEF Declarations

LEMMA DeclarationsTyped == \A n \in 1 .. 9 : Declarations[n] \in Declaration
BY DeclarationCount DEF Declaration

\* The bindings that TopologyComplete asks for are among the declarations.
LEMMA BindingsDeclared ==
  ASSUME NEW key \in EventKey
  PROVE  \E m, n \in 1 .. 9 :
           Declarations[m] = <<"avatars", key, key>> /\ Declarations[n] = <<"avatars.dlx", "dead",
              key>>
<1>1. CASE key = "upload"
  <2>1. Declarations[4] = <<"avatars", "upload", "upload">> BY DEF Declarations
  <2>2. Declarations[8] = <<"avatars.dlx", "dead", "upload">> BY DEF Declarations
  <2> QED BY <1>1, <2>1, <2>2
<1>2. CASE key = "delete"
  <2>1. Declarations[6] = <<"avatars", "delete", "delete">> BY DEF Declarations
  <2>2. Declarations[9] = <<"avatars.dlx", "dead", "delete">> BY DEF Declarations
  <2> QED BY <1>2, <2>1, <2>2
<1> QED BY <1>1, <1>2 DEF EventKey

\* Nothing a declaration requires comes after it.
LEMMA RequiredFirst ==
  ASSUME NEW n \in 1 .. 9, NEW y \in Requires(Declarations[n])
  PROVE  \E m \in 1 .. n - 1 : Declarations[m] = y
<1> DEFINE D == Declarations
<1>1. D[1] = <<"avatars">> /\ D[2] = <<"avatars.dlx">> /\ D[3] = <<"upload">>
      /\ D[5] = <<"delete">> /\ D[7] = <<"dead">>
  BY DEF Declarations
<1>2. CASE n \in {1, 2, 3, 5, 7}
  <2>1. Len(D[n]) = 1 BY <1>1, <1>2
  <2> QED BY <2>1 DEF Requires
<1>4. CASE n = 4
  <2>1. D[4] = <<"avatars", "upload", "upload">> BY DEF Declarations
  <2>2. y \in {<<"avatars">>, <<"upload">>} BY <1>4, <2>1 DEF Requires
  <2> QED BY <1>1, <1>4, <2>2
<1>6. CASE n = 6
  <2>1. D[6] = <<"avatars", "delete", "delete">> BY DEF Declarations
  <2>2. y \in {<<"avatars">>, <<"delete">>} BY <1>6, <2>1 DEF Requires
  <2> QED BY <1>1, <1>6, <2>2
<1>8. CASE n = 8
  <2>1. D[8] = <<"avatars.dlx", "dead", "upload">> BY DEF Declarations
  <2>2. y \in {<<"avatars.dlx">>, <<"dead">>} BY <1>8, <2>1 DEF Requires
  <2> QED BY <1>1, <1>8, <2>2
<1>9. CASE n = 9
  <2>1. D[9] = <<"avatars.dlx", "dead", "delete">> BY DEF Declarations
  <2>2. y \in {<<"avatars.dlx">>, <<"dead">>} BY <1>9, <2>1 DEF Requires
  <2> QED BY <1>1, <1>9, <2>2
<1> QED BY <1>2, <1>4, <1>6, <1>8, <1>9

\* Going on and ending keep the types of what a process has of its own.
LEMMA GotoTypes ==
  ASSUME OwnTypeOK, NEW p, NEW label \in ProcessState, Goto(p, label)
  PROVE  OwnTypeOK'
BY DEF OwnTypeOK, Goto, probeVars

LEMMA EndTypes ==
  ASSUME OwnTypeOK, NEW p, NEW label \in ProcessState, End(p, label)
  PROVE  OwnTypeOK'
<1>1. pc' \in [Process -> ProcessState] BY DEF OwnTypeOK, End
<1>2. declares' \in [Process -> 0 .. Len(Declarations)]
  <2>1. 0 \in 0 .. Len(Declarations) BY DeclarationCount
  <2> QED BY <2>1 DEF OwnTypeOK, End
<1>3. conn' \in [Process -> BOOLEAN] /\ stopping' \in [Process -> BOOLEAN] BY DEF OwnTypeOK, End
<1>4. active' \in [Process -> 0 .. MaxActive]
  <2>1. 0 \in 0 .. MaxActive BY BoundsAssumption
  <2> QED BY <2>1 DEF OwnTypeOK, End
<1>5. expired' \in [Process -> BOOLEAN] BY DEF OwnTypeOK, End
<1>6. probe' \in [Process -> Dependency] BY DEF OwnTypeOK, End, Dependency
<1>7. healthy' \in [Process -> BOOLEAN] /\ ready' \in [Process -> BOOLEAN] BY DEF OwnTypeOK, End
<1> QED BY <1>1, <1>2, <1>3, <1>4, <1>5, <1>6, <1>7 DEF OwnTypeOK

\* Every step keeps the types.
LEMMA ProcessTypeStep ==
  ASSUME ProcessInv, [ProcessNext]_vars
  PROVE  ProcessTypeOK'
<1> USE DEF ProcessInv, ProcessTypeOK, SharedTypeOK, Process, ProcessState, Startup, sharedVars,
   processVars, probeVars, countVars
<1>1. CASE UNCHANGED vars
  BY <1>1 DEF vars, OwnTypeOK
<1>2. ASSUME NEW p \in Process, Begin(p), UNCHANGED countVars
      PROVE  ProcessTypeOK'
  BY <1>2, GotoTypes DEF Begin
<1>3. ASSUME NEW p \in Process, Migrate(p), UNCHANGED countVars
      PROVE  ProcessTypeOK'
  BY <1>3, GotoTypes, EndTypes DEF Migrate, Migrated, Locked
<1>4. ASSUME NEW p \in Process, Apply(p), UNCHANGED countVars
      PROVE  ProcessTypeOK'
  BY <1>4, GotoTypes, EndTypes DEF Apply, Migrated
<1>5. ASSUME NEW p \in Process, PingDB(p), UNCHANGED countVars
      PROVE  ProcessTypeOK'
  BY <1>5, GotoTypes, EndTypes DEF PingDB
<1>6. ASSUME NEW p \in Process, CheckBucket(p), UNCHANGED countVars
      PROVE  ProcessTypeOK'
  BY <1>6, GotoTypes, EndTypes DEF CheckBucket
<1>7. ASSUME NEW p \in Process, MakeBucket(p), UNCHANGED countVars
      PROVE  ProcessTypeOK'
  BY <1>7, GotoTypes DEF MakeBucket
<1>8. ASSUME NEW p \in Process, RecheckBucket(p), UNCHANGED countVars
      PROVE  ProcessTypeOK'
  BY <1>8, GotoTypes, EndTypes DEF RecheckBucket
<1>9. ASSUME NEW p \in Process, Dial(p), UNCHANGED countVars
      PROVE  ProcessTypeOK'
  BY <1>9, EndTypes DEF Dial, OwnTypeOK
<1>10. ASSUME NEW p \in Process, Declare(p), UNCHANGED countVars
      PROVE  ProcessTypeOK'
  <2> DEFINE n == declares[p] + 1
  <2>1. declares[p] \in 0 .. 8 /\ n \in 1 .. 9
    BY <1>10, DeclarationCount DEF Declare, ProcessBooks, OwnTypeOK
  <2>2. Declarations[n] \in Declaration
    BY <2>1, DeclarationsTyped
  <2>3. declared' \subseteq Declaration /\ SharedTypeOK'
    BY <1>10, <2>2 DEF Declare
  <2>4. CASE End(p, "down")
    BY <1>10, <2>3, <2>4, EndTypes
  <2>5. CASE ~End(p, "down")
    <3>1. pc' = [pc EXCEPT ![p] = IF n = 9 THEN Prepared(p) ELSE @]
          /\ declares' = [declares EXCEPT ![p] = n]
          /\ UNCHANGED <<conn, stopping, active, expired, probeVars>>
      BY <1>10, <2>5, DeclarationCount DEF Declare
    <3>2. Prepared(p) \in ProcessState BY DEF Prepared
    <3>3. OwnTypeOK' BY <2>1, <3>1, <3>2, DeclarationCount DEF OwnTypeOK
    <3> QED BY <1>10, <2>3, <3>3
  <2> QED BY <2>4, <2>5
<1>11. ASSUME NEW p \in Process, Listen(p), UNCHANGED countVars
      PROVE  ProcessTypeOK'
  BY <1>11, GotoTypes DEF Listen
<1>12. ASSUME NEW p \in Process, StopConsuming(p), UNCHANGED countVars
      PROVE  ProcessTypeOK'
  BY <1>12, EndTypes DEF StopConsuming
<1>13. ASSUME NEW p \in Process, StopListening(p), UNCHANGED countVars
      PROVE  ProcessTypeOK'
  BY <1>13, GotoTypes DEF StopListening
<1>14. ASSUME NEW p \in Process, Drained(p), UNCHANGED countVars
      PROVE  ProcessTypeOK'
  BY <1>14, GotoTypes DEF Drained
<1>15. ASSUME NEW p \in Process, ShutdownTimeout(p), UNCHANGED countVars
      PROVE  ProcessTypeOK'
  BY <1>15 DEF ShutdownTimeout, OwnTypeOK
<1>16. ASSUME NEW p \in Process, ClosePublisher(p), UNCHANGED countVars
      PROVE  ProcessTypeOK'
  BY <1>16 DEF ClosePublisher, OwnTypeOK
<1>17. ASSUME NEW p \in Process, Exit(p), UNCHANGED countVars
      PROVE  ProcessTypeOK'
  BY <1>17, EndTypes DEF Exit
<1>18. ASSUME NEW p \in Process, Accept(p), UNCHANGED countVars
      PROVE  ProcessTypeOK'
  BY <1>18, BoundsAssumption DEF Accept, OwnTypeOK
<1>19. ASSUME NEW p \in Process, Finish(p), UNCHANGED countVars
      PROVE  ProcessTypeOK'
  BY <1>19, BoundsAssumption DEF Finish, OwnTypeOK
<1>20. ASSUME NEW p \in Process, ProbeStep(p)
      PROVE  ProcessTypeOK'
  <2>1. healthy' \in [Process -> BOOLEAN]
    <3>1. ("db" \in up) \in BOOLEAN /\ (healthy[p] /\ "s3" \in up) \in BOOLEAN OBVIOUS
    <3>2. \/ healthy' = [healthy EXCEPT ![p] = "db" \in up]
          \/ healthy' = [healthy EXCEPT ![p] = healthy[p] /\ "s3" \in up]
          \/ healthy' = healthy
      BY <1>20, Zenon DEF ProbeStep, CheckDB, CheckS3, CheckBroker
    <3> QED BY <3>1, <3>2, Zenon DEF OwnTypeOK
  <2>2. ready' \in [Process -> BOOLEAN]
    <3>1. (healthy[p] /\ conn[p]) \in BOOLEAN OBVIOUS
    <3>2. ready' = [ready EXCEPT ![p] = healthy[p] /\ conn[p]] \/ ready' = ready
      BY <1>20, Zenon DEF ProbeStep, CheckDB, CheckS3, CheckBroker
    <3> QED BY <3>1, <3>2, Zenon DEF OwnTypeOK
  <2>3. probe' \in [Process -> Dependency]
    BY <1>20 DEF ProbeStep, CheckDB, CheckS3, CheckBroker, OwnTypeOK, Dependency
  <2> QED BY <1>20, <2>1, <2>2, <2>3 DEF ProbeStep, OwnTypeOK
<1>21. ASSUME NEW d \in Dependency, Outage(d), UNCHANGED disruptions, outages < MaxOutages,
              outages' = outages + 1
      PROVE  ProcessTypeOK'
  BY <1>21, BoundsAssumption DEF Outage, OwnTypeOK
<1>22. ASSUME NEW p \in Process, LoseConnection(p), UNCHANGED disruptions, outages < MaxOutages,
              outages' = outages + 1
      PROVE  ProcessTypeOK'
  BY <1>22, BoundsAssumption DEF LoseConnection, OwnTypeOK
<1>23. ASSUME NEW d \in Dependency, Repair(d)
      PROVE  ProcessTypeOK'
  BY <1>23 DEF Repair, OwnTypeOK
<1>24. ASSUME BucketJob
      PROVE  ProcessTypeOK'
  BY <1>24 DEF BucketJob, OwnTypeOK
<1>25. ASSUME NEW p \in Process, Signal(p), UNCHANGED <<sharedVars, outages>>,
              disruptions < MaxDisruptions, disruptions' = disruptions + 1
      PROVE  ProcessTypeOK'
  BY <1>25, BoundsAssumption DEF Signal, OwnTypeOK
<1>26. ASSUME NEW p \in Process, Kill(p), UNCHANGED <<sharedVars, outages>>,
              disruptions < MaxDisruptions, disruptions' = disruptions + 1
      PROVE  ProcessTypeOK'
  BY <1>26, EndTypes, BoundsAssumption DEF Kill
<1> QED
  BY <1>1, <1>2, <1>3, <1>4, <1>5, <1>6, <1>7, <1>8, <1>9, <1>10, <1>11, <1>12, <1>13, <1>14,
     <1>15, <1>16, <1>17, <1>18, <1>19, <1>20, <1>21, <1>22, <1>23, <1>24, <1>25,
        <1>26 DEF ProcessNext, ProcessStep, ClientStep, Failure, Disruption, Process

\* Every step keeps the books of every process.
LEMMA ProcessBooksStep ==
  ASSUME ProcessInv, [ProcessNext]_vars, NEW q \in Process
  PROVE  ProcessBooks(q)'
<1> USE ProcessAssumption, DeclarationCount
    DEF ProcessInv, ProcessTypeOK, SharedTypeOK, OwnTypeOK, ProcessBooks, Process, ProcessState,
        Startup, sharedVars, processVars, probeVars, countVars
<1>1. CASE UNCHANGED vars
  BY <1>1 DEF vars
<1>2. ASSUME NEW p \in Process, Begin(p), UNCHANGED countVars
      PROVE  ProcessBooks(q)'
  BY <1>2 DEF Begin, Goto
<1>3. ASSUME NEW p \in Process, Migrate(p), UNCHANGED countVars
      PROVE  ProcessBooks(q)'
  BY <1>3 DEF Migrate, Goto, End, Migrated, Locked
<1>4. ASSUME NEW p \in Process, Apply(p), UNCHANGED countVars
      PROVE  ProcessBooks(q)'
  BY <1>4 DEF Apply, Goto, End, Migrated
<1>5. ASSUME NEW p \in Process, PingDB(p), UNCHANGED countVars
      PROVE  ProcessBooks(q)'
  BY <1>5 DEF PingDB, Goto, End
<1>6. ASSUME NEW p \in Process, CheckBucket(p), UNCHANGED countVars
      PROVE  ProcessBooks(q)'
  BY <1>6 DEF CheckBucket, Goto, End
<1>7. ASSUME NEW p \in Process, MakeBucket(p), UNCHANGED countVars
      PROVE  ProcessBooks(q)'
  BY <1>7 DEF MakeBucket, Goto
<1>8. ASSUME NEW p \in Process, RecheckBucket(p), UNCHANGED countVars
      PROVE  ProcessBooks(q)'
  BY <1>8 DEF RecheckBucket, Goto, End
<1>9. ASSUME NEW p \in Process, Dial(p), UNCHANGED countVars
      PROVE  ProcessBooks(q)'
  BY <1>9 DEF Dial, End
<1>10. ASSUME NEW p \in Process, Declare(p), UNCHANGED countVars
      PROVE  ProcessBooks(q)'
  BY <1>10 DEF Declare, End, Prepared
<1>11. ASSUME NEW p \in Process, Listen(p), UNCHANGED countVars
      PROVE  ProcessBooks(q)'
  BY <1>11 DEF Listen, Goto
<1>12. ASSUME NEW p \in Process, StopConsuming(p), UNCHANGED countVars
      PROVE  ProcessBooks(q)'
  BY <1>12 DEF StopConsuming, End
<1>13. ASSUME NEW p \in Process, StopListening(p), UNCHANGED countVars
      PROVE  ProcessBooks(q)'
  BY <1>13 DEF StopListening, Goto
<1>14. ASSUME NEW p \in Process, Drained(p), UNCHANGED countVars
      PROVE  ProcessBooks(q)'
  BY <1>14 DEF Drained, Goto
<1>15. ASSUME NEW p \in Process, ShutdownTimeout(p), UNCHANGED countVars
      PROVE  ProcessBooks(q)'
  BY <1>15 DEF ShutdownTimeout
<1>16. ASSUME NEW p \in Process, ClosePublisher(p), UNCHANGED countVars
      PROVE  ProcessBooks(q)'
  BY <1>16 DEF ClosePublisher
<1>17. ASSUME NEW p \in Process, Exit(p), UNCHANGED countVars
      PROVE  ProcessBooks(q)'
  BY <1>17 DEF Exit, End
<1>18. ASSUME NEW p \in Process, Accept(p), UNCHANGED countVars
      PROVE  ProcessBooks(q)'
  BY <1>18 DEF Accept
<1>19. ASSUME NEW p \in Process, Finish(p), UNCHANGED countVars
      PROVE  ProcessBooks(q)'
  BY <1>19 DEF Finish
<1>20. ASSUME NEW p \in Process, ProbeStep(p)
      PROVE  ProcessBooks(q)'
  BY <1>20 DEF ProbeStep, CheckDB, CheckS3, CheckBroker
<1>21. ASSUME NEW d \in Dependency, Outage(d), UNCHANGED disruptions, outages < MaxOutages,
              outages' = outages + 1
      PROVE  ProcessBooks(q)'
  BY <1>21 DEF Outage
<1>22. ASSUME NEW p \in Process, LoseConnection(p), UNCHANGED disruptions, outages < MaxOutages,
              outages' = outages + 1
      PROVE  ProcessBooks(q)'
  BY <1>22 DEF LoseConnection
<1>23. ASSUME NEW d \in Dependency, Repair(d)
      PROVE  ProcessBooks(q)'
  BY <1>23 DEF Repair
<1>24. ASSUME BucketJob
      PROVE  ProcessBooks(q)'
  BY <1>24 DEF BucketJob
<1>25. ASSUME NEW p \in Process, Signal(p), UNCHANGED <<sharedVars, outages>>,
              disruptions < MaxDisruptions, disruptions' = disruptions + 1
      PROVE  ProcessBooks(q)'
  BY <1>25 DEF Signal
<1>26. ASSUME NEW p \in Process, Kill(p), UNCHANGED <<sharedVars, outages>>,
              disruptions < MaxDisruptions, disruptions' = disruptions + 1
      PROVE  ProcessBooks(q)'
  BY <1>26 DEF Kill, End
<1> QED
  BY <1>1, <1>2, <1>3, <1>4, <1>5, <1>6, <1>7, <1>8, <1>9, <1>10, <1>11, <1>12, <1>13, <1>14,
     <1>15, <1>16, <1>17, <1>18, <1>19, <1>20, <1>21, <1>22, <1>23, <1>24, <1>25,
        <1>26 DEF ProcessNext, ProcessStep, ClientStep, Failure, Disruption, Process

\* The inductive invariant holds in every reachable state.
THEOREM ProcessInvariant == ProcessSpec => []ProcessInv
<1>1. ProcessInit => ProcessInv
  <2> SUFFICES ASSUME ProcessInit PROVE ProcessInv OBVIOUS
  <2>1. 0 \in 0 .. MaxActive /\ 0 \in 0 .. MaxOutages /\ 0 \in 0 .. MaxDisruptions
        /\ 0 \in 0 .. Len(Declarations)
    BY BoundsAssumption, DeclarationCount
  <2>2. SharedTypeOK /\ outages \in 0 .. MaxOutages /\ disruptions \in 0 .. MaxDisruptions
    BY <2>1 DEF ProcessInit, SharedTypeOK
  <2>3. OwnTypeOK
    BY <2>1 DEF ProcessInit, OwnTypeOK, Dependency, ProcessState
  <2>4. ASSUME NEW p \in Process PROVE ProcessBooks(p)
    BY <2>4, ProcessAssumption DEF ProcessInit, ProcessBooks, Startup, Process
  <2> QED BY <2>2, <2>3, <2>4 DEF ProcessInv, ProcessTypeOK
<1>2. ProcessInv /\ [ProcessNext]_vars => ProcessInv'
  <2> SUFFICES ASSUME ProcessInv, [ProcessNext]_vars PROVE ProcessInv' OBVIOUS
  <2>1. ProcessTypeOK' BY ProcessTypeStep
  <2>2. ASSUME NEW q \in Process PROVE ProcessBooks(q)' BY ProcessBooksStep
  <2> QED BY <2>1, <2>2 DEF ProcessInv, Process
<1> QED BY <1>1, <1>2, PTL DEF ProcessSpec

\* Every variable of the processes keeps its type.
THEOREM ProcessTypes == ProcessSpec => []ProcessTypeOK
<1>1. ProcessInv => ProcessTypeOK BY DEF ProcessInv
<1> QED BY <1>1, ProcessInvariant, PTL

\* TopologyComplete: however many processes declare the topology at once, none
\* of them publishes or consumes before all of it is there.
THEOREM TopologyStands == ProcessSpec => []TopologyComplete
<1>1. ProcessInv => TopologyComplete
  <2> SUFFICES ASSUME ProcessInv, NEW p \in Process, NEW key \in EventKey,
                      pc[p] \in {"listen", "serve", "drain", "consume"}
               PROVE  {<<"avatars", key, key>>, <<"avatars.dlx", "dead", key>>} \subseteq declared
    BY DEF TopologyComplete
  <2>1. declares[p] = 9 BY DeclarationCount DEF ProcessInv, ProcessBooks
  <2>2. \A n \in 1 .. 9 : Declarations[n] \in declared BY <2>1 DEF ProcessInv, ProcessBooks
  <2> QED BY <2>2, BindingsDeclared
<1> QED BY <1>1, ProcessInvariant, PTL

\* PreparedBeforeService: whoever else migrates or makes the bucket meanwhile.
THEOREM ServiceIsPrepared == ProcessSpec => []PreparedBeforeService
<1>1. ProcessInv => PreparedBeforeService
  BY DEF ProcessInv, ProcessBooks, PreparedBeforeService, Process
<1> QED BY <1>1, ProcessInvariant, PTL

\* OnlyLateRequestsCut: a shutdown waits for the requests it has time for.
THEOREM ShutdownWaits == ProcessSpec => []OnlyLateRequestsCut
<1>1. ProcessInv => OnlyLateRequestsCut
  BY DEF ProcessInv, ProcessBooks, OnlyLateRequestsCut, Process
<1> QED BY <1>1, ProcessInvariant, PTL

\* A starting process that gives up has a cause, step by step.
LEMMA CauseStep ==
  ASSUME ProcessInv, ProcessNext, NEW p \in Process,
         pc[p] \in Startup, pc'[p] = "down", UNCHANGED countVars
  PROVE  \/ stopping[p] \/ up # Dependency
         \/ pc[p] = "migrate" /\ schema = "dirty"
         \/ pc[p] = "recheckBucket" /\ ~bucket
         \/ pc[p] = "declare" /\ ~conn[p]
<1> USE DEF ProcessInv, ProcessTypeOK, SharedTypeOK, OwnTypeOK, Startup, Dependency
<1>1. pc \in [Process -> ProcessState] /\ pc[p] # "down" OBVIOUS
<1>2. ProcessStep(p)
  <2>1. CASE \E q \in Process : ProcessStep(q)
    <3>1. PICK q \in Process : ProcessStep(q) BY <2>1
    <3>2. CASE q # p
      <4>1. pc'[p] = pc[p]
        BY <3>1, <3>2 DEF ProcessStep, Begin, Migrate, Apply, PingDB, CheckBucket, MakeBucket,
           RecheckBucket, Dial, Declare, Listen, StopConsuming, StopListening, Drained,
           ShutdownTimeout, ClosePublisher, Exit, Goto, End, Migrated
      <4> QED BY <4>1, <1>1
    <3> QED BY <3>1, <3>2
  <2>2. CASE \E q \in Server : ClientStep(q) \/ ProbeStep(q)
    <3>1. pc' = pc BY <2>2 DEF ClientStep, Accept, Finish, ProbeStep, processVars
    <3> QED BY <3>1, <1>1
  <2>3. CASE Failure \/ Disruption
    BY <2>3 DEF Failure, Disruption, countVars
  <2>4. CASE BucketJob \/ \E d \in Dependency : Repair(d)
    <3>1. pc' = pc BY <2>4 DEF BucketJob, Repair, processVars
    <3> QED BY <3>1, <1>1
  <2> QED BY <2>1, <2>2, <2>3, <2>4 DEF ProcessNext
<1>3. CASE Migrate(p)
  BY <1>1, <1>3 DEF Migrate, Locked, Migrated, Goto, End, ProcessBooks
<1>4. CASE Declare(p)
  <2> DEFINE n == declares[p] + 1
  <2>1. n \in 1 .. 9 /\ \A m \in 1 .. n - 1 : Declarations[m] \in declared
    BY <1>4, DeclarationCount DEF Declare, ProcessBooks
  <2>2. Requires(Declarations[n]) \subseteq declared
    <3> SUFFICES ASSUME NEW y \in Requires(Declarations[n]) PROVE y \in declared OBVIOUS
    <3> HIDE DEF n
    <3>1. PICK m \in 1 .. n - 1 : Declarations[m] = y BY <2>1, RequiredFirst
    <3> QED BY <2>1, <3>1
  <2>3. CASE conn[p]
    <3>1. pc' = [pc EXCEPT ![p] = IF n = Len(Declarations) THEN Prepared(p) ELSE @]
      BY <1>4, <2>2, <2>3 DEF Declare
    <3> QED BY <1>1, <1>4, <3>1 DEF Declare, Prepared
  <2> QED BY <1>4, <2>3 DEF Declare
<1>5. CASE PingDB(p) \/ CheckBucket(p) \/ MakeBucket(p) \/ RecheckBucket(p) \/ Dial(p)
  BY <1>1, <1>5 DEF PingDB, CheckBucket, MakeBucket, RecheckBucket, Dial, Goto, End, Answers
<1>6. CASE \/ Begin(p) \/ Apply(p) \/ Listen(p) \/ StopConsuming(p) \/ StopListening(p)
           \/ Drained(p) \/ ShutdownTimeout(p) \/ ClosePublisher(p) \/ Exit(p)
  BY <1>1, <1>6 DEF Begin, Apply, Migrated, Listen, StopConsuming, StopListening, Drained,
     ShutdownTimeout, ClosePublisher, Exit, Goto, End
<1> QED BY <1>2, <1>3, <1>4, <1>5, <1>6 DEF ProcessStep

\* StartupFailsForCause: no process fails to start because of another one that
\* is doing the same work.
THEOREM StartupRacesHarmless == ProcessSpec => StartupFailsForCause
<1>1. ProcessInv /\ [ProcessNext]_vars =>
        [\A p \in Process :
           pc[p] \in Startup /\ pc'[p] = "down" /\ UNCHANGED countVars =>
             \/ stopping[p] \/ up # Dependency
             \/ pc[p] = "migrate" /\ schema = "dirty"
             \/ pc[p] = "recheckBucket" /\ ~bucket
             \/ pc[p] = "declare" /\ ~conn[p]]_vars
  BY CauseStep
<1> QED BY <1>1, ProcessInvariant, PTL DEF ProcessSpec, StartupFailsForCause

=============================================================================
