------------------------------ MODULE Consumer ------------------------------
(***************************************************************************)
(* The worker side of the message broker: internal/broker/consumer.go and  *)
(* the run loop of cmd/worker/main.go, with the part of RabbitMQ they rely *)
(* on (queues, unacknowledged deliveries, the dead-letter queue).          *)
(*                                                                         *)
(* A worker process holds one connection and runs one loop per work queue. *)
(* Both loops share the errgroup's context: it is canceled by a signal or  *)
(* by the first loop that returns an error.  A loop handles one message at *)
(* a time: it calls the handler, retries with a backoff, and ends with an  *)
(* acknowledgement, a requeue or a dead-lettering.                         *)
(*                                                                         *)
(* What a handler does is left open here (it succeeds or fails); module    *)
(* GophProfile replaces it by the processor.  The order of messages inside *)
(* a queue is abstracted to a set: requeues and two competing workers      *)
(* break it anyway.                                                        *)
(***************************************************************************)
EXTENDS Naturals, FiniteSets

CONSTANTS Message,         \* every message that may be published, each once
          NoMessage,       \* what a loop holds between two messages
          Queue,           \* the work queues
          Route,           \* the work queue of a message (its routing key)
          CallbackQueue,   \* the queues whose loop has a "dead" callback
          Worker,          \* the worker processes
          Prefetch,        \* NewConsumer's prefetch: unacknowledged deliveries per loop
          MaxRetries,      \* the length of the backoff schedule
          MaxDisruptions   \* bound on signals, lost connections and crashes

ASSUME RouteAssumption == Route \in [Message -> Queue]
ASSUME NoMessageAssumption == NoMessage \notin Message
ASSUME CallbackAssumption == CallbackQueue \subseteq Queue
ASSUME BoundsAssumption == /\ Prefetch \in Nat \ {0}
                           /\ MaxRetries \in Nat
                           /\ MaxDisruptions \in Nat

VARIABLES
  ready,        \* broker: messages waiting in a work queue
  dead,         \* broker: messages in the dead-letter queue
  buffer,       \* buffer[l]: deliveries loop l has not taken yet
  cur,          \* cur[l]: the message loop l works on
  pc,           \* pc[l]: where loop l is
  attempt,      \* attempt[l]: withRetry's counter
  conn,         \* conn[w]: the connection of worker w
  ctx,          \* ctx[w]: the context of worker w's loops
  disruptions,  \* how many disruptions happened
  published,    \* history: messages handed to the broker
  handled,      \* history: messages for which a handler returned nil
  acked,        \* history: messages the broker saw acknowledged
  failures      \* failures[l]: handler errors for cur[l] under a live context

brokerVars == <<ready, dead, acked>>
loopVars == <<buffer, cur, pc, attempt, failures>>
workerVars == <<conn, ctx>>
historyVars == <<published, handled>>
consumerVars == <<brokerVars, loopVars, workerVars, historyVars, disruptions>>

Loop == Worker \X Queue
LoopState == {"select", "handle", "backoff", "failed", "callback", "ack", "nack", "done"}

Live(w) == ctx[w] = "live"
Connected(w) == conn[w] = "up"
LoopsOf(w) == {l \in Loop : l[1] = w}

\* What the broker holds as delivered to loop l and not yet acknowledged.
Unacked(l) == IF Connected(l[1]) THEN (buffer[l] \cup {cur[l]}) \ {NoMessage} ELSE {}

ConsumerTypeOK ==
  /\ ready \subseteq Message /\ dead \subseteq Message
  /\ published \subseteq Message /\ handled \subseteq Message /\ acked \subseteq Message
  /\ buffer \in [Loop -> SUBSET Message]
  /\ cur \in [Loop -> Message \cup {NoMessage}]
  /\ pc \in [Loop -> LoopState]
  /\ attempt \in [Loop -> 0..MaxRetries]
  /\ failures \in [Loop -> 0..(MaxRetries + 1)]
  /\ conn \in [Worker -> {"up", "down"}]
  /\ ctx \in [Worker -> {"live", "canceled"}]
  /\ disruptions \in 0..MaxDisruptions

ConsumerInit ==
  /\ ready = {} /\ dead = {}
  /\ published = {} /\ handled = {} /\ acked = {}
  /\ buffer = [l \in Loop |-> {}]
  /\ cur = [l \in Loop |-> NoMessage]
  /\ pc = [l \in Loop |-> "select"]
  /\ attempt = [l \in Loop |-> 0]
  /\ failures = [l \in Loop |-> 0]
  /\ conn = [w \in Worker |-> "up"]
  /\ ctx = [w \in Worker |-> "live"]
  /\ disruptions = 0

-----------------------------------------------------------------------------
(* The broker. *)

\* A publisher's message reaches its work queue.
Enqueue(m) ==
  /\ m \notin published
  /\ published' = published \cup {m}
  /\ ready' = ready \cup {m}
  /\ UNCHANGED <<dead, acked, loopVars, workerVars, handled, disruptions>>

\* Faulty Deliver: the queue is consumed with autoAck.
DeliverAutoAck(l, m) ==
  /\ Connected(l[1])
  /\ m \in ready /\ Route[m] = l[2]
  /\ ready' = ready \ {m}
  /\ acked' = acked \cup {m}
  /\ buffer' = [buffer EXCEPT ![l] = @ \cup {m}]
  /\ UNCHANGED <<dead, cur, pc, attempt, failures, workerVars, historyVars, disruptions>>

\* The broker pushes a message to a consumer that has prefetch left.
Deliver(l, m) ==
  /\ Connected(l[1])
  /\ m \in ready /\ Route[m] = l[2]
  /\ Cardinality(Unacked(l)) < Prefetch
  /\ ready' = ready \ {m}
  /\ buffer' = [buffer EXCEPT ![l] = @ \cup {m}]
  /\ UNCHANGED <<dead, acked, cur, pc, attempt, failures, workerVars, historyVars, disruptions>>

-----------------------------------------------------------------------------
(* One loop: select, process, withRetry. *)

Goto(l, label) == pc' = [pc EXCEPT ![l] = label]

\* process returns: the loop goes back to its select.
Release(l) ==
  /\ Goto(l, "select")
  /\ cur' = [cur EXCEPT ![l] = NoMessage]
  /\ attempt' = [attempt EXCEPT ![l] = 0]
  /\ failures' = [failures EXCEPT ![l] = 0]

\* select picks a delivery; with a canceled context either case may be
\* picked, and a closed connection leaves taken deliveries in the channel.
Take(l, m) ==
  /\ pc[l] = "select" /\ m \in buffer[l]
  /\ Goto(l, "handle")
  /\ buffer' = [buffer EXCEPT ![l] = @ \ {m}]
  /\ cur' = [cur EXCEPT ![l] = m]
  /\ UNCHANGED <<brokerVars, attempt, failures, workerVars, historyVars, disruptions>>

\* select sees the canceled context: the loop returns ctx.Err().
StopLoop(l) ==
  /\ pc[l] = "select" /\ ~Live(l[1])
  /\ Goto(l, "done")
  /\ UNCHANGED <<brokerVars, buffer, cur, attempt, failures, workerVars, historyVars, disruptions>>

\* Faulty LoseChannel: the loop returns without an error.
LoseChannelQuietly(l) ==
  /\ pc[l] = "select" /\ ~Connected(l[1])
  /\ Goto(l, "done")
  /\ buffer' = [buffer EXCEPT ![l] = {}]
  /\ UNCHANGED <<brokerVars, cur, attempt, failures, workerVars, historyVars, disruptions>>

\* select sees the closed delivery channel: with a live context the loop
\* returns an error, which cancels the context it shares with the other loop.
LoseChannel(l) ==
  /\ pc[l] = "select" /\ ~Connected(l[1])
  /\ Goto(l, "done")
  /\ ctx' = [ctx EXCEPT ![l[1]] = "canceled"]
  /\ buffer' = [buffer EXCEPT ![l] = {}]
  /\ UNCHANGED <<brokerVars, cur, attempt, failures, conn, historyVars, disruptions>>

\* The handler returns nil.
HandlerOK(l) ==
  /\ pc[l] = "handle"
  /\ Goto(l, "ack")
  /\ handled' = handled \cup {cur[l]}
  /\ UNCHANGED <<brokerVars, buffer, cur, attempt, failures, workerVars, published, disruptions>>

\* Faulty HandlerFails: one retry too many.
HandlerFailsOnceMore(l) ==
  /\ pc[l] = "handle"
  /\ Goto(l, IF attempt[l] > MaxRetries \/ ~Live(l[1]) THEN "failed" ELSE "backoff")
  /\ failures' = [failures EXCEPT ![l] = IF Live(l[1]) THEN @ + 1 ELSE @]
  /\ UNCHANGED <<brokerVars, buffer, cur, attempt, workerVars, historyVars, disruptions>>

\* Faulty HandlerFails: withRetry returns nil when the retries are used up.
HandlerFailsSilently(l) ==
  /\ pc[l] = "handle"
  /\ Goto(l, IF attempt[l] >= MaxRetries \/ ~Live(l[1]) THEN "ack" ELSE "backoff")
  /\ failures' = [failures EXCEPT ![l] = IF Live(l[1]) THEN @ + 1 ELSE @]
  /\ UNCHANGED <<brokerVars, buffer, cur, attempt, workerVars, historyVars, disruptions>>

\* The handler returns an error: withRetry waits before the next attempt,
\* or gives up after the last one or when the context is canceled.
HandlerFails(l) ==
  /\ pc[l] = "handle"
  /\ Goto(l, IF attempt[l] >= MaxRetries \/ ~Live(l[1]) THEN "failed" ELSE "backoff")
  /\ failures' = [failures EXCEPT ![l] = IF Live(l[1]) THEN @ + 1 ELSE @]
  /\ UNCHANGED <<brokerVars, buffer, cur, attempt, workerVars, historyVars, disruptions>>

\* The backoff timer fires: the next attempt starts.
Retry(l) ==
  /\ pc[l] = "backoff"
  /\ Goto(l, "handle")
  /\ attempt' = [attempt EXCEPT ![l] = @ + 1]
  /\ UNCHANGED <<brokerVars, buffer, cur, failures, workerVars, historyVars, disruptions>>

\* The context is canceled while the loop waits: withRetry returns the error.
BackoffCanceled(l) ==
  /\ pc[l] = "backoff" /\ ~Live(l[1])
  /\ Goto(l, "failed")
  /\ UNCHANGED <<brokerVars, buffer, cur, attempt, failures, workerVars, historyVars, disruptions>>

\* Ack(false): the broker forgets the message if the connection still stands.
Ack(l) ==
  /\ pc[l] = "ack"
  /\ acked' = IF Connected(l[1]) THEN acked \cup {cur[l]} ELSE acked
  /\ Release(l)
  /\ UNCHANGED <<ready, dead, buffer, workerVars, historyVars, disruptions>>

\* A canceled context means shutdown: Nack with requeue.
Requeue(l) ==
  /\ pc[l] = "failed" /\ ~Live(l[1])
  /\ ready' = IF Connected(l[1]) THEN ready \cup {cur[l]} ELSE ready
  /\ Release(l)
  /\ UNCHANGED <<dead, acked, buffer, workerVars, historyVars, disruptions>>

\* Faulty GiveUp: the context is not looked at.
GiveUpAnyway(l) ==
  /\ pc[l] = "failed"
  /\ Goto(l, IF l[2] \in CallbackQueue THEN "callback" ELSE "nack")
  /\ UNCHANGED <<brokerVars, buffer, cur, attempt, failures, workerVars, historyVars, disruptions>>

\* Exhausted retries under a live context: the dead callback, if any, runs
\* before the message is rejected.
GiveUp(l) ==
  /\ pc[l] = "failed" /\ Live(l[1])
  /\ Goto(l, IF l[2] \in CallbackQueue THEN "callback" ELSE "nack")
  /\ UNCHANGED <<brokerVars, buffer, cur, attempt, failures, workerVars, historyVars, disruptions>>

\* The dead callback returns.
CallbackReturns(l) ==
  /\ pc[l] = "callback"
  /\ Goto(l, "nack")
  /\ UNCHANGED <<brokerVars, buffer, cur, attempt, failures, workerVars, historyVars, disruptions>>

\* Faulty Bury: the queue was declared without a dead-letter exchange.
BuryUnrouted(l) ==
  /\ pc[l] = "nack"
  /\ Release(l)
  /\ UNCHANGED <<brokerVars, buffer, workerVars, historyVars, disruptions>>

\* Nack without requeue: the broker moves the message to the dead queue.
Bury(l) ==
  /\ pc[l] = "nack"
  /\ dead' = IF Connected(l[1]) THEN dead \cup {cur[l]} ELSE dead
  /\ Release(l)
  /\ UNCHANGED <<ready, acked, buffer, workerVars, historyVars, disruptions>>

-----------------------------------------------------------------------------
(* The process and its connection. *)

\* The connection ends: the broker requeues what it holds as unacknowledged.
Disconnect(w) ==
  /\ conn' = [conn EXCEPT ![w] = "down"]
  /\ ready' = ready \cup UNION {Unacked(l) : l \in LoopsOf(w)}

Disrupt == disruptions < MaxDisruptions /\ disruptions' = disruptions + 1

\* SIGTERM (or a failing metrics listener) cancels the context.
Terminate(w) ==
  /\ Live(w) /\ \E l \in LoopsOf(w) : pc[l] # "done"
  /\ Disrupt
  /\ ctx' = [ctx EXCEPT ![w] = "canceled"]
  /\ UNCHANGED <<brokerVars, loopVars, conn, historyVars>>

\* Run's third goroutine closes the connection once the context is canceled.
CloseConn(w) ==
  /\ ~Live(w) /\ Connected(w)
  /\ Disconnect(w)
  /\ UNCHANGED <<dead, acked, loopVars, ctx, historyVars, disruptions>>

\* The broker or the network drops the connection.
LoseConn(w) ==
  /\ Connected(w)
  /\ Disrupt
  /\ Disconnect(w)
  /\ UNCHANGED <<dead, acked, loopVars, ctx, historyVars>>

\* The process dies: everything it had in memory is gone.
Crash(w) ==
  /\ \E l \in LoopsOf(w) : pc[l] # "done"
  /\ Disrupt
  /\ Disconnect(w)
  /\ ctx' = [ctx EXCEPT ![w] = "canceled"]
  /\ buffer' = [l \in Loop |-> IF l[1] = w THEN {} ELSE buffer[l]]
  /\ cur' = [l \in Loop |-> IF l[1] = w THEN NoMessage ELSE cur[l]]
  /\ pc' = [l \in Loop |-> IF l[1] = w THEN "done" ELSE pc[l]]
  /\ attempt' = [l \in Loop |-> IF l[1] = w THEN 0 ELSE attempt[l]]
  /\ failures' = [l \in Loop |-> IF l[1] = w THEN 0 ELSE failures[l]]
  /\ UNCHANGED <<dead, acked, historyVars>>

\* Run has returned, its third goroutine included, the process exited and the
\* Deployment starts it again.
Restart(w) ==
  /\ ~Live(w) /\ ~Connected(w) /\ \A l \in LoopsOf(w) : pc[l] = "done"
  /\ conn' = [conn EXCEPT ![w] = "up"]
  /\ ctx' = [ctx EXCEPT ![w] = "live"]
  /\ pc' = [l \in Loop |-> IF l[1] = w THEN "select" ELSE pc[l]]
  /\ buffer' = [l \in Loop |-> IF l[1] = w THEN {} ELSE buffer[l]]
  /\ UNCHANGED <<brokerVars, cur, attempt, failures, historyVars, disruptions>>

-----------------------------------------------------------------------------
(* The consumer on its own, with a handler that may do anything. *)

HandlerStep(l) == HandlerOK(l) \/ HandlerFails(l) \/ CallbackReturns(l)

\* The steps of a loop that do not depend on what the handler does.
PlainLoopStep(l) ==
  \/ StopLoop(l) \/ LoseChannel(l)
  \/ BackoffCanceled(l) \/ Ack(l) \/ Requeue(l) \/ GiveUp(l) \/ Bury(l)

LoopStep(l) ==
  \/ \E m \in Message : Take(l, m)
  \/ Retry(l)
  \/ PlainLoopStep(l)
  \/ HandlerStep(l)

\* Run's housekeeping, which no handler interferes with.
RunStep(w) == CloseConn(w) \/ Restart(w)

Disruption(w) == Terminate(w) \/ LoseConn(w) \/ Crash(w)

Next ==
  \/ \E m \in Message : Enqueue(m)
  \/ \E l \in Loop, m \in Message : Deliver(l, m)
  \/ \E l \in Loop : LoopStep(l)
  \/ \E w \in Worker : RunStep(w)
  \/ \E w \in Worker : Disruption(w)

Spec == ConsumerInit /\ [][Next]_consumerVars

\* The goroutines run, the broker delivers, Kubernetes restarts the process.
ConsumerFairness ==
  /\ \A l \in Loop : /\ WF_consumerVars(LoopStep(l))
                     /\ WF_consumerVars(\E m \in Message : Deliver(l, m))
  /\ \A w \in Worker : WF_consumerVars(RunStep(w))

FairSpec == Spec /\ ConsumerFairness

-----------------------------------------------------------------------------
(* Properties *)

\* The books of one loop: it holds a message exactly while it is in process(),
\* and under a live context `failures` counts every failed attempt so far.
LoopBooks(l) ==
  /\ (cur[l] = NoMessage) <=> (pc[l] \in {"select", "done"})
  /\ pc[l] \in {"select", "done"} => attempt[l] = 0 /\ failures[l] = 0
  /\ pc[l] = "handle" /\ Live(l[1]) => failures[l] = attempt[l]
  /\ pc[l] = "backoff" => attempt[l] < MaxRetries
  /\ pc[l] = "backoff" /\ Live(l[1]) => failures[l] = attempt[l] + 1
  /\ pc[l] = "failed" /\ Live(l[1]) => failures[l] = MaxRetries + 1
  /\ pc[l] \in {"callback", "nack"} => failures[l] = MaxRetries + 1

\* Nothing circulates that was not published, nor reaches the wrong loop.
Issued ==
  /\ ready \cup dead \cup acked \subseteq published
  /\ \A l \in Loop :
       /\ buffer[l] \subseteq published
       /\ cur[l] \in published \cup {NoMessage}
       /\ \A m \in buffer[l] : Route[m] = l[2]
       /\ cur[l] # NoMessage => Route[cur[l]] = l[2]

\* NothingLost: a published message is always somewhere: in its work queue,
\* delivered and unacknowledged, acknowledged, or in the dead queue.  Closing
\* or losing the connection at any point of process() must not drop it.
NothingLost ==
  \A m \in published :
    m \in ready \cup dead \cup acked \/ \E l \in Loop : m \in Unacked(l)

\* NothingDoubled: the broker never holds a message twice, and never hands out
\* one that is settled.  A worker whose connection is gone may still work on a
\* copy, but its Ack and Nack must not reach the broker's books.
NothingDoubled ==
  /\ ready \cap dead = {} /\ ready \cap acked = {} /\ dead \cap acked = {}
  /\ \A l \in Loop :
       /\ Unacked(l) \cap (ready \cup dead \cup acked) = {}
       /\ Connected(l[1]) => cur[l] \notin buffer[l]
       /\ \A k \in Loop : k # l => Unacked(l) \cap Unacked(k) = {}

\* The inductive invariant.
ConsumerInv ==
  ConsumerTypeOK /\ (\A l \in Loop : LoopBooks(l)) /\ Issued /\ NothingLost /\ NothingDoubled

\* BuriedOnlyAfterLiveFailures: a message goes to the dead queue only after one
\* attempt and MaxRetries retries that all failed while the context was live.
\* "A canceled context means shutdown, not a bad message": neither a shutdown
\* nor a lost connection ever turns into a dead letter.
BuriedOnlyAfterLiveFailures ==
  [][\A m \in dead' \ dead :
       \E l \in Loop : cur[l] = m /\ failures[l] = MaxRetries + 1]_consumerVars

\* AtLeastOnce: the consumer implements the delivery promise of module Delivery,
\* the promise that everything published ends acknowledged or dead included.
Fate(m) == CASE m \in acked -> "acked"
             [] m \in dead -> "dead"
             [] m \in published \ (acked \cup dead) -> "pending"
             [] OTHER -> "unsent"

Promise == INSTANCE Delivery WITH fate <- [m \in Message |-> Fate(m)]

AtLeastOnce == Promise!Spec

\* A loop acknowledges what a handler has finished.
AckBooks == \A l \in Loop : pc[l] = "ack" => cur[l] \in handled

\* WorkerRecovers: after a signal, a lost connection or a crash the worker
\* consumes again; no order of the loops' exits leaves the process half alive,
\* with one loop gone or the connection closed for ever.
WorkerRecovers ==
  \A w \in Worker :
    (~Connected(w) \/ ~Live(w))
      ~> (Connected(w) /\ Live(w) /\ \A l \in LoopsOf(w) : pc[l] # "done")

=============================================================================
