-------------------------- MODULE Consumer_proofs ---------------------------
(***************************************************************************)
(* Proofs about module Consumer, for every set of messages and workers and *)
(* every prefetch, retry schedule and number of disruptions.               *)
(***************************************************************************)
EXTENDS Consumer, TLAPS

Books == \A l \in Loop : LoopBooks(l)

\* When a connection ends, the broker's queue gains what was unacknowledged on it.
LEMMA DisconnectReady ==
  ASSUME NEW w \in Worker, Disconnect(w)
  PROVE  \A m : m \in ready' <=> m \in ready \/ \E l \in LoopsOf(w) : m \in Unacked(l)
  BY DEF Disconnect

\* The broker holds only messages.
LEMMA UnackedMessages ==
  ASSUME ConsumerTypeOK, NEW l \in Loop
  PROVE  Unacked(l) \subseteq Message
  BY DEF ConsumerTypeOK, Unacked, Loop

\* Every step keeps the types; withRetry's counters stay in range by the books.
LEMMA TypeStep ==
  ASSUME ConsumerTypeOK, Books, [Next]_consumerVars
  PROVE  ConsumerTypeOK'
  <1> USE DEF ConsumerTypeOK, Loop, LoopState, Books, LoopBooks, Live,
       brokerVars, loopVars, workerVars, historyVars
  <1>1. CASE UNCHANGED consumerVars
    BY <1>1, BoundsAssumption DEF consumerVars
  <1>2. ASSUME NEW m \in Message, Enqueue(m) PROVE ConsumerTypeOK'
    BY <1>2, BoundsAssumption DEF Enqueue
  <1>3. ASSUME NEW l \in Loop, NEW m \in Message, Deliver(l, m) PROVE ConsumerTypeOK'
    BY <1>3, BoundsAssumption DEF Deliver
  <1>4. ASSUME NEW l \in Loop, NEW m \in Message, Take(l, m) PROVE ConsumerTypeOK'
    BY <1>4, BoundsAssumption DEF Take, Goto
  <1>5. ASSUME NEW l \in Loop, StopLoop(l) PROVE ConsumerTypeOK'
    BY <1>5, BoundsAssumption DEF StopLoop, Goto
  <1>6. ASSUME NEW l \in Loop, LoseChannel(l) PROVE ConsumerTypeOK'
    BY <1>6, BoundsAssumption DEF LoseChannel, Goto
  <1>7. ASSUME NEW l \in Loop, HandlerOK(l) PROVE ConsumerTypeOK'
    BY <1>7, BoundsAssumption DEF HandlerOK, Goto
  <1>8. ASSUME NEW l \in Loop, HandlerFails(l) PROVE ConsumerTypeOK'
    BY <1>8, BoundsAssumption DEF HandlerFails, Goto
  <1>9. ASSUME NEW l \in Loop, Retry(l) PROVE ConsumerTypeOK'
    BY <1>9, BoundsAssumption DEF Retry, Goto
  <1>10. ASSUME NEW l \in Loop, BackoffCanceled(l) PROVE ConsumerTypeOK'
    BY <1>10, BoundsAssumption DEF BackoffCanceled, Goto
  <1>11. ASSUME NEW l \in Loop, Ack(l) PROVE ConsumerTypeOK'
    BY <1>11, BoundsAssumption DEF Ack, Goto, Release
  <1>12. ASSUME NEW l \in Loop, Requeue(l) PROVE ConsumerTypeOK'
    BY <1>12, BoundsAssumption DEF Requeue, Goto, Release
  <1>13. ASSUME NEW l \in Loop, GiveUp(l) PROVE ConsumerTypeOK'
    BY <1>13, BoundsAssumption DEF GiveUp, Goto
  <1>14. ASSUME NEW l \in Loop, CallbackReturns(l) PROVE ConsumerTypeOK'
    BY <1>14, BoundsAssumption DEF CallbackReturns, Goto
  <1>15. ASSUME NEW l \in Loop, Bury(l) PROVE ConsumerTypeOK'
    BY <1>15, BoundsAssumption DEF Bury, Goto, Release
  <1>16. ASSUME NEW w \in Worker, CloseConn(w) PROVE ConsumerTypeOK'
    BY <1>16, BoundsAssumption, DisconnectReady, UnackedMessages DEF CloseConn, Disconnect, LoopsOf
  <1>17. ASSUME NEW w \in Worker, LoseConn(w) PROVE ConsumerTypeOK'
    BY <1>17, BoundsAssumption, DisconnectReady, UnackedMessages DEF LoseConn, Disconnect, LoopsOf, Disrupt
  <1>18. ASSUME NEW w \in Worker, Restart(w) PROVE ConsumerTypeOK'
    BY <1>18, BoundsAssumption DEF Restart, LoopsOf
  <1>19. ASSUME NEW w \in Worker, Terminate(w) PROVE ConsumerTypeOK'
    BY <1>19, BoundsAssumption DEF Terminate, LoopsOf, Disrupt
  <1>20. ASSUME NEW w \in Worker, Crash(w) PROVE ConsumerTypeOK'
    BY <1>20, BoundsAssumption, DisconnectReady, UnackedMessages DEF Crash, Disconnect, LoopsOf, Disrupt
  <1>21. QED
    BY <1>1, <1>2, <1>3, <1>4, <1>5, <1>6, <1>7, <1>8, <1>9, <1>10, <1>11, <1>12, <1>13, <1>14, <1>15, <1>16, <1>17, <1>18, <1>19, <1>20
      DEF Next, LoopStep, PlainLoopStep, HandlerStep, RunStep, Disruption

\* Every step keeps each loop's books.
LEMMA BooksStep ==
  ASSUME ConsumerTypeOK, Books, [Next]_consumerVars
  PROVE  Books'
  <1> USE DEF ConsumerTypeOK, Loop, LoopState, Books, LoopBooks, Live,
       brokerVars, loopVars, workerVars, historyVars
  <1>1. CASE UNCHANGED consumerVars
    BY <1>1, BoundsAssumption, NoMessageAssumption DEF consumerVars
  <1>2. ASSUME NEW m \in Message, Enqueue(m) PROVE Books'
    BY <1>2, BoundsAssumption, NoMessageAssumption DEF Enqueue
  <1>3. ASSUME NEW l \in Loop, NEW m \in Message, Deliver(l, m) PROVE Books'
    BY <1>3, BoundsAssumption, NoMessageAssumption DEF Deliver
  <1>4. ASSUME NEW l \in Loop, NEW m \in Message, Take(l, m) PROVE Books'
    BY <1>4, BoundsAssumption, NoMessageAssumption DEF Take, Goto
  <1>5. ASSUME NEW l \in Loop, StopLoop(l) PROVE Books'
    BY <1>5, BoundsAssumption, NoMessageAssumption DEF StopLoop, Goto
  <1>6. ASSUME NEW l \in Loop, LoseChannel(l) PROVE Books'
    BY <1>6, BoundsAssumption, NoMessageAssumption DEF LoseChannel, Goto
  <1>7. ASSUME NEW l \in Loop, HandlerOK(l) PROVE Books'
    BY <1>7, BoundsAssumption, NoMessageAssumption DEF HandlerOK, Goto
  <1>8. ASSUME NEW l \in Loop, HandlerFails(l) PROVE Books'
    BY <1>8, BoundsAssumption, NoMessageAssumption DEF HandlerFails, Goto
  <1>9. ASSUME NEW l \in Loop, Retry(l) PROVE Books'
    BY <1>9, BoundsAssumption, NoMessageAssumption DEF Retry, Goto
  <1>10. ASSUME NEW l \in Loop, BackoffCanceled(l) PROVE Books'
    BY <1>10, BoundsAssumption, NoMessageAssumption DEF BackoffCanceled, Goto
  <1>11. ASSUME NEW l \in Loop, Ack(l) PROVE Books'
    BY <1>11, BoundsAssumption, NoMessageAssumption DEF Ack, Goto, Release
  <1>12. ASSUME NEW l \in Loop, Requeue(l) PROVE Books'
    BY <1>12, BoundsAssumption, NoMessageAssumption DEF Requeue, Goto, Release
  <1>13. ASSUME NEW l \in Loop, GiveUp(l) PROVE Books'
    BY <1>13, BoundsAssumption, NoMessageAssumption DEF GiveUp, Goto
  <1>14. ASSUME NEW l \in Loop, CallbackReturns(l) PROVE Books'
    BY <1>14, BoundsAssumption, NoMessageAssumption DEF CallbackReturns, Goto
  <1>15. ASSUME NEW l \in Loop, Bury(l) PROVE Books'
    BY <1>15, BoundsAssumption, NoMessageAssumption DEF Bury, Goto, Release
  <1>16. ASSUME NEW w \in Worker, CloseConn(w) PROVE Books'
    BY <1>16, BoundsAssumption, NoMessageAssumption DEF CloseConn, Disconnect, LoopsOf
  <1>17. ASSUME NEW w \in Worker, LoseConn(w) PROVE Books'
    BY <1>17, BoundsAssumption, NoMessageAssumption DEF LoseConn, Disconnect, LoopsOf, Disrupt
  <1>18. ASSUME NEW w \in Worker, Restart(w) PROVE Books'
    BY <1>18, BoundsAssumption, NoMessageAssumption DEF Restart, LoopsOf
  <1>19. ASSUME NEW w \in Worker, Terminate(w) PROVE Books'
    BY <1>19, BoundsAssumption, NoMessageAssumption DEF Terminate, LoopsOf, Disrupt
  <1>20. ASSUME NEW w \in Worker, Crash(w) PROVE Books'
    BY <1>20, BoundsAssumption, NoMessageAssumption DEF Crash, Disconnect, LoopsOf, Disrupt
  <1>21. QED
    BY <1>1, <1>2, <1>3, <1>4, <1>5, <1>6, <1>7, <1>8, <1>9, <1>10, <1>11, <1>12, <1>13, <1>14, <1>15, <1>16, <1>17, <1>18, <1>19, <1>20
      DEF Next, LoopStep, PlainLoopStep, HandlerStep, RunStep, Disruption

\* Every step moves published messages only, and to loops of their own queue.
LEMMA IssuedStep ==
  ASSUME ConsumerTypeOK, Books, Issued, [Next]_consumerVars
  PROVE  Issued'
  <1> USE DEF ConsumerTypeOK, Loop, LoopState, Books, LoopBooks, Issued, Unacked, Connected,
       brokerVars, loopVars, workerVars, historyVars
  <1>1. CASE UNCHANGED consumerVars
    BY <1>1, NoMessageAssumption DEF consumerVars
  <1>2. ASSUME NEW m \in Message, Enqueue(m) PROVE Issued'
    BY <1>2, NoMessageAssumption DEF Enqueue
  <1>3. ASSUME NEW l \in Loop, NEW m \in Message, Deliver(l, m) PROVE Issued'
    BY <1>3, NoMessageAssumption DEF Deliver
  <1>4. ASSUME NEW l \in Loop, NEW m \in Message, Take(l, m) PROVE Issued'
    BY <1>4, NoMessageAssumption DEF Take, Goto
  <1>5. ASSUME NEW l \in Loop, StopLoop(l) PROVE Issued'
    BY <1>5, NoMessageAssumption DEF StopLoop, Goto
  <1>6. ASSUME NEW l \in Loop, LoseChannel(l) PROVE Issued'
    BY <1>6, NoMessageAssumption DEF LoseChannel, Goto
  <1>7. ASSUME NEW l \in Loop, HandlerOK(l) PROVE Issued'
    BY <1>7, NoMessageAssumption DEF HandlerOK, Goto
  <1>8. ASSUME NEW l \in Loop, HandlerFails(l) PROVE Issued'
    BY <1>8, NoMessageAssumption DEF HandlerFails, Goto
  <1>9. ASSUME NEW l \in Loop, Retry(l) PROVE Issued'
    BY <1>9, NoMessageAssumption DEF Retry, Goto
  <1>10. ASSUME NEW l \in Loop, BackoffCanceled(l) PROVE Issued'
    BY <1>10, NoMessageAssumption DEF BackoffCanceled, Goto
  <1>11. ASSUME NEW l \in Loop, Ack(l) PROVE Issued'
    BY <1>11, NoMessageAssumption DEF Ack, Goto, Release
  <1>12. ASSUME NEW l \in Loop, Requeue(l) PROVE Issued'
    BY <1>12, NoMessageAssumption DEF Requeue, Goto, Release
  <1>13. ASSUME NEW l \in Loop, GiveUp(l) PROVE Issued'
    BY <1>13, NoMessageAssumption DEF GiveUp, Goto
  <1>14. ASSUME NEW l \in Loop, CallbackReturns(l) PROVE Issued'
    BY <1>14, NoMessageAssumption DEF CallbackReturns, Goto
  <1>15. ASSUME NEW l \in Loop, Bury(l) PROVE Issued'
    BY <1>15, NoMessageAssumption DEF Bury, Goto, Release
  <1>16. ASSUME NEW w \in Worker, CloseConn(w) PROVE Issued'
    BY <1>16, NoMessageAssumption, DisconnectReady DEF CloseConn, Disconnect, LoopsOf
  <1>17. ASSUME NEW w \in Worker, LoseConn(w) PROVE Issued'
    BY <1>17, NoMessageAssumption, DisconnectReady DEF LoseConn, Disconnect, LoopsOf, Disrupt
  <1>18. ASSUME NEW w \in Worker, Restart(w) PROVE Issued'
    BY <1>18, NoMessageAssumption DEF Restart, LoopsOf
  <1>19. ASSUME NEW w \in Worker, Terminate(w) PROVE Issued'
    BY <1>19, NoMessageAssumption DEF Terminate, LoopsOf, Disrupt
  <1>20. ASSUME NEW w \in Worker, Crash(w) PROVE Issued'
    BY <1>20, NoMessageAssumption, DisconnectReady DEF Crash, Disconnect, LoopsOf, Disrupt
  <1>21. QED
    BY <1>1, <1>2, <1>3, <1>4, <1>5, <1>6, <1>7, <1>8, <1>9, <1>10, <1>11, <1>12, <1>13, <1>14, <1>15, <1>16, <1>17, <1>18, <1>19, <1>20
      DEF Next, LoopStep, PlainLoopStep, HandlerStep, RunStep, Disruption

\* Every step keeps hold of every published message.
LEMMA LostStep ==
  ASSUME ConsumerTypeOK, Books, Issued, NothingLost, [Next]_consumerVars
  PROVE  NothingLost'
  <1> USE DEF ConsumerTypeOK, Loop, LoopState, Books, LoopBooks, Issued, NothingLost, Unacked, Connected,
       brokerVars, loopVars, workerVars, historyVars
  <1>1. CASE UNCHANGED consumerVars
    BY <1>1, NoMessageAssumption DEF consumerVars
  <1>2. ASSUME NEW m \in Message, Enqueue(m) PROVE NothingLost'
    BY <1>2, NoMessageAssumption DEF Enqueue
  <1>3. ASSUME NEW l \in Loop, NEW m \in Message, Deliver(l, m) PROVE NothingLost'
    BY <1>3, NoMessageAssumption DEF Deliver
  <1>4. ASSUME NEW l \in Loop, NEW m \in Message, Take(l, m) PROVE NothingLost'
    BY <1>4, NoMessageAssumption DEF Take, Goto
  <1>5. ASSUME NEW l \in Loop, StopLoop(l) PROVE NothingLost'
    BY <1>5, NoMessageAssumption DEF StopLoop, Goto
  <1>6. ASSUME NEW l \in Loop, LoseChannel(l) PROVE NothingLost'
    BY <1>6, NoMessageAssumption DEF LoseChannel, Goto
  <1>7. ASSUME NEW l \in Loop, HandlerOK(l) PROVE NothingLost'
    BY <1>7, NoMessageAssumption DEF HandlerOK, Goto
  <1>8. ASSUME NEW l \in Loop, HandlerFails(l) PROVE NothingLost'
    BY <1>8, NoMessageAssumption DEF HandlerFails, Goto
  <1>9. ASSUME NEW l \in Loop, Retry(l) PROVE NothingLost'
    BY <1>9, NoMessageAssumption DEF Retry, Goto
  <1>10. ASSUME NEW l \in Loop, BackoffCanceled(l) PROVE NothingLost'
    BY <1>10, NoMessageAssumption DEF BackoffCanceled, Goto
  <1>11. ASSUME NEW l \in Loop, Ack(l) PROVE NothingLost'
    BY <1>11, NoMessageAssumption DEF Ack, Goto, Release
  <1>12. ASSUME NEW l \in Loop, Requeue(l) PROVE NothingLost'
    BY <1>12, NoMessageAssumption DEF Requeue, Goto, Release
  <1>13. ASSUME NEW l \in Loop, GiveUp(l) PROVE NothingLost'
    BY <1>13, NoMessageAssumption DEF GiveUp, Goto
  <1>14. ASSUME NEW l \in Loop, CallbackReturns(l) PROVE NothingLost'
    BY <1>14, NoMessageAssumption DEF CallbackReturns, Goto
  <1>15. ASSUME NEW l \in Loop, Bury(l) PROVE NothingLost'
    BY <1>15, NoMessageAssumption DEF Bury, Goto, Release
  <1>16. ASSUME NEW w \in Worker, CloseConn(w) PROVE NothingLost'
    BY <1>16, NoMessageAssumption, DisconnectReady DEF CloseConn, Disconnect, LoopsOf
  <1>17. ASSUME NEW w \in Worker, LoseConn(w) PROVE NothingLost'
    BY <1>17, NoMessageAssumption, DisconnectReady DEF LoseConn, Disconnect, LoopsOf, Disrupt
  <1>18. ASSUME NEW w \in Worker, Restart(w) PROVE NothingLost'
    BY <1>18, NoMessageAssumption DEF Restart, LoopsOf
  <1>19. ASSUME NEW w \in Worker, Terminate(w) PROVE NothingLost'
    BY <1>19, NoMessageAssumption DEF Terminate, LoopsOf, Disrupt
  <1>20. ASSUME NEW w \in Worker, Crash(w) PROVE NothingLost'
    BY <1>20, NoMessageAssumption, DisconnectReady DEF Crash, Disconnect, LoopsOf, Disrupt
  <1>21. QED
    BY <1>1, <1>2, <1>3, <1>4, <1>5, <1>6, <1>7, <1>8, <1>9, <1>10, <1>11, <1>12, <1>13, <1>14, <1>15, <1>16, <1>17, <1>18, <1>19, <1>20
      DEF Next, LoopStep, PlainLoopStep, HandlerStep, RunStep, Disruption

\* Every step keeps each message in one place.
LEMMA DoubledStep ==
  ASSUME ConsumerTypeOK, Books, Issued, NothingDoubled, [Next]_consumerVars
  PROVE  NothingDoubled'
  <1> USE DEF ConsumerTypeOK, Loop, LoopState, Books, LoopBooks, Issued, NothingDoubled, Unacked, Connected,
       brokerVars, loopVars, workerVars, historyVars
  <1>1. CASE UNCHANGED consumerVars
    BY <1>1, NoMessageAssumption DEF consumerVars
  <1>2. ASSUME NEW m \in Message, Enqueue(m) PROVE NothingDoubled'
    BY <1>2, NoMessageAssumption DEF Enqueue
  <1>3. ASSUME NEW l \in Loop, NEW m \in Message, Deliver(l, m) PROVE NothingDoubled'
    BY <1>3, NoMessageAssumption DEF Deliver
  <1>4. ASSUME NEW l \in Loop, NEW m \in Message, Take(l, m) PROVE NothingDoubled'
    BY <1>4, NoMessageAssumption DEF Take, Goto
  <1>5. ASSUME NEW l \in Loop, StopLoop(l) PROVE NothingDoubled'
    BY <1>5, NoMessageAssumption DEF StopLoop, Goto
  <1>6. ASSUME NEW l \in Loop, LoseChannel(l) PROVE NothingDoubled'
    BY <1>6, NoMessageAssumption DEF LoseChannel, Goto
  <1>7. ASSUME NEW l \in Loop, HandlerOK(l) PROVE NothingDoubled'
    BY <1>7, NoMessageAssumption DEF HandlerOK, Goto
  <1>8. ASSUME NEW l \in Loop, HandlerFails(l) PROVE NothingDoubled'
    BY <1>8, NoMessageAssumption DEF HandlerFails, Goto
  <1>9. ASSUME NEW l \in Loop, Retry(l) PROVE NothingDoubled'
    BY <1>9, NoMessageAssumption DEF Retry, Goto
  <1>10. ASSUME NEW l \in Loop, BackoffCanceled(l) PROVE NothingDoubled'
    BY <1>10, NoMessageAssumption DEF BackoffCanceled, Goto
  <1>11. ASSUME NEW l \in Loop, Ack(l) PROVE NothingDoubled'
    BY <1>11, NoMessageAssumption DEF Ack, Goto, Release
  <1>12. ASSUME NEW l \in Loop, Requeue(l) PROVE NothingDoubled'
    BY <1>12, NoMessageAssumption DEF Requeue, Goto, Release
  <1>13. ASSUME NEW l \in Loop, GiveUp(l) PROVE NothingDoubled'
    BY <1>13, NoMessageAssumption DEF GiveUp, Goto
  <1>14. ASSUME NEW l \in Loop, CallbackReturns(l) PROVE NothingDoubled'
    BY <1>14, NoMessageAssumption DEF CallbackReturns, Goto
  <1>15. ASSUME NEW l \in Loop, Bury(l) PROVE NothingDoubled'
    BY <1>15, NoMessageAssumption DEF Bury, Goto, Release
  <1>16. ASSUME NEW w \in Worker, CloseConn(w) PROVE NothingDoubled'
    BY <1>16, NoMessageAssumption, DisconnectReady DEF CloseConn, Disconnect, LoopsOf
  <1>17. ASSUME NEW w \in Worker, LoseConn(w) PROVE NothingDoubled'
    BY <1>17, NoMessageAssumption, DisconnectReady DEF LoseConn, Disconnect, LoopsOf, Disrupt
  <1>18. ASSUME NEW w \in Worker, Restart(w) PROVE NothingDoubled'
    BY <1>18, NoMessageAssumption DEF Restart, LoopsOf
  <1>19. ASSUME NEW w \in Worker, Terminate(w) PROVE NothingDoubled'
    BY <1>19, NoMessageAssumption DEF Terminate, LoopsOf, Disrupt
  <1>20. ASSUME NEW w \in Worker, Crash(w) PROVE NothingDoubled'
    BY <1>20, NoMessageAssumption, DisconnectReady DEF Crash, Disconnect, LoopsOf, Disrupt
  <1>21. QED
    BY <1>1, <1>2, <1>3, <1>4, <1>5, <1>6, <1>7, <1>8, <1>9, <1>10, <1>11, <1>12, <1>13, <1>14, <1>15, <1>16, <1>17, <1>18, <1>19, <1>20
      DEF Next, LoopStep, PlainLoopStep, HandlerStep, RunStep, Disruption

\* In the initial state nothing circulates.
LEMMA InitInv ==
  ASSUME ConsumerInit
  PROVE  ConsumerInv
  <1> USE DEF ConsumerInit, Loop
  <1>1. ConsumerTypeOK
    BY BoundsAssumption DEF ConsumerTypeOK, LoopState
  <1>2. \A l \in Loop : LoopBooks(l)
    BY DEF LoopBooks
  <1>3. Issued
    BY DEF Issued
  <1>4. NothingLost /\ NothingDoubled
    BY DEF NothingLost, NothingDoubled, Unacked
  <1>5. QED
    BY <1>1, <1>2, <1>3, <1>4 DEF ConsumerInv

\* The invariant is inductive.
LEMMA StepInv ==
  ASSUME ConsumerInv, [Next]_consumerVars
  PROVE  ConsumerInv'
  <1> ConsumerTypeOK /\ Books /\ Issued /\ NothingLost /\ NothingDoubled
    BY DEF ConsumerInv, Books
  <1>1. ConsumerTypeOK'
    BY TypeStep
  <1>2. Books'
    BY BooksStep
  <1>3. Issued'
    BY IssuedStep
  <1>4. NothingLost'
    BY LostStep
  <1>5. NothingDoubled'
    BY DoubledStep
  <1>6. QED
    BY <1>1, <1>2, <1>3, <1>4, <1>5 DEF ConsumerInv, Books

\* ConsumerInvariant: the loops' books and the broker's books always agree.
THEOREM ConsumerInvariant == Spec => []ConsumerInv
  BY InitInv, StepInv, PTL DEF Spec

\* ConsumerTypes: every variable of the consumer keeps its type.
THEOREM ConsumerTypes == Spec => []ConsumerTypeOK
  <1>1. ConsumerInv => ConsumerTypeOK
    BY DEF ConsumerInv
  <1>2. QED
    BY <1>1, ConsumerInvariant, PTL

\* NoMessageLost: whatever happens to workers and connections, a published
\* message is queued, unacknowledged, acknowledged or in the dead queue.
THEOREM NoMessageLost == Spec => []NothingLost
  <1>1. ConsumerInv => NothingLost
    BY DEF ConsumerInv
  <1>2. QED
    BY <1>1, ConsumerInvariant, PTL

\* NoMessageDoubled: the broker never holds a message in two places, and Ack and
\* Nack never settle a message that another loop holds.
THEOREM NoMessageDoubled == Spec => []NothingDoubled
  <1>1. ConsumerInv => NothingDoubled
    BY DEF ConsumerInv
  <1>2. QED
    BY <1>1, ConsumerInvariant, PTL

\* Only the last step of process() adds to the dead queue.
LEMMA OnlyBuryBuries ==
  ASSUME ConsumerInv, [Next]_consumerVars, NEW m \in dead' \ dead
  PROVE  \E l \in Loop : cur[l] = m /\ failures[l] = MaxRetries + 1
  <1> USE DEF brokerVars, loopVars, workerVars, historyVars
  <1>1. dead' # dead
    OBVIOUS
  <1>2. PICK l \in Loop : Bury(l)
    BY <1>1 DEF Next, LoopStep, PlainLoopStep, HandlerStep, RunStep, Disruption, consumerVars,
      Enqueue, Deliver, Take, StopLoop, LoseChannel, HandlerOK, HandlerFails, Retry,
      BackoffCanceled, Ack, Requeue, GiveUp, CallbackReturns,
      CloseConn, Restart, Terminate, LoseConn, Crash
  <1>3. pc[l] = "nack" /\ cur[l] = m
    BY <1>2 DEF Bury
  <1>4. failures[l] = MaxRetries + 1
    BY <1>3 DEF ConsumerInv, LoopBooks
  <1>5. QED
    BY <1>3, <1>4

\* ShutdownNeverBuries: a message becomes a dead letter only after every attempt
\* the retry schedule allows failed under a live context.
THEOREM ShutdownNeverBuries == Spec => BuriedOnlyAfterLiveFailures
  <1>1. ConsumerInv /\ [Next]_consumerVars
          => [\A m \in dead' \ dead :
                \E l \in Loop : cur[l] = m /\ failures[l] = MaxRetries + 1]_consumerVars
    BY OnlyBuryBuries
  <1>2. QED
    BY <1>1, ConsumerInvariant, PTL DEF Spec, BuriedOnlyAfterLiveFailures

-----------------------------------------------------------------------------
(* The consumer keeps the delivery promise: every step is one of Delivery. *)

\* Unless the broker settles or gets a message, its fate stands.
LEMMA FateStands ==
  ASSUME UNCHANGED <<published, dead, acked>>
  PROVE  [m \in Message |-> Fate(m)]' = [m \in Message |-> Fate(m)]
  BY DEF Fate

\* One message meets its fate.
LEMMA FateChanges ==
  ASSUME NEW m \in Message, \A n \in Message \ {m} : Fate(n)' = Fate(n)
  PROVE  [n \in Message |-> Fate(n)]' = [[n \in Message |-> Fate(n)] EXCEPT ![m] = Fate(m)']
  OBVIOUS

\* Publishing sends a message, the end of a handler handles it, and an Ack or a
\* Nack that reaches the broker finds it pending.
LEMMA DeliveryStep ==
  ASSUME ConsumerInv, AckBooks, [Next]_consumerVars
  PROVE  AckBooks' /\ [Promise!Next]_(Promise!deliveryVars)
  <1> DEFINE fates == [m \in Message |-> Fate(m)]
  <1> USE DEF brokerVars, loopVars, workerVars, historyVars
  <1>types. /\ pc \in [Loop -> LoopState] /\ cur \in [Loop -> Message \cup {NoMessage}]
            /\ published \subseteq Message
            /\ dead \cup acked \subseteq published /\ dead \cap acked = {}
            /\ \A l \in Loop : pc[l] \in {"handle", "ack", "nack"} => cur[l] \in published
            /\ \A l \in Loop : Unacked(l) \cap (dead \cup acked) = {}
    BY DEF ConsumerInv, ConsumerTypeOK, LoopBooks, Issued, NothingDoubled
  <1>loops. ASSUME UNCHANGED handled,
                   \A l \in Loop : pc'[l] = "ack" => pc[l] = "ack" /\ cur'[l] = cur[l]
            PROVE  AckBooks'
    BY <1>loops DEF AckBooks
  <1>quiet. ASSUME UNCHANGED <<published, dead, acked, handled>>
            PROVE  [Promise!Next]_(Promise!deliveryVars)
    BY <1>quiet, FateStands DEF Promise!deliveryVars
  <1>1. CASE UNCHANGED consumerVars
    BY <1>1, <1>loops, <1>quiet DEF consumerVars
  <1>2. ASSUME NEW m \in Message, Enqueue(m)
        PROVE  AckBooks' /\ [Promise!Next]_(Promise!deliveryVars)
    <2>1. AckBooks'
      BY <1>2, <1>loops DEF Enqueue
    <2>2. fates[m] = "unsent" /\ Fate(m)' = "pending"
      BY <1>2, <1>types DEF Enqueue, Fate
    <2>3. \A n \in Message \ {m} : Fate(n)' = Fate(n)
      BY <1>2 DEF Enqueue, Fate
    <2>4. fates' = [fates EXCEPT ![m] = "pending"]
      BY <2>2, <2>3, FateChanges
    <2>5. Promise!Send(m)
      BY <1>2, <2>2, <2>4 DEF Enqueue, Promise!Send
    <2>6. QED
      BY <2>1, <2>5 DEF Promise!Next
  <1>3. ASSUME NEW l \in Loop, HandlerOK(l)
        PROVE  AckBooks' /\ [Promise!Next]_(Promise!deliveryVars)
    <2>1. AckBooks'
      BY <1>3, <1>types DEF HandlerOK, Goto, AckBooks
    <2>2. cur[l] \in published /\ handled' = handled \cup {cur[l]} /\ fates' = fates
      BY <1>3, <1>types, FateStands DEF HandlerOK
    <2>3. fates[cur[l]] # "unsent"
      BY <1>types, <2>2 DEF Fate
    <2>4. Promise!Handle(cur[l])
      BY <2>2, <2>3 DEF Promise!Handle
    <2>5. QED
      BY <1>types, <2>1, <2>2, <2>4 DEF Promise!Next
  <1>settle. ASSUME NEW l \in Loop, pc[l] \in {"ack", "nack"}, Release(l), UNCHANGED handled
             PROVE  /\ AckBooks' /\ cur[l] \in Message
                    /\ Connected(l[1]) => fates[cur[l]] = "pending"
    <2>1. AckBooks'
      BY <1>settle, <1>types, <1>loops DEF Release, Goto
    <2>2. cur[l] \in published /\ cur[l] \in Message
      BY <1>settle, <1>types
    <2>3. Connected(l[1]) => cur[l] \in Unacked(l)
      BY <2>2, NoMessageAssumption DEF Unacked
    <2>4. QED
      BY <1>types, <2>1, <2>2, <2>3 DEF Fate
  <1>4. ASSUME NEW l \in Loop, Ack(l)
        PROVE  AckBooks' /\ [Promise!Next]_(Promise!deliveryVars)
    <2>1. AckBooks' /\ cur[l] \in Message /\ (Connected(l[1]) => fates[cur[l]] = "pending")
      BY <1>4, <1>settle DEF Ack
    <2>2. CASE ~Connected(l[1])
      BY <1>4, <1>quiet, <2>1, <2>2 DEF Ack
    <2>3. CASE Connected(l[1])
      <3>1. acked' = acked \cup {cur[l]} /\ UNCHANGED <<dead, published, handled>>
        BY <1>4, <2>3 DEF Ack
      <3>2. cur[l] \notin dead
        BY <2>1, <2>3 DEF Fate
      <3>3. fates' = [fates EXCEPT ![cur[l]] = "acked"]
        BY <2>1, <3>1, <3>2, FateChanges DEF Fate
      <3>4. cur[l] \in handled
        BY <1>4 DEF Ack, AckBooks
      <3>5. Promise!Acknowledge(cur[l])
        BY <2>1, <2>3, <3>1, <3>3, <3>4 DEF Promise!Acknowledge
      <3>6. QED
        BY <2>1, <3>5 DEF Promise!Next
    <2>4. QED
      BY <2>2, <2>3
  <1>5. ASSUME NEW l \in Loop, Bury(l)
        PROVE  AckBooks' /\ [Promise!Next]_(Promise!deliveryVars)
    <2>1. AckBooks' /\ cur[l] \in Message /\ (Connected(l[1]) => fates[cur[l]] = "pending")
      BY <1>5, <1>settle DEF Bury
    <2>2. CASE ~Connected(l[1])
      BY <1>5, <1>quiet, <2>1, <2>2 DEF Bury
    <2>3. CASE Connected(l[1])
      <3>1. dead' = dead \cup {cur[l]} /\ UNCHANGED <<acked, published, handled>>
        BY <1>5, <2>3 DEF Bury
      <3>2. cur[l] \notin acked
        BY <2>1, <2>3 DEF Fate
      <3>3. fates' = [fates EXCEPT ![cur[l]] = "dead"]
        BY <2>1, <3>1, <3>2, FateChanges DEF Fate
      <3>4. Promise!Bury(cur[l])
        BY <2>1, <2>3, <3>1, <3>3 DEF Promise!Bury
      <3>5. QED
        BY <2>1, <3>4 DEF Promise!Next
    <2>4. QED
      BY <2>2, <2>3
  <1>6. CASE \/ \E l \in Loop, m \in Message : Deliver(l, m)
             \/ \E l \in Loop : \/ \E m \in Message : Take(l, m)
                               \/ Retry(l) \/ StopLoop(l) \/ LoseChannel(l)
                               \/ BackoffCanceled(l) \/ GiveUp(l) \/ Requeue(l)
                               \/ HandlerFails(l) \/ CallbackReturns(l)
             \/ \E w \in Worker : RunStep(w) \/ Disruption(w)
    <2>1. UNCHANGED <<published, dead, acked, handled>>
      BY <1>6 DEF Deliver, Take, Retry, StopLoop, LoseChannel, BackoffCanceled, GiveUp, Requeue,
        HandlerFails, CallbackReturns, RunStep, CloseConn, Restart, Disruption, Terminate,
        LoseConn, Crash
    <2>2. \A l \in Loop : pc'[l] = "ack" => pc[l] = "ack" /\ cur'[l] = cur[l]
      BY <1>6, <1>types DEF Deliver, Take, Retry, StopLoop, LoseChannel, BackoffCanceled, GiveUp,
        Requeue, Release, Goto, HandlerFails, CallbackReturns, RunStep, CloseConn, Restart,
        Disruption, Terminate, LoseConn, Crash
    <2>3. QED
      BY <1>loops, <1>quiet, <2>1, <2>2
  <1>7. QED
    BY <1>1, <1>2, <1>3, <1>4, <1>5, <1>6 DEF Next, LoopStep, PlainLoopStep, HandlerStep

\* ConsumerDelivers: for any messages, workers, connections lost and retries, the
\* consumer implements the safety part of Delivery: a message is acknowledged only
\* after a handler finished it, and settled once.
THEOREM ConsumerDelivers == Spec => Promise!Safety
  <1>1. ConsumerInit => AckBooks /\ Promise!Init
    BY DEF ConsumerInit, AckBooks, Promise!Init, Fate
  <1>2. ConsumerInv /\ AckBooks /\ [Next]_consumerVars
          => AckBooks' /\ [Promise!Next]_(Promise!deliveryVars)
    BY DeliveryStep
  <1>3. QED
    BY <1>1, <1>2, ConsumerInvariant, PTL DEF Spec, Promise!Safety

=============================================================================
