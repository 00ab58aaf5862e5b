------------------------------ MODULE Delivery ------------------------------
(***************************************************************************)
(* What the broker and its consumers promise about a message, whatever     *)
(* happens to workers and connections: it may be handled several times, it *)
(* is acknowledged only after a handler returned nil for it, and in the    *)
(* end it is either acknowledged or in the dead-letter queue.              *)
(***************************************************************************)
CONSTANT Message

VARIABLES fate,      \* fate[m]: unsent, pending, acked or dead
          handled    \* the messages some handler finished without an error

deliveryVars == <<fate, handled>>

Init == /\ fate = [m \in Message |-> "unsent"]
        /\ handled = {}

Settled(m) == fate[m] \in {"acked", "dead"}

Send(m) ==
  /\ fate[m] = "unsent"
  /\ fate' = [fate EXCEPT ![m] = "pending"]
  /\ UNCHANGED handled

\* A redelivered copy may be handled after the message was settled.
Handle(m) ==
  /\ fate[m] # "unsent"
  /\ handled' = handled \cup {m}
  /\ UNCHANGED fate

Acknowledge(m) ==
  /\ fate[m] = "pending" /\ m \in handled
  /\ fate' = [fate EXCEPT ![m] = "acked"]
  /\ UNCHANGED handled

Bury(m) ==
  /\ fate[m] = "pending"
  /\ fate' = [fate EXCEPT ![m] = "dead"]
  /\ UNCHANGED handled

Next == \E m \in Message : Send(m) \/ Handle(m) \/ Acknowledge(m) \/ Bury(m)

Safety == Init /\ [][Next]_deliveryVars

Spec == /\ Safety
        /\ \A m \in Message : WF_deliveryVars(Acknowledge(m) \/ Bury(m))

=============================================================================
