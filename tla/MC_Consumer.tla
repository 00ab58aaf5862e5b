----------------------------- MODULE MC_Consumer -----------------------------
(* Values for model checking Consumer on its own. *)
EXTENDS Consumer

CONSTANTS u1, u2, d1      \* two upload events and a delete event

MCMessage == {u1, u2, d1}
MCQueue == {"upload", "delete"}
MCRoute == [m \in Message |-> IF m = d1 THEN "delete" ELSE "upload"]
MCCallbackQueue == {"upload"}

=============================================================================
