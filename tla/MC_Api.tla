------------------------------- MODULE MC_Api -------------------------------
(* Values for model checking Api. *)
EXTENDS Api

CONSTANTS a1, alice

MCEvent == Event
MCQueue == {"upload", "delete"}
MCRoute == [m \in Event |-> m.kind]
MCCallbackQueue == {"upload"}

AliceOwnsAll == [a \in AvatarId |-> alice]
AliceDeletes == [d \in DeleteRequest |-> alice]

OneSize == {"100x100"}
=============================================================================
