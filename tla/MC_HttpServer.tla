--------------------------- MODULE MC_HttpServer ----------------------------
(* Values for model checking HttpServer. *)
EXTENDS HttpServer

CONSTANTS alice, bob, d1, d2

AliceOwnsAll == [a \in AvatarId |-> alice]
BobDeletesToo == [d \in DeleteRequest |-> IF d = d2 THEN bob ELSE alice]
OneSize == {"100x100"}

=============================================================================
