--------------------------- MODULE MC_GophProfile ---------------------------
(* Values for model checking GophProfile. *)
EXTENDS GophProfile, TLC

CONSTANTS a1, a2, alice, bob, d1, d2, d3

MCEvent == Event
MCQueue == {"upload", "delete"}
MCRoute == [m \in Event |-> m.kind]
MCCallbackQueue == {"upload"}

AliceOwnsAll == [a \in AvatarId |-> alice]
AliceDeletes == [d \in DeleteRequest |-> alice]
BobDeletesToo == [d \in DeleteRequest |-> IF d = d3 THEN bob ELSE alice]

TwoSizes == {"100x100", "300x300"}
OneSize == {"100x100"}

\* Alice's avatars are alike, and so are her two deletions.
AliceSymmetry == Permutations({a1, a2}) \cup Permutations({d1, d2})
=============================================================================
