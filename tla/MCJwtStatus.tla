---------------------------- MODULE MCJwtStatus ----------------------------
(* Instances of JwtStatus for TLC. *)
EXTENDS JwtStatus

CONSTANTS r1, r2, a1, a2

TwoRequests == {r1, r2}
TwoAdmins == {a1, a2}

=============================================================================
