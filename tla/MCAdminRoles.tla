--------------------------- MODULE MCAdminRoles ---------------------------
(* Instances of AdminRoles for TLC. *)
EXTENDS AdminRoles, TLC

CONSTANTS u1, u2, u3, r1, r2

ThreeUsers == {u1, u2, u3}
OneRequest == {r1}
TwoRequests == {r1, r2}

PurgeAndDemote == {"purge", "role"}

Symmetry == Permutations(ThreeUsers) \cup Permutations(TwoRequests)

=============================================================================
