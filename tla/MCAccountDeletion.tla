------------------------- MODULE MCAccountDeletion -------------------------
(* Instances of AccountDeletion for TLC. *)
EXTENDS AccountDeletion, TLC

CONSTANTS u1, u2, c1, c2

TwoMembers == {u1, u2}
OneCall == {c1}
TwoCalls == {c1, c2}

Deletions == {"delete"}
MostHandlers == AllHandlers \ {"read", "save"}

Symmetry == Permutations(TwoMembers) \cup Permutations(TwoCalls)

=============================================================================
