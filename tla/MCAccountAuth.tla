--------------------------- MODULE MCAccountAuth ---------------------------
(* Instances of AccountAuth for TLC. *)
EXTENDS AccountAuth, TLC

CONSTANTS r1, r2, pw1, pw2, google, apple

OneRequest == {r1}
TwoRequests == {r1, r2}

TwoPasswords == {pw1, pw2}
OnePassword == {pw1}

OneProvider == {google}
TwoProviders == {google, apple}

(* Handlers of the run that only signs up and signs in. *)
SocialHandlers == {"signup", "social"}

Symmetry == Permutations({r1, r2}) \cup Permutations({pw1, pw2})
                \cup Permutations({google, apple})

=============================================================================
