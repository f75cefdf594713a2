------------------------------ MODULE OtpCode ------------------------------
(***************************************************************************)
(* The one-time codes of src/auth/auth.service.ts: integers from MinCode   *)
(* to MaxCode (100000..999999 in the code), and the way a new one is drawn *)
(* from a random integer.  crypto.randomInt(a, b) returns an integer of    *)
(* a..b-1; the modules that use these operators choose it with \E.         *)
(***************************************************************************)
EXTENDS Integers

CONSTANTS MinCode, MaxCode

ASSUME CodeRange == /\ MinCode \in Nat \ {0}
                    /\ MaxCode \in Nat
                    /\ MinCode < MaxCode

Codes == MinCode .. MaxCode

\* What the cache returns for a key it does not hold.
NoCode == 0

HasPrevious(previous) == previous \in Codes

(* The interval the random integer is taken from: one shorter when there
   is a previous code to avoid. *)
Draws(previous) == IF HasPrevious(previous) THEN MinCode .. MaxCode - 1 ELSE Codes

\* Slips of generateOtp that the runs must notice.
GenerateOtpOffByOne(previous, draw) ==
    IF HasPrevious(previous) /\ draw > previous THEN draw + 1 ELSE draw

GenerateOtp(previous, draw) ==
    IF HasPrevious(previous) /\ draw >= previous THEN draw + 1 ELSE draw

(* The codes generateOtp can return after `previous`. *)
NextCodes(previous) == {GenerateOtp(previous, d) : d \in Draws(previous)}

=============================================================================
