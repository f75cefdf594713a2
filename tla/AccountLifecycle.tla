-------------------------- MODULE AccountLifecycle --------------------------
(***************************************************************************)
(* What the authentication component promises about one e-mail address,    *)
(* with no requests, caches or snapshots: how the account's status may     *)
(* move, and that nothing becomes usable before somebody has shown that    *)
(* the address is theirs.  AccountAuth is checked and proved to implement  *)
(* this specification.                                                     *)
(***************************************************************************)
CONSTANTS Passwords, NoPassword

VARIABLES
    status,    \* of the document with this e-mail; NONE when there is none
    password,  \* the password that document accepts
    evidence   \* how control of the address has been shown so far

lifecycleVars == <<status, password, evidence>>

(* A mailed code was presented, a social provider vouched for the profile,
   or an admin activated the account. *)
Evidence == {"otp", "social", "admin"}

(* Evidence that lets a registration be activated with the password typed at
   sign-up: a social profile does not, because somebody else may have typed
   it.  It is about the address; which registration a code was mailed for is
   not told apart here. *)
Verified == evidence \cap {"otp", "admin"} # {}

Init ==
    /\ status = "NONE"
    /\ password = NoPassword
    /\ evidence = {}

Show(kind) ==
    /\ evidence' = evidence \cup {kind}
    /\ UNCHANGED <<status, password>>

Register(pw) ==
    /\ status = "NONE"
    /\ status' = "PENDING"
    /\ password' = pw
    /\ UNCHANGED evidence

RegisterSocial ==
    /\ status = "NONE"
    /\ "social" \in evidence
    /\ status' = "ACTIVE"
    /\ password' = NoPassword
    /\ UNCHANGED evidence

(* Only a registration nobody has confirmed can be taken back. *)
Abandon ==
    /\ status = "PENDING"
    /\ status' = "NONE"
    /\ password' = NoPassword
    /\ UNCHANGED evidence

Activate ==
    /\ status # "NONE"
    /\ Verified
    /\ status' = "ACTIVE"
    /\ UNCHANGED <<password, evidence>>

(* A social sign-in claims an unconfirmed registration and drops its
   password. *)
TakeOver ==
    /\ status = "PENDING"
    /\ "social" \in evidence
    /\ status' = "ACTIVE"
    /\ password' = NoPassword
    /\ UNCHANGED evidence

SetPassword(pw) ==
    /\ status # "NONE"
    /\ Verified
    /\ password' = pw
    /\ UNCHANGED <<status, evidence>>

Close ==
    /\ status # "NONE"
    /\ status' = "DELETED"
    /\ password' = NoPassword
    /\ UNCHANGED evidence

AdminSet(s) ==
    /\ status # "NONE"
    /\ status' = s
    /\ evidence' = IF s = "ACTIVE" THEN evidence \cup {"admin"} ELSE evidence
    /\ UNCHANGED password

Next ==
    \/ \E kind \in {"otp", "social"} : Show(kind)
    \/ \E pw \in Passwords : Register(pw) \/ SetPassword(pw)
    \/ RegisterSocial \/ Abandon \/ Activate \/ TakeOver \/ Close
    \/ \E s \in {"PENDING", "ACTIVE", "DELETED"} : AdminSet(s)

Spec == Init /\ [][Next]_lifecycleVars

=============================================================================
