------------------------- MODULE MCAccountSubjects -------------------------
(* The instance of AccountAuth with all handlers, by subject. *)
EXTENDS MCAccountAuth

(* A behaviour is about one of three subjects: registrations made, rolled back
   and made again, with resets and deletions; forgotten and changed passwords
   of one account; or social sign-ins and status writes of an admin, with
   right codes only.  Sign-up and verification are in all three. *)
VARIABLE subject

OpsOf == [registering |-> {"signup", "verify", "generate", "reset", "delete"},
          recovering  |-> {"signup", "verify", "forgot", "reset", "login", "change"},
          closing     |-> {"signup", "verify", "social", "status", "delete"}]

OneSubject ==
    /\ \A r \in Requests : req'[r].op \in OpsOf[subject] \cup {"none"}
    /\ subject # "registering" => lastId' <= 1
    /\ subject = "closing" => \A r \in Requests : req'[r].pc # "getAttempts"

SubjectInit == Init /\ subject \in DOMAIN OpsOf
SubjectNext == Next /\ OneSubject /\ UNCHANGED subject
SubjectSpec == SubjectInit /\ [][SubjectNext]_<<vars, subject>>

=============================================================================
