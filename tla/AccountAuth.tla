---------------------------- MODULE AccountAuth ----------------------------
(***************************************************************************)
(* The account behind one e-mail address and the handlers that act on it   *)
(* concurrently: sign-up, code verification, code generation, password     *)
(* reset and change, social sign-in, login, account deletion and the admin *)
(* status writes.  Translated from src/auth/auth.service.ts,               *)
(* src/users/users.service.ts and src/admin/admin.service.ts.              *)
(*                                                                         *)
(* A handler is a sequence of awaited calls to MongoDB, Redis or the mail  *)
(* transport; one step of the model is one such call with the synchronous  *)
(* code that follows it, so requests interleave exactly where the event    *)
(* loop lets them.  req[r] holds the locals of the request in slot r and   *)
(* the call it is about to make.                                           *)
(***************************************************************************)
EXTENDS Integers, OtpCode

CONSTANTS
    Requests,     \* slots for concurrent requests
    Passwords,    \* what a registration form can carry
    NoPassword,   \* the null password of a social or deleted account
    Providers,    \* the social providers (GOOGLE, APPLE)
    MaxAttempts,  \* MAX_OTP_ATTEMPTS
    MaxIds,       \* bound: documents ever created for the address
    Handlers,     \* the operations the environment calls
    CanFail       \* whether a call to a store or the mail transport may fail

AllHandlers == {"signup", "verify", "generate", "forgot", "reset", "change",
                "social", "login", "delete", "status"}

ASSUME AuthAssumption ==
    /\ NoPassword \notin Passwords
    /\ "LOCAL" \notin Providers
    /\ MaxAttempts \in Nat /\ MaxAttempts >= 2
    /\ MaxIds \in Nat
    /\ Handlers \subseteq AllHandlers
    /\ CanFail \in BOOLEAN

VARIABLES
    user,      \* the document with this e-mail, or NoUser
    lastId,    \* _ids given out so far
    otp,       \* otp:<purpose>:<email>
    attempts,  \* otp_attempts:<purpose>:<email>, 0 when absent
    cooldown,  \* otp_cooldown:<purpose>:<email>
    sessions,  \* _ids for which login() has signed a token
    req,       \* the requests in flight
    evidence,  \* history: how control of the address has been shown
    sentFor,   \* history: the _id the stored sign-up code was mailed for, or 0
    outdated   \* history: slots whose code was drawn before the one now stored

db == <<user, lastId, sessions, evidence>>
cache == <<otp, attempts, cooldown, sentFor, outdated>>
vars == <<user, lastId, otp, attempts, cooldown, sessions, req, evidence, sentFor, outdated>>

-----------------------------------------------------------------------------
(* Data *)

Purposes == {"signup", "reset"}
AuthTypes == Providers \cup {"LOCAL"}

(* user.schema.ts, the fields authentication reads or writes.  A bcrypt
   hash is represented by the one password it verifies.  scrubbed: the
   required dateOfBirth, gender and onBehalf are null.  confirmed and crowded
   are history: whether somebody presented a code mailed for this document,
   chose its password with a reset code or was let in by an admin ("stray":
   it was activated with a code mailed for another document), and whether
   the tombstone was written while handlers that may still write were in
   flight. *)
UserDocs == [id : 0 .. MaxIds,
             status : {"NONE", "PENDING", "ACTIVE", "DELETED"},
             password : Passwords \cup {NoPassword},
             authType : SUBSET AuthTypes,
             accounts : SUBSET AuthTypes,
             scrubbed : BOOLEAN,
             confirmed : {"no", "yes", "stray"},
             crowded : BOOLEAN]

NoUser == [id |-> 0, status |-> "NONE", password |-> NoPassword,
           authType |-> {}, accounts |-> {}, scrubbed |-> FALSE,
           confirmed |-> "no", crowded |-> FALSE]

Calls == {"idle", "create", "store", "clearAttempts", "startCooldown", "mail",
          "rollback", "clearState", "checkCooldown", "draw",
          "getOtp", "activate", "save", "consume", "consumeAttempts",
          "getAttempts", "lockOtp", "lockAttempts", "count",
          "changeSave", "createSocial", "reread", "flip", "addType", "push",
          "refresh", "compare", "tombstone", "setStatus"}

(* owner is history: the document the code in hand was or will be mailed for. *)
Locals == [pc : Calls,
           op : AllHandlers \cup {"none"},
           purpose : Purposes,
           code : Codes \cup {NoCode},
           pw : Passwords \cup {NoPassword},
           via : AuthTypes,
           target : {"NONE", "PENDING", "ACTIVE", "DELETED"},
           count : 0 .. MaxAttempts - 1,
           seen : UserDocs,
           owner : 0 .. MaxIds]

Idle == [pc |-> "idle", op |-> "none", purpose |-> "signup", code |-> NoCode,
         pw |-> NoPassword, via |-> "LOCAL", target |-> "NONE", count |-> 0,
         seen |-> NoUser, owner |-> 0]

At(r, call) == req[r].pc = call
Goto(r, call) == req' = [req EXCEPT ![r].pc = call]
Done(r) == req' = [req EXCEPT ![r] = Idle]

(* A request of operation op enters slot r and has made its first read. *)
Arrives(r, op) == At(r, "idle") /\ op \in Handlers
Enter(r, op, locals) == req' = [req EXCEPT ![r] = [locals EXCEPT !.op = op]]

(* A Mongoose document held by a handler writes back by _id: save() and
   updateOne({_id}) reach the stored document only while it is the same. *)
Stored(doc) == user # NoUser /\ user.id = doc.id

-----------------------------------------------------------------------------
(* Sign-up *)

(* findReusablePendingSignup: no account, or the same pending registration
   (the password stands for username, phone and password together). *)
StartSignup(r) ==
    /\ Arrives(r, "signup")
    /\ \E pw \in Passwords :
         \/ /\ user = NoUser
            /\ Enter(r, "signup", [Idle EXCEPT !.pc = "create", !.pw = pw])
         \/ /\ user.status = "PENDING"
            /\ user.password = pw
            /\ \E c \in NextCodes(NoCode) :
                 Enter(r, "signup", [Idle EXCEPT !.pc = "store", !.code = c, !.seen = user,
                                                 !.owner = user.id])
    /\ UNCHANGED <<db, cache>>

(* The document saveUser inserts; accounts stays empty for LOCAL. *)
PendingUser(pw) == [NoUser EXCEPT !.id = lastId + 1, !.status = "PENDING",
                                  !.password = pw, !.authType = {"LOCAL"}]

RegistrationStored(r, c) ==
    req' = [req EXCEPT ![r] = [req[r] EXCEPT !.pc = "store", !.code = c, !.pw = NoPassword,
                                             !.seen = PendingUser(req[r].pw),
                                             !.owner = lastId + 1]]

(* createUser: the unique index on email rejects a second document.  The
   save() that saveUser adds to the insertion writes nothing new; when it
   throws, sign-up ends and the registration stays. *)
CreatePending(r) ==
    /\ At(r, "create")
    /\ \/ /\ user = NoUser
          /\ lastId < MaxIds
          /\ lastId' = lastId + 1
          /\ user' = PendingUser(req[r].pw)
          /\ \/ \E c \in NextCodes(NoCode) : RegistrationStored(r, c)
             \/ CanFail /\ Done(r)
       \/ /\ user # NoUser
          /\ Done(r)
          /\ UNCHANGED <<user, lastId>>
    /\ UNCHANGED <<sessions, evidence, cache>>

-----------------------------------------------------------------------------
(* Issuing a code: the calls signup, generateCode and forgotPassword share *)

(* A code that is gone was mailed for nobody. *)
ForgetOwner == sentFor' = IF otp'["signup"] = NoCode THEN 0 ELSE sentFor

AfterStore(op) == IF op = "signup" THEN "startCooldown" ELSE "clearAttempts"

(* The other slots that hold a code drawn against the one r replaces. *)
Overtaken(r) ==
    {s \in Requests \ {r} : /\ At(s, "store") /\ req[s].op = "generate"
                           /\ req[s].purpose = req[r].purpose}

StoreOtp(r) ==
    LET p == req[r].purpose IN
    /\ At(r, "store")
    /\ otp' = [otp EXCEPT ![p] = req[r].code]
    /\ sentFor' = IF p = "signup" THEN req[r].owner ELSE sentFor
    /\ outdated' = (outdated \ {r}) \cup Overtaken(r)
    /\ req' = [req EXCEPT ![r] = [req[r] EXCEPT !.pc = AfterStore(req[r].op), !.code = NoCode,
                                             !.owner = 0]]
    /\ UNCHANGED <<db, attempts, cooldown>>

ClearOtpAttempts(r) ==
    /\ At(r, "clearAttempts")
    /\ attempts' = [attempts EXCEPT ![req[r].purpose] = 0]
    /\ Goto(r, "startCooldown")
    /\ UNCHANGED <<db, otp, cooldown, sentFor, outdated>>

(* forgotPassword answers without waiting for the mail. *)
SetOtpCooldown(r) ==
    /\ At(r, "startCooldown")
    /\ cooldown' = [cooldown EXCEPT ![req[r].purpose] = TRUE]
    /\ IF req[r].op = "forgot" THEN Done(r) ELSE Goto(r, "mail")
    /\ UNCHANGED <<db, otp, attempts, sentFor, outdated>>

SendMail(r) ==
    /\ At(r, "mail")
    /\ Done(r)
    /\ UNCHANGED <<db, cache>>

(* The rollback deletes whatever its registration left behind. *)
DeleteWhateverTheStatus(r) ==
    /\ At(r, "rollback")
    /\ user' = IF Stored(req[r].seen) THEN NoUser ELSE user
    /\ Goto(r, "clearState")
    /\ UNCHANGED <<lastId, sessions, evidence, cache>>

(* rollbackPendingSignup: deleteOne({_id, status: PENDING}). *)
RollbackPendingSignup(r) ==
    /\ At(r, "rollback")
    /\ user' = IF Stored(req[r].seen) /\ user.status = "PENDING" THEN NoUser ELSE user
    /\ Goto(r, "clearState")
    /\ UNCHANGED <<lastId, sessions, evidence, cache>>

(* clearOtpState: three deletes issued together, each may fail by itself. *)
ClearOtpState(r) ==
    LET p == req[r].purpose IN
    /\ At(r, "clearState")
    /\ \E failed \in IF CanFail THEN SUBSET {"otp", "attempts", "cooldown"} ELSE {{}} :
         /\ otp' = [otp EXCEPT ![p] = IF "otp" \in failed THEN @ ELSE NoCode]
         /\ attempts' = [attempts EXCEPT ![p] = IF "attempts" \in failed THEN @ ELSE 0]
         /\ cooldown' = [cooldown EXCEPT ![p] = "cooldown" \in failed /\ @]
    /\ ForgetOwner
    /\ Done(r)
    /\ UNCHANGED <<db, outdated>>

-----------------------------------------------------------------------------
(* generateCode and forgotPassword *)

StartGenerateCode(r) ==
    /\ Arrives(r, "generate")
    /\ user.status \in {"PENDING", "ACTIVE"}
    /\ Enter(r, "generate",
             [Idle EXCEPT !.pc = "checkCooldown",
                          !.purpose = IF user.status = "PENDING" THEN "signup" ELSE "reset",
                          !.owner = user.id])
    /\ UNCHANGED <<db, cache>>

StartForgotPassword(r) ==
    /\ Arrives(r, "forgot")
    /\ user.status \in {"PENDING", "ACTIVE"}
    /\ Enter(r, "forgot", [Idle EXCEPT !.pc = "checkCooldown", !.purpose = "reset"])
    /\ UNCHANGED <<db, cache>>

AssertOtpNotInCooldown(r) ==
    /\ At(r, "checkCooldown")
    /\ IF cooldown[req[r].purpose] THEN Done(r)
       ELSE IF req[r].op = "generate" THEN Goto(r, "draw")
       ELSE \E c \in NextCodes(NoCode) :
              req' = [req EXCEPT ![r] = [req[r] EXCEPT !.pc = "store", !.code = c]]
    /\ UNCHANGED <<db, cache>>

(* Reads the code in the cache and draws another one. *)
DrawOtp(r) ==
    /\ At(r, "draw")
    /\ \E c \in NextCodes(otp[req[r].purpose]) :
         req' = [req EXCEPT ![r] = [req[r] EXCEPT !.pc = "store", !.code = c]]
    /\ outdated' = outdated \ {r}
    /\ UNCHANGED <<db, otp, attempts, cooldown, sentFor>>

-----------------------------------------------------------------------------
(* verifyCode and resetPassword *)

StartVerifyCode(r) ==
    /\ Arrives(r, "verify")
    /\ user.status = "PENDING"
    /\ \E c \in Codes :
         Enter(r, "verify", [Idle EXCEPT !.pc = "getOtp", !.code = c])
    /\ UNCHANGED <<db, cache>>

(* resetPassword does not look at the status. *)
StartResetPassword(r) ==
    /\ Arrives(r, "reset")
    /\ user # NoUser
    /\ \E c \in Codes, pw \in Passwords :
         Enter(r, "reset", [Idle EXCEPT !.pc = "getOtp", !.purpose = "reset",
                                        !.code = c, !.pw = pw, !.seen = user])
    /\ UNCHANGED <<db, cache>>

AfterMatch(op) == IF op = "verify" THEN "activate" ELSE "save"

(* The code in hand is the stored one: a sign-up code was mailed for the
   document it was stored for. *)
Matched(l) == [l EXCEPT !.pc = AfterMatch(l.op), !.code = NoCode,
                        !.owner = IF l.op = "verify" THEN sentFor ELSE @]

(* A submission is compared with nothing: an absent code is not refused. *)
AcceptAnyOtp(r) ==
    LET p == req[r].purpose IN
    /\ At(r, "getOtp")
    /\ \/ /\ otp[p] \in {NoCode, req[r].code}
          /\ req' = [req EXCEPT ![r] = Matched(req[r])]
          /\ evidence' = IF otp[p] = NoCode THEN evidence ELSE evidence \cup {"otp"}
       \/ /\ otp[p] \notin {NoCode, req[r].code}
          /\ req' = [req EXCEPT ![r] = [Idle EXCEPT !.pc = "getAttempts", !.op = req[r].op, !.purpose = p]]
          /\ UNCHANGED evidence
    /\ UNCHANGED <<user, lastId, sessions, cache>>

GetOtp(r) ==
    LET p == req[r].purpose IN
    /\ At(r, "getOtp")
    /\ \/ /\ otp[p] = NoCode
          /\ Done(r)
          /\ UNCHANGED evidence
       \/ /\ otp[p] = req[r].code
          /\ req' = [req EXCEPT ![r] = Matched(req[r])]
          /\ evidence' = evidence \cup {"otp"}
       \/ /\ otp[p] \notin {NoCode, req[r].code}
          /\ req' = [req EXCEPT ![r] = [Idle EXCEPT !.pc = "getAttempts", !.op = req[r].op, !.purpose = p]]
          /\ UNCHANGED evidence
    /\ UNCHANGED <<user, lastId, sessions, cache>>

(* recordWrongOtpAttempt: get, then set or delete. *)
GetAttempts(r) ==
    LET next == attempts[req[r].purpose] + 1 IN
    /\ At(r, "getAttempts")
    /\ IF next >= MaxAttempts
       THEN Goto(r, "lockOtp")
       ELSE req' = [req EXCEPT ![r] = [req[r] EXCEPT !.pc = "count", !.count = next]]
    /\ UNCHANGED <<db, cache>>

LockOtp(r) ==
    /\ At(r, "lockOtp")
    /\ otp' = [otp EXCEPT ![req[r].purpose] = NoCode]
    /\ Goto(r, "lockAttempts")
    /\ ForgetOwner
    /\ UNCHANGED <<db, attempts, cooldown, outdated>>

LockAttempts(r) ==
    /\ At(r, "lockAttempts")
    /\ attempts' = [attempts EXCEPT ![req[r].purpose] = 0]
    /\ Done(r)
    /\ UNCHANGED <<db, otp, cooldown, sentFor, outdated>>

CountAttempt(r) ==
    /\ At(r, "count")
    /\ attempts' = [attempts EXCEPT ![req[r].purpose] = req[r].count]
    /\ Done(r)
    /\ UNCHANGED <<db, otp, cooldown, sentFor, outdated>>

(* What the presented code says of the document it activates. *)
ConfirmedBy(owner) ==
    IF owner = user.id THEN "yes" ELSE IF user.confirmed = "no" THEN "stray" ELSE user.confirmed

(* activateAndAddLocalAuth: updateOne({email}), whatever the document is. *)
ActivateAndAddLocalAuth(r) ==
    /\ At(r, "activate")
    /\ IF user = NoUser
       THEN Done(r) /\ UNCHANGED user
       ELSE /\ user' = [user EXCEPT !.status = "ACTIVE", !.authType = @ \cup {"LOCAL"},
                                    !.confirmed = ConfirmedBy(req[r].owner)]
            /\ req' = [req EXCEPT ![r] = [req[r] EXCEPT !.pc = "consume", !.owner = 0]]
    /\ UNCHANGED <<lastId, sessions, evidence, cache>>

(* A whole-document write that would put the snapshot back. *)
SaveWithUpsert(r) ==
    /\ At(r, "save")
    /\ user' = [req[r].seen EXCEPT !.password = req[r].pw, !.authType = @ \cup {"LOCAL"},
                                   !.confirmed = "yes"]
    /\ req' = [req EXCEPT ![r] = [req[r] EXCEPT !.pc = "consume", !.seen = NoUser, !.pw = NoPassword]]
    /\ UNCHANGED <<lastId, sessions, evidence, cache>>

(* A save that did not validate would reach a tombstone. *)
SaveResetUnvalidated(r) ==
    /\ At(r, "save")
    /\ IF ~Stored(req[r].seen)
       THEN Done(r) /\ UNCHANGED user
       ELSE /\ user' = [user EXCEPT !.password = req[r].pw, !.confirmed = "yes",
                                    !.authType = @ \cup {"LOCAL"}]
            /\ req' = [req EXCEPT ![r] = [req[r] EXCEPT !.pc = "consume", !.seen = NoUser,
                                                   !.pw = NoPassword]]
    /\ UNCHANGED <<lastId, sessions, evidence, cache>>

(* resetPassword's save() writes the modified paths only: the password, and
   LOCAL when the snapshot lacked it.  Validation covers the whole snapshot,
   so a scrubbed one is refused; so is a document that is gone. *)
SaveReset(r) ==
    LET seen == req[r].seen IN
    /\ At(r, "save")
    /\ IF seen.scrubbed \/ ~Stored(seen)
       THEN Done(r) /\ UNCHANGED user
       ELSE /\ user' = [user EXCEPT !.password = req[r].pw, !.confirmed = "yes",
                                    !.authType = IF "LOCAL" \in seen.authType
                                                 THEN @ ELSE @ \cup {"LOCAL"}]
            /\ req' = [req EXCEPT ![r] = [req[r] EXCEPT !.pc = "consume", !.seen = NoUser,
                                                   !.pw = NoPassword]]
    /\ UNCHANGED <<lastId, sessions, evidence, cache>>

ConsumeOtp(r) ==
    /\ At(r, "consume")
    /\ otp' = [otp EXCEPT ![req[r].purpose] = NoCode]
    /\ Goto(r, "consumeAttempts")
    /\ ForgetOwner
    /\ UNCHANGED <<db, attempts, cooldown, outdated>>

ConsumeAttempts(r) ==
    /\ At(r, "consumeAttempts")
    /\ attempts' = [attempts EXCEPT ![req[r].purpose] = 0]
    /\ Done(r)
    /\ UNCHANGED <<db, otp, cooldown, sentFor, outdated>>

-----------------------------------------------------------------------------
(* login and changePassword *)

(* validateUser reads the document; bcrypt.compare is awaited before
   login() looks at the status it read and signs the token. *)
StartLogin(r) ==
    /\ Arrives(r, "login")
    /\ user.password # NoPassword
    /\ Enter(r, "login", [Idle EXCEPT !.pc = "compare", !.seen = user])
    /\ UNCHANGED <<db, cache>>

SignTokenForAnyStatus(r) ==
    /\ At(r, "compare")
    /\ sessions' = sessions \cup {req[r].seen.id}
    /\ Done(r)
    /\ UNCHANGED <<user, lastId, evidence, cache>>

SignToken(r) ==
    /\ At(r, "compare")
    /\ sessions' = IF req[r].seen.status = "ACTIVE"
                   THEN sessions \cup {req[r].seen.id} ELSE sessions
    /\ Done(r)
    /\ UNCHANGED <<user, lastId, evidence, cache>>

(* The caller holds a token and knows the current password. *)
StartChangePassword(r) ==
    /\ Arrives(r, "change")
    /\ user.id \in sessions
    /\ user.password # NoPassword
    /\ \E pw \in Passwords :
         Enter(r, "change", [Idle EXCEPT !.pc = "changeSave", !.pw = pw, !.seen = user])
    /\ UNCHANGED <<db, cache>>

SaveChange(r) ==
    LET seen == req[r].seen IN
    /\ At(r, "changeSave")
    /\ user' = IF seen.scrubbed \/ ~Stored(seen) THEN user
               ELSE [user EXCEPT !.password = req[r].pw]
    /\ Done(r)
    /\ UNCHANGED <<lastId, sessions, evidence, cache>>

-----------------------------------------------------------------------------
(* Social sign-in: linkSocialOrCreate, applySocialMerge *)

(* The branch applySocialMerge takes on the snapshot it was given. *)
MergeCall(doc, via) ==
    IF doc.status = "PENDING" THEN "flip"
    ELSE IF via \in doc.authType THEN "push" ELSE "addType"

StartSocial(r) ==
    /\ Arrives(r, "social")
    /\ user.status # "DELETED"
    /\ \E via \in Providers :
         Enter(r, "social",
               [Idle EXCEPT !.pc = IF user = NoUser THEN "createSocial" ELSE MergeCall(user, via),
                            !.via = via, !.seen = user])
    /\ evidence' = evidence \cup {"social"}
    /\ UNCHANGED <<user, lastId, sessions, cache>>

(* Apple without an e-mail: findByExternalId, then the same final checks. *)
SocialByExternalId(r) ==
    /\ Arrives(r, "social")
    /\ user.accounts # {}
    /\ user.status = "ACTIVE"
    /\ sessions' = sessions \cup {user.id}
    /\ UNCHANGED <<user, lastId, evidence, req, cache>>

SocialUser(via) == [NoUser EXCEPT !.id = lastId + 1, !.status = "ACTIVE",
                                  !.authType = {via}, !.accounts = {via}]

CreateSocial(r) ==
    /\ At(r, "createSocial")
    /\ \/ /\ user = NoUser
          /\ lastId < MaxIds
          /\ lastId' = lastId + 1
          /\ user' = SocialUser(req[r].via)
          /\ sessions' = sessions \cup {lastId + 1}
          /\ Done(r)
       \/ /\ user # NoUser
          /\ Goto(r, "reread")
          /\ UNCHANGED <<user, lastId, sessions>>
    /\ UNCHANGED <<evidence, cache>>

(* Lost the create race: the snapshot is read again and merged, this time
   with no check of its status. *)
RereadSocial(r) ==
    /\ At(r, "reread")
    /\ IF user = NoUser THEN Done(r)
       ELSE req' = [req EXCEPT ![r] = [req[r] EXCEPT !.pc = MergeCall(user, req[r].via), !.seen = user]]
    /\ UNCHANGED <<db, cache>>

TakeOverKeepingPassword(doc, via) ==
    [doc EXCEPT !.status = "ACTIVE", !.authType = {via}]

TakeOver(doc, via) ==
    [doc EXCEPT !.status = "ACTIVE", !.password = NoPassword, !.authType = {via}]

FlipByIdAlone(r) ==
    /\ At(r, "flip")
    /\ user' = IF Stored(req[r].seen) THEN TakeOver(user, req[r].via) ELSE user
    /\ Goto(r, "push")
    /\ UNCHANGED <<lastId, sessions, evidence, cache>>

(* updateOne({_id, status: PENDING}). *)
FlipPending(r) ==
    /\ At(r, "flip")
    /\ user' = IF Stored(req[r].seen) /\ user.status = "PENDING"
               THEN TakeOver(user, req[r].via) ELSE user
    /\ Goto(r, "push")
    /\ UNCHANGED <<lastId, sessions, evidence, cache>>

AddAuthType(r) ==
    /\ At(r, "addType")
    /\ user' = IF Stored(req[r].seen)
               THEN [user EXCEPT !.authType = @ \cup {req[r].via}] ELSE user
    /\ Goto(r, "push")
    /\ UNCHANGED <<lastId, sessions, evidence, cache>>

PushAccount(r) ==
    /\ At(r, "push")
    /\ user' = IF Stored(req[r].seen)
               THEN [user EXCEPT !.accounts = @ \cup {req[r].via}] ELSE user
    /\ Goto(r, "refresh")
    /\ UNCHANGED <<lastId, sessions, evidence, cache>>

(* findById, then finalizeSocialSignIn and login on what it returned. *)
FinishSocial(r) ==
    /\ At(r, "refresh")
    /\ sessions' = IF Stored(req[r].seen) /\ user.status = "ACTIVE"
                   THEN sessions \cup {user.id} ELSE sessions
    /\ Done(r)
    /\ UNCHANGED <<user, lastId, evidence, cache>>

-----------------------------------------------------------------------------
(* Deletion and the admin's status writes *)

(* deleteAccount, by the member or by permanentlyDeleteUser. *)
StartDelete(r) ==
    /\ Arrives(r, "delete")
    /\ user # NoUser
    /\ Enter(r, "delete", [Idle EXCEPT !.pc = "tombstone", !.seen = user])
    /\ UNCHANGED <<db, cache>>

(* Handlers other than r that may write into the document they have read. *)
Crowd(r) == {s \in Requests \ {r} : req[s].op \in {"verify", "reset", "change", "social", "status"}}

(* The document stays, its personal data does not. *)
Tombstone(r) ==
    /\ At(r, "tombstone")
    /\ user' = IF Stored(req[r].seen)
               THEN [NoUser EXCEPT !.id = user.id, !.status = "DELETED", !.scrubbed = TRUE,
                                   !.confirmed = user.confirmed, !.crowded = Crowd(r) # {}]
               ELSE user
    /\ Done(r)
    /\ UNCHANGED <<lastId, sessions, evidence, cache>>

(* updateUserStatus to any status; deleteUser and banUser to DELETED. *)
StartSetStatus(r) ==
    /\ Arrives(r, "status")
    /\ user # NoUser
    /\ \E s \in {"PENDING", "ACTIVE", "DELETED"} :
         Enter(r, "status", [Idle EXCEPT !.pc = "setStatus", !.target = s, !.seen = user])
    /\ UNCHANGED <<db, cache>>

(* save() writes the status only if it differs from the snapshot's. *)
SetStatus(r) ==
    LET seen == req[r].seen
        writes == ~seen.scrubbed /\ Stored(seen) /\ seen.status # req[r].target
    IN
    /\ At(r, "setStatus")
    /\ user' = IF writes
               THEN [user EXCEPT !.status = req[r].target,
                                 !.confirmed = IF req[r].target = "ACTIVE" THEN "yes" ELSE @]
               ELSE user
    /\ evidence' = IF writes /\ req[r].target = "ACTIVE" THEN evidence \cup {"admin"} ELSE evidence
    /\ Done(r)
    /\ UNCHANGED <<lastId, sessions, cache>>

-----------------------------------------------------------------------------
(* Failures and expiry *)

(* Where the handler goes when the call it is making throws: signup rolls
   back, generateCode clears its keys, a failed rollback delete is logged
   and the keys are cleared all the same; the rest give up. *)
Handled(l) ==
    IF l.op = "signup" /\ l.pc \in {"store", "startCooldown", "mail"} THEN "rollback"
    ELSE IF l.op = "generate" /\ l.pc \in {"draw", "store", "clearAttempts", "startCooldown", "mail"}
    THEN "clearState"
    ELSE IF l.pc = "rollback" THEN "clearState"
    ELSE "idle"

CallFails(r) ==
    /\ CanFail
    /\ req[r].pc \notin {"idle", "clearState"}
    /\ IF Handled(req[r]) = "idle" THEN Done(r)
       ELSE req' = [req EXCEPT ![r] = [req[r] EXCEPT !.pc = Handled(req[r]), !.code = NoCode,
                                                   !.owner = 0]]
    /\ outdated' = outdated \ {r}
    /\ UNCHANGED <<db, otp, attempts, cooldown, sentFor>>

(* The time to live of a key runs out. *)
Expire(p) ==
    \/ /\ otp[p] # NoCode
       /\ otp' = [otp EXCEPT ![p] = NoCode]
       /\ ForgetOwner
       /\ UNCHANGED <<attempts, cooldown, outdated, db, req>>
    \/ /\ attempts[p] # 0
       /\ attempts' = [attempts EXCEPT ![p] = 0]
       /\ UNCHANGED <<otp, cooldown, sentFor, outdated, db, req>>
    \/ /\ cooldown[p]
       /\ cooldown' = [cooldown EXCEPT ![p] = FALSE]
       /\ UNCHANGED <<otp, attempts, sentFor, outdated, db, req>>

-----------------------------------------------------------------------------
Init ==
    /\ user = NoUser
    /\ lastId = 0
    /\ otp = [p \in Purposes |-> NoCode]
    /\ attempts = [p \in Purposes |-> 0]
    /\ cooldown = [p \in Purposes |-> FALSE]
    /\ sessions = {}
    /\ req = [r \in Requests |-> Idle]
    /\ evidence = {}
    /\ sentFor = 0
    /\ outdated = {}

Signup(r) == StartSignup(r) \/ CreatePending(r) \/ RollbackPendingSignup(r)

Issue(r) == \/ StartGenerateCode(r) \/ StartForgotPassword(r) \/ AssertOtpNotInCooldown(r)
            \/ DrawOtp(r) \/ StoreOtp(r) \/ ClearOtpAttempts(r) \/ SetOtpCooldown(r)
            \/ SendMail(r) \/ ClearOtpState(r)

Submit(r) == \/ StartVerifyCode(r) \/ StartResetPassword(r) \/ GetOtp(r)
             \/ GetAttempts(r) \/ LockOtp(r) \/ LockAttempts(r) \/ CountAttempt(r)
             \/ ActivateAndAddLocalAuth(r) \/ SaveReset(r)
             \/ ConsumeOtp(r) \/ ConsumeAttempts(r)

Session(r) == StartLogin(r) \/ SignToken(r) \/ StartChangePassword(r) \/ SaveChange(r)

Social(r) == \/ StartSocial(r) \/ SocialByExternalId(r) \/ CreateSocial(r)
             \/ RereadSocial(r) \/ FlipPending(r) \/ AddAuthType(r)
             \/ PushAccount(r) \/ FinishSocial(r)

Remove(r) == StartDelete(r) \/ Tombstone(r) \/ StartSetStatus(r) \/ SetStatus(r)

Step(r) == Signup(r) \/ Issue(r) \/ Submit(r) \/ Session(r) \/ Social(r) \/ Remove(r) \/ CallFails(r)

Next == (\E r \in Requests : Step(r)) \/ (\E p \in Purposes : Expire(p))

Spec == Init /\ [][Next]_vars

-----------------------------------------------------------------------------
(* Properties *)

(* The types of the variables.  An attempt counter never reaches
   MAX_OTP_ATTEMPTS: the request that would write that value deletes the
   code and the counter instead (recordWrongOtpAttempt). *)
TypeOK ==
    /\ user \in UserDocs
    /\ lastId \in 0 .. MaxIds
    /\ otp \in [Purposes -> Codes \cup {NoCode}]
    /\ attempts \in [Purposes -> 0 .. MaxAttempts - 1]
    /\ cooldown \in [Purposes -> BOOLEAN]
    /\ sessions \subseteq 0 .. MaxIds
    /\ req \in [Requests -> Locals]
    /\ evidence \subseteq {"otp", "social", "admin"}
    /\ sentFor \in 0 .. MaxIds
    /\ outdated \subseteq Requests

(* The status of the account, its password and the evidence behind them
   move as AccountLifecycle allows: the promise of the whole component. *)
Lifecycle == INSTANCE AccountLifecycle
                 WITH status <- user.status, password <- user.password
ImplementsLifecycle == Lifecycle!Spec

(* A usable account accepts no password but that of a registration for which
   a code mailed for it was presented, one chosen with a reset code, or one
   an admin let in - whatever sign-ups, social sign-ins and rollbacks were in
   flight (applySocialMerge wipes an untrusted password).  The exception is a
   stray activation: verifyCode matched a code mailed for a registration that
   was rolled back and made again before updateOne({email}) reached it. *)
PasswordConfirmedUnlessStray ==
    user.status = "ACTIVE" /\ user.password # NoPassword => user.confirmed # "no"

(* No token is signed and no account is usable before control of the address
   was shown (login refuses PENDING and DELETED). *)
NoAccessWithoutEvidence ==
    user.status = "ACTIVE" \/ sessions # {} => evidence # {}

(* A deletion during which nobody else was at work on the account leaves a
   tombstone that no later request puts a credential into ("scrub PII,
   retain tombstone fields", users.service.ts:987): resets are refused by
   the validation of what they read, everything else by the status. *)
TombstoneScrubbedUnlessCrowded ==
    user.scrubbed /\ ~user.crowded
        => /\ user.status = "DELETED"
           /\ user.password = NoPassword /\ user.authType = {} /\ user.accounts = {}

(* What the promises above rest on, and are proved with.
   The document in the collection, the tokens and the ids agree. *)
Shape ==
    /\ user.id <= lastId
    /\ user.id = 0 => user = NoUser
    /\ user.status = "NONE" => user = NoUser
    /\ sessions \subseteq 1 .. lastId

(* Control of the address, by whomever and for whichever document. *)
Verified == Lifecycle!Verified

ConfirmedHasEvidence == user.confirmed # "no" => Verified

(* The document a handler has read is still stored only as a confirmed one. *)
StillConfirmed(doc) == Stored(doc) => user.confirmed # "no"

(* A request that is about to make an account usable, or to set a password,
   has the evidence for it, whatever happened since it looked. *)
Justified(r) ==
    /\ req[r].pc \in {"activate", "save", "changeSave"} => Verified
    /\ req[r].pc \in {"createSocial", "reread", "flip", "addType", "push", "refresh"}
          => "social" \in evidence
    /\ req[r].pc = "changeSave" \/ (req[r].pc = "compare" /\ req[r].seen.status = "ACTIVE")
          => /\ Verified
             /\ req[r].seen.id \in 1 .. lastId
             /\ StillConfirmed(req[r].seen)
    /\ req[r].pc \in {"create", "save", "changeSave"} => req[r].pw \in Passwords
    /\ req[r].pc = "getOtp" /\ req[r].op # "verify" => req[r].pw \in Passwords
    /\ req[r].pc = "setStatus" => req[r].target # "NONE"

RequestsJustified == \A r \in Requests : Justified(r)

(* The password behind a signed token is confirmed even while the account is
   not usable. *)
SessionsConfirmed ==
    user.id \in sessions /\ user.password # NoPassword => user.confirmed # "no"

AuthInv ==
    /\ TypeOK /\ Shape /\ RequestsJustified /\ SessionsConfirmed /\ ConfirmedHasEvidence
    /\ PasswordConfirmedUnlessStray /\ NoAccessWithoutEvidence

(* The operation each writing call belongs to. *)
Serves(l) ==
    /\ l.pc = "create" => l.op = "signup"
    /\ l.pc = "activate" => l.op = "verify"
    /\ l.pc = "save" => l.op = "reset"
    /\ l.pc = "getOtp" => l.op \in {"verify", "reset"}
    /\ l.pc = "changeSave" => l.op = "change"
    /\ l.pc \in {"createSocial", "reread", "flip", "addType", "push", "refresh"} => l.op = "social"
    /\ l.pc = "setStatus" => l.op = "status"

(* A request cannot write a credential or a status into the tombstone: what
   it read was the tombstone, which does not validate. *)
Harmless(l) ==
    /\ l.op \notin {"verify", "change", "social"}
    /\ l.pc \in {"save", "setStatus"} \/ (l.pc = "getOtp" /\ l.op = "reset") => l.seen.scrubbed

TombstoneInv ==
    /\ \A r \in Requests : Serves(req[r])
    /\ TombstoneScrubbedUnlessCrowded
    /\ user.scrubbed /\ ~user.crowded => \A r \in Requests : Harmless(req[r])

(* A code generateCode drew against the stored one still differs from it,
   unless another was stored since. *)
DrawnCodesDiffer ==
    \A r \in Requests \ outdated :
        At(r, "store") /\ req[r].op = "generate"
            => req[r].code \in Codes \ {otp[req[r].purpose]}

(* A sign-up whose mail failed rolls its registration back; it never removes
   an account that was verified, taken over or closed in the meantime
   (deletePendingUserById). *)
VerifiedNeverRemoved ==
    [][user.status \in {"ACTIVE", "DELETED"} => user' # NoUser]_vars

(* The address keeps its document: no handler holding an old snapshot
   replaces the stored document by another one. *)
OneDocumentPerAddress ==
    [][user # NoUser /\ user' # NoUser => user'.id = user.id]_vars

(* Nothing brings a closed account back except the activation of a pending
   sign-up that was already past its status check, and an admin. *)
OnlyActivationRevives ==
    [][user.status = "DELETED" /\ user'.status # "DELETED"
         => \E r \in Requests : At(r, "activate") \/ At(r, "setStatus")]_vars

(* "invalidates the previous signup OTP when resending"
   (auth.service.spec.ts:323): a code that generateCode stores over one that
   is still valid differs from it, whatever expired, was consumed or locked
   in between - unless another request stored its code since the draw. *)
ResendReplacesCodeUnlessOutdated ==
    [][\A r \in Requests \ outdated :
         At(r, "store") /\ req[r].op = "generate" /\ req'[r].pc = "clearAttempts"
           => otp'[req[r].purpose] # otp[req[r].purpose]]_vars

(* "All writes use atomic operators so concurrent sign-ins are race-safe"
   (users.service.ts:197): once nothing is in flight, every provider with an
   account record is one of the account's sign-in methods. *)
AccountsLinked ==
    (\A r \in Requests : At(r, "idle")) => user.accounts \subseteq user.authType

=============================================================================
