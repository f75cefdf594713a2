------------------------- MODULE AccountAuthProofs -------------------------
(***************************************************************************)
(* Proofs about AccountAuth, for every number of requests, passwords,      *)
(* providers, codes, attempts and documents: first the codes and the       *)
(* types; then AccountAuth implements AccountLifecycle and keeps its       *)
(* promises: AuthInv is inductive, and every step of a handler is a step   *)
(* of the lifecycle or leaves it alone.  TombstoneInv and DrawnCodesDiffer *)
(* are inductive beside it: a tombstone stays empty and a resent code      *)
(* differs, however many requests are in flight.                           *)
(***************************************************************************)
EXTENDS AccountAuth, TLAPS

USE AuthAssumption, CodeRange

(* generateOtp returns a six-digit code other than the previous one, and
   any other code can come out. *)
LEMMA NextCodesType ==
    ASSUME NEW previous \in Codes \cup {NoCode}
    PROVE  NextCodes(previous) \subseteq Codes
  BY DEF NextCodes, GenerateOtp, Draws, HasPrevious, Codes, NoCode

THEOREM NextCodesExact ==
    ASSUME NEW previous \in Codes
    PROVE  NextCodes(previous) = Codes \ {previous}
<1>1. NextCodes(previous) \subseteq Codes \ {previous}
  BY DEF NextCodes, GenerateOtp, Draws, HasPrevious, Codes
<1>2. ASSUME NEW c \in Codes \ {previous}
      PROVE  c \in NextCodes(previous)
  <2>1. CASE c < previous
    <3>1. c \in Draws(previous) /\ GenerateOtp(previous, c) = c
      BY <2>1 DEF GenerateOtp, Draws, HasPrevious, Codes
    <3> QED BY <3>1 DEF NextCodes
  <2>2. CASE c > previous
    <3>1. c - 1 \in Draws(previous) /\ GenerateOtp(previous, c - 1) = c
      BY <2>2 DEF GenerateOtp, Draws, HasPrevious, Codes
    <3> QED BY <3>1 DEF NextCodes
  <2> QED BY <2>1, <2>2 DEF Codes
<1> QED BY <1>1, <1>2

-----------------------------------------------------------------------------
(* Type correctness *)

LEMMA NoOwner == 0 \in 0 .. MaxIds
  OBVIOUS

LEMMA IdleType == Idle \in Locals /\ NoUser \in UserDocs
  BY DEF Idle, Locals, NoUser, UserDocs, Calls, Purposes, AuthTypes, Codes, AllHandlers

LEMMA TypeInit == Init => TypeOK
  BY IdleType DEF Init, TypeOK, Purposes

(* What the three ways of moving a request leave of its type. *)
LEMMA EnterType ==
    ASSUME TypeOK, NEW r \in Requests, NEW l \in Locals, NEW op \in AllHandlers,
           Enter(r, op, l)
    PROVE  req' \in [Requests -> Locals]
  BY DEF TypeOK, Enter, Locals

LEMMA GotoType ==
    ASSUME TypeOK, NEW r \in Requests, NEW call \in Calls, Goto(r, call)
    PROVE  req' \in [Requests -> Locals]
<1>1. req[r] \in Locals
  BY DEF TypeOK
<1>2. [req[r] EXCEPT !.pc = call] \in Locals
  BY <1>1 DEF Locals
<1> QED BY <1>2 DEF TypeOK, Goto

LEMMA DoneType ==
    ASSUME TypeOK, NEW r \in Requests, Done(r)
    PROVE  req' \in [Requests -> Locals]
  BY IdleType DEF TypeOK, Done

LEMMA SetType ==
    ASSUME TypeOK, NEW r \in Requests, NEW l \in Locals, req' = [req EXCEPT ![r] = l]
    PROVE  req' \in [Requests -> Locals]
  BY DEF TypeOK

LEMMA SignupType == ASSUME TypeOK, NEW r \in Requests, Signup(r) PROVE TypeOK'
<1>1. CASE StartSignup(r)
  <2>1. req' \in [Requests -> Locals]
    <3>1. PICK pw \in Passwords : StartSignup(r)!2!(pw)
      BY <1>1 DEF StartSignup
    <3>2. [Idle EXCEPT !.pc = "create", !.pw = pw] \in Locals
      BY IdleType DEF Locals, Calls
    <3>3. ASSUME NEW c \in NextCodes(NoCode)
          PROVE  [Idle EXCEPT !.pc = "store", !.code = c, !.seen = user, !.owner = user.id] \in Locals
      <4>1. user.id \in 0 .. MaxIds
        BY DEF TypeOK, UserDocs
      <4> QED BY <4>1, IdleType, NextCodesType DEF Locals, Calls, TypeOK
    <3> QED BY <3>1, <3>2, <3>3, EnterType DEF AllHandlers
  <2> QED BY <1>1, <2>1 DEF StartSignup, db, cache, TypeOK
<1>2. CASE CreatePending(r)
  <2>1. CASE user = NoUser
    <3>1. lastId' \in 1 .. MaxIds /\ lastId' = lastId + 1
      BY <1>2, <2>1 DEF CreatePending, TypeOK
    <3>2. PendingUser(req[r].pw) \in UserDocs
      <4>1. req[r].pw \in Passwords \cup {NoPassword}
        BY DEF TypeOK, Locals
      <4>2. lastId + 1 \in 0 .. MaxIds
        BY <3>1 DEF TypeOK
      <4> QED BY <4>1, <4>2 DEF PendingUser, NoUser, UserDocs, AuthTypes
    <3>3. ASSUME NEW c \in NextCodes(NoCode)
          PROVE  [req[r] EXCEPT !.pc = "store", !.code = c, !.pw = NoPassword,
                                !.seen = PendingUser(req[r].pw), !.owner = lastId + 1] \in Locals
      <4>1. req[r] \in Locals /\ lastId + 1 \in 0 .. MaxIds
        BY <3>1 DEF TypeOK
      <4> QED BY <3>2, <3>3, <4>1, NextCodesType DEF Locals, Calls
    <3>4. req' \in [Requests -> Locals]
      BY <1>2, <2>1, <3>3, SetType, DoneType DEF CreatePending, RegistrationStored
    <3> QED BY <1>2, <2>1, <3>1, <3>2, <3>4 DEF CreatePending, cache, TypeOK
  <2>2. CASE user # NoUser
    BY <1>2, <2>2, DoneType DEF CreatePending, cache, TypeOK
  <2> QED BY <2>1, <2>2
<1>3. CASE RollbackPendingSignup(r)
  <2>1. Goto(r, "clearState")
    BY <1>3 DEF RollbackPendingSignup
  <2>2. req' \in [Requests -> Locals]
    BY <2>1, GotoType DEF Calls
  <2>3. user' \in UserDocs
    BY <1>3, IdleType DEF RollbackPendingSignup, TypeOK
  <2> QED BY <1>3, <2>2, <2>3 DEF RollbackPendingSignup, cache, TypeOK
<1> QED BY <1>1, <1>2, <1>3 DEF Signup

LEMMA IssueType == ASSUME TypeOK, NEW r \in Requests, Issue(r) PROVE TypeOK'
<1>b. req[r] \in Locals
  BY DEF TypeOK
<1>a. user \in UserDocs
  BY DEF TypeOK
<1>1. CASE StartGenerateCode(r)
  <2>1. [Idle EXCEPT !.pc = "checkCooldown",
                     !.purpose = IF user.status = "PENDING" THEN "signup" ELSE "reset",
                     !.owner = user.id] \in Locals
    <3>1. user.id \in 0 .. MaxIds
      BY <1>a DEF UserDocs
    <3> QED BY <3>1, IdleType DEF Locals, Calls, Purposes
  <2> QED BY <1>1, <2>1, EnterType DEF StartGenerateCode, AllHandlers, TypeOK, db, cache
<1>2. CASE StartForgotPassword(r)
  <2>1. [Idle EXCEPT !.pc = "checkCooldown", !.purpose = "reset"] \in Locals
    BY <1>a, IdleType DEF Locals, Calls, Purposes
  <2> QED BY <1>2, <2>1, EnterType DEF StartForgotPassword, AllHandlers, TypeOK, db, cache
<1>3. ASSUME NEW previous \in Codes \cup {NoCode}, NEW c \in NextCodes(previous)
      PROVE  [req[r] EXCEPT !.pc = "store", !.code = c] \in Locals
  BY <1>b, <1>3, NextCodesType DEF Locals, Calls
<1>4. CASE AssertOtpNotInCooldown(r)
  <2>1. req' \in [Requests -> Locals]
    BY <1>3, <1>4, DoneType, GotoType, SetType DEF AssertOtpNotInCooldown, Calls
  <2> QED BY <1>4, <2>1 DEF AssertOtpNotInCooldown, TypeOK, db, cache
<1>5. CASE DrawOtp(r)
  <2>1. otp[req[r].purpose] \in Codes \cup {NoCode}
    BY <1>b DEF Locals, TypeOK
  <2>2. req' \in [Requests -> Locals]
    BY <1>3, <1>5, <2>1, SetType DEF DrawOtp
  <2> QED BY <1>5, <2>2 DEF DrawOtp, TypeOK, db
<1>6. CASE StoreOtp(r)
  <2>1. [req[r] EXCEPT !.pc = AfterStore(req[r].op), !.code = NoCode, !.owner = 0] \in Locals
    <3>1. AfterStore(req[r].op) \in Calls
      BY DEF AfterStore, Calls
    <3> QED BY <1>b, <3>1, NoOwner DEF Locals
  <2>2. req' \in [Requests -> Locals]
    BY <1>6, <2>1, SetType DEF StoreOtp
  <2>3. req[r].code \in Codes \cup {NoCode} /\ req[r].purpose \in Purposes /\ req[r].owner \in 0 .. MaxIds
    BY <1>b DEF Locals
  <2>4. sentFor' \in 0 .. MaxIds /\ outdated' \subseteq Requests
    BY <1>6, <2>3 DEF StoreOtp, Overtaken, TypeOK
  <2> QED BY <1>6, <2>2, <2>3, <2>4 DEF StoreOtp, TypeOK, db
<1>7. CASE ClearOtpAttempts(r)
  <2>1. req' \in [Requests -> Locals]
    BY <1>7, GotoType DEF ClearOtpAttempts, Calls
  <2>2. attempts' \in [Purposes -> 0 .. MaxAttempts - 1]
    <3>1. req[r].purpose \in Purposes
      BY <1>b DEF Locals
    <3> QED BY <1>7, <3>1 DEF ClearOtpAttempts, TypeOK
  <2> QED BY <1>7, <2>1, <2>2 DEF ClearOtpAttempts, TypeOK, db, cache
<1>8. CASE SetOtpCooldown(r)
  <2>1. req' \in [Requests -> Locals]
    BY <1>8, GotoType, DoneType DEF SetOtpCooldown, Calls
  <2> QED BY <1>8, <2>1 DEF SetOtpCooldown, TypeOK, db, cache
<1>9. CASE SendMail(r)
  BY <1>9, DoneType DEF SendMail, TypeOK, db, cache
<1>10. CASE ClearOtpState(r)
  <2>1. req[r].purpose \in Purposes
    BY <1>b DEF Locals
  <2>2. req' \in [Requests -> Locals]
    BY <1>10, DoneType DEF ClearOtpState, TypeOK
  <2>3. otp' \in [Purposes -> Codes \cup {NoCode}] /\ attempts' \in [Purposes -> 0 .. MaxAttempts - 1]
    BY <1>10, <2>1 DEF ClearOtpState, TypeOK
  <2>4. cooldown' \in [Purposes -> BOOLEAN]
    BY <1>10, <2>1 DEF ClearOtpState, TypeOK
  <2> QED BY <1>10, <2>2, <2>3, <2>4 DEF ClearOtpState, ForgetOwner, TypeOK, db
<1> QED BY <1>1, <1>2, <1>4, <1>5, <1>6, <1>7, <1>8, <1>9, <1>10 DEF Issue

LEMMA SubmitType == ASSUME TypeOK, NEW r \in Requests, Submit(r) PROVE TypeOK'
<1>b. req[r] \in Locals
  BY DEF TypeOK
<1>0. req[r].purpose \in Purposes /\ req[r].op \in AllHandlers \cup {"none"}
  BY <1>b DEF Locals
<1>a. user \in UserDocs
  BY DEF TypeOK
<1>1. CASE StartVerifyCode(r)
  <2>1. ASSUME NEW c \in Codes PROVE [Idle EXCEPT !.pc = "getOtp", !.code = c] \in Locals
    BY <1>a, IdleType DEF Locals, Calls
  <2>2. req' \in [Requests -> Locals]
    BY <1>1, <2>1, EnterType DEF StartVerifyCode, AllHandlers
  <2> QED BY <1>1, <2>2 DEF StartVerifyCode, TypeOK, db, cache
<1>2. CASE StartResetPassword(r)
  <2>1. ASSUME NEW c \in Codes, NEW pw \in Passwords
        PROVE  [Idle EXCEPT !.pc = "getOtp", !.purpose = "reset",
                            !.code = c, !.pw = pw, !.seen = user] \in Locals
    BY <1>a, IdleType DEF Locals, Calls, Purposes
  <2>2. req' \in [Requests -> Locals]
    BY <1>2, <2>1, EnterType DEF StartResetPassword, AllHandlers
  <2> QED BY <1>2, <2>2 DEF StartResetPassword, TypeOK, db, cache
<1>3. CASE GetOtp(r)
  <2>1. Matched(req[r]) \in Locals
    <3>1. AfterMatch(req[r].op) \in Calls /\ sentFor \in 0 .. MaxIds
      BY DEF AfterMatch, Calls, TypeOK
    <3>2. (IF req[r].op = "verify" THEN sentFor ELSE req[r].owner) \in 0 .. MaxIds
      BY <1>b, <3>1 DEF Locals
    <3> QED BY <1>b, <3>1, <3>2 DEF Locals, Matched
  <2>2. [Idle EXCEPT !.pc = "getAttempts", !.op = req[r].op, !.purpose = req[r].purpose] \in Locals
    BY <1>0, IdleType DEF Locals, Calls
  <2>3. req' \in [Requests -> Locals]
    BY <1>3, <2>1, <2>2, SetType, DoneType DEF GetOtp, TypeOK
  <2>4. evidence' \subseteq {"otp", "social", "admin"}
    BY <1>3 DEF GetOtp, TypeOK
  <2> QED BY <1>3, <2>3, <2>4 DEF GetOtp, TypeOK, db, cache
<1>4. CASE GetAttempts(r)
  <2>1. attempts[req[r].purpose] \in 0 .. MaxAttempts - 1
    BY <1>0 DEF TypeOK
  <2>2. ASSUME attempts[req[r].purpose] + 1 < MaxAttempts
        PROVE  [req[r] EXCEPT !.pc = "count", !.count = attempts[req[r].purpose] + 1] \in Locals
    <3>1. attempts[req[r].purpose] + 1 \in 0 .. MaxAttempts - 1
      BY <2>1, <2>2
    <3> QED BY <1>b, <3>1 DEF Locals, Calls
  <2>3. req' \in [Requests -> Locals]
    <3>1. CASE attempts[req[r].purpose] + 1 >= MaxAttempts
      BY <1>4, <3>1, GotoType DEF GetAttempts, Calls
    <3>2. CASE ~(attempts[req[r].purpose] + 1 >= MaxAttempts)
      <4>1. attempts[req[r].purpose] + 1 < MaxAttempts
        BY <2>1, <3>2
      <4>2. req' = [req EXCEPT ![r] = [req[r] EXCEPT !.pc = "count",
                                                    !.count = attempts[req[r].purpose] + 1]]
        BY <1>4, <3>2 DEF GetAttempts
      <4> QED BY <2>2, <4>1, <4>2, SetType
    <3> QED BY <3>1, <3>2
  <2> QED BY <1>4, <2>3 DEF GetAttempts, TypeOK, db, cache
<1>5. CASE LockOtp(r)
  <2>1. req' \in [Requests -> Locals]
    BY <1>5, GotoType DEF LockOtp, Calls
  <2> QED BY <1>0, <1>5, <2>1 DEF LockOtp, ForgetOwner, TypeOK, db
<1>6. CASE LockAttempts(r)
  <2>1. req' \in [Requests -> Locals]
    BY <1>6, DoneType DEF LockAttempts
  <2> QED BY <1>0, <1>6, <2>1 DEF LockAttempts, TypeOK, db, cache
<1>7. CASE CountAttempt(r)
  <2>1. req' \in [Requests -> Locals]
    BY <1>7, DoneType DEF CountAttempt
  <2>2. req[r].count \in 0 .. MaxAttempts - 1
    BY <1>b DEF Locals
  <2> QED BY <1>7, <2>1, <2>2 DEF CountAttempt, TypeOK, db, cache
<1>8. CASE ActivateAndAddLocalAuth(r)
  <2>1. req' \in [Requests -> Locals]
    <3>1. [req[r] EXCEPT !.pc = "consume", !.owner = 0] \in Locals
      BY <1>b, NoOwner DEF Locals, Calls
    <3> QED BY <1>8, <3>1, SetType, DoneType DEF ActivateAndAddLocalAuth
  <2>2. user' \in UserDocs
    <3>1. user.authType \cup {"LOCAL"} \in SUBSET AuthTypes
      BY <1>a DEF UserDocs, AuthTypes
    <3>2. ConfirmedBy(req[r].owner) \in {"no", "yes", "stray"}
      BY <1>a DEF ConfirmedBy, UserDocs
    <3> QED BY <1>8, <1>a, <3>1, <3>2 DEF ActivateAndAddLocalAuth, UserDocs
  <2> QED BY <1>8, <2>1, <2>2 DEF ActivateAndAddLocalAuth, TypeOK, db, cache
<1>9. CASE SaveReset(r)
  <2>1. [req[r] EXCEPT !.pc = "consume", !.seen = NoUser, !.pw = NoPassword] \in Locals
    BY <1>b, IdleType DEF Locals, Calls
  <2>2. req' \in [Requests -> Locals]
    BY <1>9, <2>1, SetType, DoneType DEF SaveReset
  <2>3. req[r].pw \in Passwords \cup {NoPassword}
    BY <1>b DEF Locals
  <2>4. user' \in UserDocs
    <3>1. user.authType \cup {"LOCAL"} \in SUBSET AuthTypes
      BY <1>a DEF UserDocs, AuthTypes
    <3> QED BY <1>9, <1>a, <2>3, <3>1 DEF SaveReset, UserDocs
  <2> QED BY <1>9, <2>2, <2>4 DEF SaveReset, TypeOK, db, cache
<1>10. CASE ConsumeOtp(r)
  <2>1. req' \in [Requests -> Locals]
    BY <1>10, GotoType DEF ConsumeOtp, Calls
  <2> QED BY <1>0, <1>10, <2>1 DEF ConsumeOtp, ForgetOwner, TypeOK, db
<1>11. CASE ConsumeAttempts(r)
  <2>1. req' \in [Requests -> Locals]
    BY <1>11, DoneType DEF ConsumeAttempts
  <2> QED BY <1>0, <1>11, <2>1 DEF ConsumeAttempts, TypeOK, db, cache
<1> QED BY <1>1, <1>2, <1>3, <1>4, <1>5, <1>6, <1>7, <1>8, <1>9, <1>10, <1>11 DEF Submit

LEMMA SessionType == ASSUME TypeOK, NEW r \in Requests, Session(r) PROVE TypeOK'
<1>a. user \in UserDocs
  BY DEF TypeOK
<1>b. req[r] \in Locals
  BY DEF TypeOK
<1>1. CASE StartLogin(r)
  <2>1. [Idle EXCEPT !.pc = "compare", !.seen = user] \in Locals
    BY <1>a, IdleType DEF Locals, Calls
  <2> QED BY <1>1, <2>1, EnterType DEF StartLogin, AllHandlers, TypeOK, db, cache
<1>2. CASE SignToken(r)
  <2>1. req[r].seen.id \in 0 .. MaxIds
    BY <1>b DEF Locals, UserDocs
  <2>2. req' \in [Requests -> Locals]
    BY <1>2, DoneType DEF SignToken
  <2> QED BY <1>2, <2>1, <2>2 DEF SignToken, TypeOK, cache
<1>3. CASE StartChangePassword(r)
  <2>1. ASSUME NEW pw \in Passwords
        PROVE  [Idle EXCEPT !.pc = "changeSave", !.pw = pw, !.seen = user] \in Locals
    BY <1>a, IdleType DEF Locals, Calls
  <2>2. req' \in [Requests -> Locals]
    BY <1>3, <2>1, EnterType DEF StartChangePassword, AllHandlers
  <2> QED BY <1>3, <2>2 DEF StartChangePassword, TypeOK, db, cache
<1>4. CASE SaveChange(r)
  <2>1. req[r].pw \in Passwords \cup {NoPassword}
    BY <1>b DEF Locals
  <2>2. user' \in UserDocs
    BY <1>4, <1>a, <2>1 DEF SaveChange, UserDocs
  <2>3. req' \in [Requests -> Locals]
    BY <1>4, DoneType DEF SaveChange
  <2> QED BY <1>4, <2>2, <2>3 DEF SaveChange, TypeOK, cache
<1> QED BY <1>1, <1>2, <1>3, <1>4 DEF Session

LEMMA SocialType == ASSUME TypeOK, NEW r \in Requests, Social(r) PROVE TypeOK'
<1>a. user \in UserDocs
  BY DEF TypeOK
<1>b. req[r] \in Locals
  BY DEF TypeOK
<1>c. req[r].via \in AuthTypes
  BY <1>b DEF Locals
<1>1. CASE StartSocial(r)
  <2>1. ASSUME NEW via \in Providers
        PROVE  [Idle EXCEPT !.pc = IF user = NoUser THEN "createSocial" ELSE MergeCall(user, via),
                            !.via = via, !.seen = user] \in Locals
    <3>1. (IF user = NoUser THEN "createSocial" ELSE MergeCall(user, via)) \in Calls
      BY DEF MergeCall, Calls
    <3> QED BY <1>a, <3>1, IdleType DEF Locals, AuthTypes
  <2>2. req' \in [Requests -> Locals]
    BY <1>1, <2>1, EnterType DEF StartSocial, AllHandlers
  <2> QED BY <1>1, <2>2 DEF StartSocial, TypeOK, cache
<1>2. CASE SocialByExternalId(r)
  <2>1. user.id \in 0 .. MaxIds
    BY <1>a DEF UserDocs
  <2> QED BY <1>2, <2>1 DEF SocialByExternalId, TypeOK, cache
<1>3. CASE CreateSocial(r)
  <2>1. CASE user = NoUser
    <3>1. lastId' = lastId + 1 /\ lastId + 1 \in 0 .. MaxIds /\ Done(r)
          /\ user' = SocialUser(req[r].via) /\ sessions' = sessions \cup {lastId + 1}
      BY <1>3, <2>1 DEF CreateSocial, TypeOK
    <3>2. SocialUser(req[r].via) \in UserDocs
      BY <1>c, <3>1, IdleType DEF SocialUser, UserDocs
    <3> QED BY <1>3, <3>1, <3>2, DoneType DEF CreateSocial, TypeOK, cache
  <2>2. CASE user # NoUser
    BY <1>3, <2>2, GotoType DEF CreateSocial, TypeOK, cache, Calls
  <2> QED BY <2>1, <2>2
<1>4. CASE RereadSocial(r)
  <2>1. [req[r] EXCEPT !.pc = MergeCall(user, req[r].via), !.seen = user] \in Locals
    BY <1>a, <1>b DEF MergeCall, Calls, Locals
  <2>2. req' \in [Requests -> Locals]
    BY <1>4, <2>1, SetType, DoneType DEF RereadSocial
  <2> QED BY <1>4, <2>2 DEF RereadSocial, TypeOK, db, cache
<1>5. CASE FlipPending(r)
  <2>1. TakeOver(user, req[r].via) \in UserDocs
    BY <1>a, <1>c DEF TakeOver, UserDocs
  <2>2. user' \in UserDocs
    BY <1>a, <1>5, <2>1 DEF FlipPending
  <2>3. req' \in [Requests -> Locals]
    BY <1>5, GotoType DEF FlipPending, Calls
  <2> QED BY <1>5, <2>2, <2>3 DEF FlipPending, TypeOK, cache
<1>6. CASE AddAuthType(r)
  <2>1. user.authType \cup {req[r].via} \in SUBSET AuthTypes
    BY <1>a, <1>c DEF UserDocs
  <2>2. user' \in UserDocs
    BY <1>a, <1>6, <2>1 DEF AddAuthType, UserDocs
  <2>3. req' \in [Requests -> Locals]
    BY <1>6, GotoType DEF AddAuthType, Calls
  <2> QED BY <1>6, <2>2, <2>3 DEF AddAuthType, TypeOK, cache
<1>7. CASE PushAccount(r)
  <2>1. user.accounts \cup {req[r].via} \in SUBSET AuthTypes
    BY <1>a, <1>c DEF UserDocs
  <2>2. user' \in UserDocs
    BY <1>a, <1>7, <2>1 DEF PushAccount, UserDocs
  <2>3. req' \in [Requests -> Locals]
    BY <1>7, GotoType DEF PushAccount, Calls
  <2> QED BY <1>7, <2>2, <2>3 DEF PushAccount, TypeOK, cache
<1>8. CASE FinishSocial(r)
  <2>1. user.id \in 0 .. MaxIds
    BY <1>a DEF UserDocs
  <2>2. req' \in [Requests -> Locals]
    BY <1>8, DoneType DEF FinishSocial
  <2> QED BY <1>8, <2>1, <2>2 DEF FinishSocial, TypeOK, cache
<1> QED BY <1>1, <1>2, <1>3, <1>4, <1>5, <1>6, <1>7, <1>8 DEF Social

LEMMA RemoveType == ASSUME TypeOK, NEW r \in Requests, Remove(r) PROVE TypeOK'
<1>a. user \in UserDocs
  BY DEF TypeOK
<1>b. req[r] \in Locals
  BY DEF TypeOK
<1>1. CASE StartDelete(r)
  <2>1. [Idle EXCEPT !.pc = "tombstone", !.seen = user] \in Locals
    BY <1>a, IdleType DEF Locals, Calls
  <2> QED BY <1>1, <2>1, EnterType DEF StartDelete, AllHandlers, TypeOK, db, cache
<1>2. CASE Tombstone(r)
  <2>1. [NoUser EXCEPT !.id = user.id, !.status = "DELETED", !.scrubbed = TRUE,
                       !.confirmed = user.confirmed, !.crowded = Crowd(r) # {}] \in UserDocs
    BY <1>a, IdleType DEF UserDocs
  <2>2. user' \in UserDocs
    BY <1>a, <1>2, <2>1 DEF Tombstone
  <2>3. req' \in [Requests -> Locals]
    BY <1>2, DoneType DEF Tombstone
  <2> QED BY <1>2, <2>2, <2>3 DEF Tombstone, TypeOK, cache
<1>3. CASE StartSetStatus(r)
  <2>1. ASSUME NEW s \in {"PENDING", "ACTIVE", "DELETED"}
        PROVE  [Idle EXCEPT !.pc = "setStatus", !.target = s, !.seen = user] \in Locals
    BY <1>a, IdleType DEF Locals, Calls
  <2>2. req' \in [Requests -> Locals]
    BY <1>3, <2>1, EnterType DEF StartSetStatus, AllHandlers
  <2> QED BY <1>3, <2>2 DEF StartSetStatus, TypeOK, db, cache
<1>4. CASE SetStatus(r)
  <2>1. req[r].target \in {"NONE", "PENDING", "ACTIVE", "DELETED"}
    BY <1>b DEF Locals
  <2>2. user' \in UserDocs
    BY <1>a, <1>4, <2>1 DEF SetStatus, UserDocs
  <2>3. req' \in [Requests -> Locals]
    BY <1>4, DoneType DEF SetStatus
  <2>4. evidence' \subseteq {"otp", "social", "admin"}
    BY <1>4 DEF SetStatus, TypeOK
  <2> QED BY <1>4, <2>2, <2>3, <2>4 DEF SetStatus, TypeOK, cache
<1> QED BY <1>1, <1>2, <1>3, <1>4 DEF Remove

LEMMA CallFailsType == ASSUME TypeOK, NEW r \in Requests, CallFails(r) PROVE TypeOK'
<1>1. [req[r] EXCEPT !.pc = Handled(req[r]), !.code = NoCode, !.owner = 0] \in Locals
  <2>1. req[r] \in Locals /\ Handled(req[r]) \in Calls
    BY DEF TypeOK, Handled, Calls
  <2> QED BY <2>1, NoOwner DEF Locals
<1>2. req' \in [Requests -> Locals]
  BY <1>1, DoneType, SetType DEF CallFails
<1> QED BY <1>2 DEF CallFails, TypeOK, db

LEMMA ExpireType == ASSUME TypeOK, NEW p \in Purposes, Expire(p) PROVE TypeOK'
<1>1. 0 \in 0 .. MaxAttempts - 1
  OBVIOUS
<1>2. sentFor' \in 0 .. MaxIds /\ outdated' = outdated
  BY NoOwner DEF Expire, ForgetOwner, TypeOK
<1>3. otp' \in [Purposes -> Codes \cup {NoCode}] /\ cooldown' \in [Purposes -> BOOLEAN]
  BY DEF Expire, TypeOK
<1>4. attempts' \in [Purposes -> 0 .. MaxAttempts - 1]
  BY <1>1 DEF Expire, TypeOK
<1> QED BY <1>2, <1>3, <1>4 DEF Expire, TypeOK, db

LEMMA TypeStep == TypeOK /\ [Next]_vars => TypeOK'
<1> SUFFICES ASSUME TypeOK, [Next]_vars PROVE TypeOK'
  OBVIOUS
<1>1. CASE Next
  BY <1>1, SignupType, IssueType, SubmitType, SessionType, SocialType, RemoveType,
     CallFailsType, ExpireType DEF Next, Step
<1>2. CASE UNCHANGED vars
  BY <1>2 DEF vars, TypeOK
<1> QED BY <1>1, <1>2

(* In every behaviour the state keeps its types; in particular no attempt
   counter ever reaches MAX_OTP_ATTEMPTS. *)
THEOREM TypeCorrect == Spec => []TypeOK
<1> QED BY TypeInit, TypeStep, PTL DEF Spec

-----------------------------------------------------------------------------
LEMMA InitInv == Init => AuthInv
<1> SUFFICES ASSUME Init PROVE AuthInv
  OBVIOUS
<1>1. TypeOK
  BY TypeInit
<1> QED BY <1>1 DEF Init, AuthInv, Shape, RequestsJustified, Justified, SessionsConfirmed, NoUser, Idle,
        ConfirmedHasEvidence, PasswordConfirmedUnlessStray, NoAccessWithoutEvidence

(* Evidence, once shown, stays. *)
LEMMA EvidenceStays == [Next]_vars => evidence \subseteq evidence'
<1> SUFFICES ASSUME [Next]_vars PROVE evidence \subseteq evidence'
  OBVIOUS
<1>1. ASSUME NEW r \in Requests, Step(r) PROVE evidence \subseteq evidence'
  <2>1. CASE Signup(r)
    BY <2>1 DEF Signup, StartSignup, CreatePending, RollbackPendingSignup, db
  <2>2. CASE Issue(r)
    BY <2>2 DEF Issue, StartGenerateCode, StartForgotPassword, AssertOtpNotInCooldown, DrawOtp,
       StoreOtp, ClearOtpAttempts, SetOtpCooldown, SendMail, ClearOtpState, db
  <2>3. CASE Submit(r)
    BY <2>3 DEF Submit, StartVerifyCode, StartResetPassword, GetOtp, GetAttempts, LockOtp,
       LockAttempts, CountAttempt, ActivateAndAddLocalAuth, SaveReset, ConsumeOtp,
       ConsumeAttempts, db
  <2>4. CASE Session(r)
    BY <2>4 DEF Session, StartLogin, SignToken, StartChangePassword, SaveChange, db
  <2>5. CASE Social(r)
    BY <2>5 DEF Social, StartSocial, SocialByExternalId, CreateSocial, RereadSocial, FlipPending,
       AddAuthType, PushAccount, FinishSocial, db
  <2>6. CASE Remove(r)
    BY <2>6 DEF Remove, StartDelete, Tombstone, StartSetStatus, SetStatus, db
  <2>7. CASE CallFails(r)
    BY <2>7 DEF CallFails, db
  <2> QED BY <1>1, <2>1, <2>2, <2>3, <2>4, <2>5, <2>6, <2>7 DEF Step
<1>2. ASSUME NEW p \in Purposes, Expire(p) PROVE evidence \subseteq evidence'
  BY <1>2 DEF Expire, db
<1> QED BY <1>1, <1>2 DEF Next, vars

LEMMA VerifiedStays == [Next]_vars /\ Verified => Verified'
  BY EvidenceStays DEF Verified, Lifecycle!Verified

LEMMA IdsGrow == TypeOK /\ [Next]_vars => lastId <= lastId'
<1> SUFFICES ASSUME TypeOK, [Next]_vars PROVE lastId <= lastId'
  OBVIOUS
<1>0. lastId \in Nat
  BY DEF TypeOK
<1>1. ASSUME NEW r \in Requests, Step(r) PROVE lastId' = lastId \/ lastId' = lastId + 1
  <2>1. CASE Signup(r)
    BY <2>1 DEF Signup, StartSignup, CreatePending, RollbackPendingSignup, db
  <2>2. CASE Issue(r)
    BY <2>2 DEF Issue, StartGenerateCode, StartForgotPassword, AssertOtpNotInCooldown,
       DrawOtp, StoreOtp, ClearOtpAttempts, SetOtpCooldown, SendMail, ClearOtpState, db
  <2>3. CASE Submit(r)
    BY <2>3 DEF Submit, StartVerifyCode, StartResetPassword, GetOtp, GetAttempts, LockOtp,
       LockAttempts, CountAttempt, ActivateAndAddLocalAuth, SaveReset, ConsumeOtp,
       ConsumeAttempts, db
  <2>4. CASE Session(r)
    BY <2>4 DEF Session, StartLogin, SignToken, StartChangePassword, SaveChange, db
  <2>5. CASE Social(r)
    BY <2>5 DEF Social, StartSocial, SocialByExternalId, CreateSocial, RereadSocial,
       FlipPending, AddAuthType, PushAccount, FinishSocial, db
  <2>6. CASE Remove(r)
    BY <2>6 DEF Remove, StartDelete, Tombstone, StartSetStatus, SetStatus, db
  <2>7. CASE CallFails(r)
    BY <2>7 DEF CallFails, db
  <2> QED BY <1>1, <2>1, <2>2, <2>3, <2>4, <2>5, <2>6, <2>7 DEF Step
<1>2. ASSUME NEW p \in Purposes, Expire(p) PROVE lastId' = lastId
  BY <1>2 DEF Expire, db
<1> QED BY <1>0, <1>1, <1>2 DEF Next, vars

-----------------------------------------------------------------------------
LEMMA IdleJustified ==
    ASSUME NEW r \in Requests, TypeOK, Done(r)
    PROVE  Justified(r)'
  BY DEF Done, Justified, Idle, TypeOK

(* The calls that need no justification. *)
Free == Calls \ {"activate", "save", "changeSave", "createSocial", "reread", "flip", "addType",
                 "push", "refresh", "compare", "create", "getOtp", "setStatus"}

LEMMA FreeJustified ==
    ASSUME NEW r \in Requests, req'[r].pc \in Free
    PROVE  Justified(r)'
  BY DEF Justified, Free

LEMMA MoveLeavesOthers ==
    ASSUME TypeOK, NEW r \in Requests, Step(r), NEW q \in Requests \ {r}
    PROVE  req'[q] = req[q]
<1> USE DEF TypeOK, Goto, Done, Enter
<1>1. CASE Signup(r)
  BY <1>1 DEF Signup, StartSignup, CreatePending, RollbackPendingSignup, RegistrationStored
<1>2. CASE Issue(r)
  BY <1>2 DEF Issue, StartGenerateCode, StartForgotPassword, AssertOtpNotInCooldown, DrawOtp,
     StoreOtp, ClearOtpAttempts, SetOtpCooldown, SendMail, ClearOtpState
<1>3. CASE Submit(r)
  BY <1>3 DEF Submit, StartVerifyCode, StartResetPassword, GetOtp, GetAttempts, LockOtp,
     LockAttempts, CountAttempt, ActivateAndAddLocalAuth, SaveReset, ConsumeOtp, ConsumeAttempts
<1>4. CASE Session(r)
  BY <1>4 DEF Session, StartLogin, SignToken, StartChangePassword, SaveChange
<1>5. CASE Social(r)
  BY <1>5 DEF Social, StartSocial, SocialByExternalId, CreateSocial, RereadSocial, FlipPending,
     AddAuthType, PushAccount, FinishSocial
<1>6. CASE Remove(r)
  BY <1>6 DEF Remove, StartDelete, Tombstone, StartSetStatus, SetStatus
<1>7. CASE CallFails(r)
  BY <1>7 DEF CallFails
<1> QED BY <1>1, <1>2, <1>3, <1>4, <1>5, <1>6, <1>7 DEF Step

LEMMA JustifiedStep ==
    ASSUME AuthInv, TypeOK', NEW r \in Requests, Step(r)
    PROVE  Justified(r)'
<1>a. TypeOK /\ Justified(r) /\ [Next]_vars
  BY DEF AuthInv, RequestsJustified, Next
<1>b. Verified => Verified'
  BY <1>a, VerifiedStays
<1>c. req \in [Requests -> Locals] /\ req[r] \in Locals /\ Idle \in Locals
  BY <1>a, IdleType DEF TypeOK
<1>1. CASE Signup(r)
  <2>1. CASE StartSignup(r)
    <3>1. PICK pw \in Passwords : StartSignup(r)!2!(pw)
      BY <2>1 DEF StartSignup
    <3>2. CASE Enter(r, "signup", [Idle EXCEPT !.pc = "create", !.pw = pw])
      <4>1. req'[r].pc = "create" /\ req'[r].pw = pw
        BY <1>c, <3>2 DEF Enter, Idle
      <4> QED BY <4>1 DEF Justified
    <3>3. CASE \E c \in NextCodes(NoCode) :
                 Enter(r, "signup", [Idle EXCEPT !.pc = "store", !.code = c, !.seen = user,
                                                 !.owner = user.id])
      <4>1. req'[r].pc = "store"
        BY <1>c, <3>3 DEF Enter, Idle
      <4> QED BY <4>1, FreeJustified DEF Free, Calls
    <3> QED BY <3>1, <3>2, <3>3
  <2>2. CASE CreatePending(r)
    <3>1. ASSUME NEW c, RegistrationStored(r, c) PROVE req'[r].pc = "store"
      BY <1>c, <3>1 DEF RegistrationStored, Locals
    <3>2. CASE req'[r].pc = "store"
      BY <3>2, FreeJustified DEF Free, Calls
    <3>3. CASE Done(r)
      BY <1>a, <3>3, IdleJustified
    <3> QED BY <2>2, <3>1, <3>2, <3>3 DEF CreatePending
  <2>3. CASE RollbackPendingSignup(r)
    BY <1>a, <2>3, FreeJustified DEF RollbackPendingSignup, Goto, TypeOK, Free, Calls
  <2> QED BY <1>1, <2>1, <2>2, <2>3 DEF Signup
<1>2. CASE Issue(r)
  <2>1. CASE Done(r)
    BY <1>a, <2>1, IdleJustified
  <2>2. CASE ~Done(r)
    <3>1. CASE StartGenerateCode(r) \/ StartForgotPassword(r)
      <4>1. req'[r].pc = "checkCooldown"
        BY <1>c, <3>1 DEF StartGenerateCode, StartForgotPassword, Enter, Idle
      <4> QED BY <4>1, FreeJustified DEF Free, Calls
    <3>2. CASE AssertOtpNotInCooldown(r)
      <4>1. req'[r].pc \in {"draw", "store"}
        <5>1. \/ Done(r)
              \/ req' = [req EXCEPT ![r].pc = "draw"]
              \/ \E c : req' = [req EXCEPT ![r] = [req[r] EXCEPT !.pc = "store", !.code = c]]
          BY <3>2 DEF AssertOtpNotInCooldown, Goto
        <5> QED BY <1>c, <2>2, <5>1 DEF Locals
      <4> QED BY <4>1, FreeJustified DEF Free, Calls
    <3>3. CASE DrawOtp(r)
      <4>1. req'[r].pc = "store"
        BY <1>c, <3>3 DEF DrawOtp, Locals
      <4> QED BY <4>1, FreeJustified DEF Free, Calls
    <3>4. CASE StoreOtp(r)
      <4>1. req'[r].pc \in {"startCooldown", "clearAttempts"}
        BY <1>c, <3>4 DEF StoreOtp, AfterStore, Locals
      <4> QED BY <4>1, FreeJustified DEF Free, Calls
    <3>5. CASE ClearOtpAttempts(r) \/ SetOtpCooldown(r)
      <4>1. req'[r].pc \in {"startCooldown", "mail"}
        BY <1>c, <2>2, <3>5 DEF ClearOtpAttempts, SetOtpCooldown, Goto, Locals
      <4> QED BY <4>1, FreeJustified DEF Free, Calls
    <3> QED BY <1>2, <2>2, <3>1, <3>2, <3>3, <3>4, <3>5 DEF Issue, SendMail, ClearOtpState
  <2> QED BY <2>1, <2>2
<1>3. CASE Submit(r)
  <2>1. CASE StartVerifyCode(r)
    BY <1>a, <2>1 DEF StartVerifyCode, Enter, Idle, TypeOK, Justified
  <2>2. CASE StartResetPassword(r)
    BY <1>a, <2>2 DEF StartResetPassword, Enter, Idle, TypeOK, Justified
  <2>3. CASE GetOtp(r)
    <3>1. CASE evidence' = evidence \cup {"otp"} /\ req' = [req EXCEPT ![r] = Matched(req[r])]
      <4>1. Verified'
        BY <3>1 DEF Verified, Lifecycle!Verified
      <4>2. req'[r].pc \in {"activate", "save"} /\ req'[r].pw = req[r].pw
            /\ (req'[r].pc = "save" => req[r].op # "verify")
        <5>1. req'[r] = Matched(req[r])
          BY <1>c, <3>1
        <5> QED BY <1>c, <5>1 DEF AfterMatch, Matched, Locals
      <4>3. req[r].pc = "getOtp"
        BY <2>3 DEF GetOtp, At
      <4> QED BY <1>a, <4>1, <4>2, <4>3 DEF Justified
    <3>2. CASE Done(r)
      BY <1>a, <3>2, IdleJustified
    <3>3. CASE req'[r].pc = "getAttempts"
      BY <3>3, FreeJustified DEF Free, Calls
    <3>4. CASE req' = [req EXCEPT ![r] = [Idle EXCEPT !.pc = "getAttempts", !.op = req[r].op,
                                                     !.purpose = req[r].purpose]]
      BY <1>c, <3>3, <3>4 DEF Idle
    <3> QED BY <2>3, <3>1, <3>2, <3>4 DEF GetOtp
  <2>4. CASE \/ GetAttempts(r) \/ LockOtp(r) \/ LockAttempts(r) \/ CountAttempt(r)
             \/ ActivateAndAddLocalAuth(r) \/ SaveReset(r) \/ ConsumeOtp(r) \/ ConsumeAttempts(r)
    <3>1. CASE Done(r)
      BY <1>a, <3>1, IdleJustified
    <3>2. CASE ~Done(r)
      <4>1. req'[r].pc \in {"lockOtp", "count", "lockAttempts", "consume", "consumeAttempts"}
        <5>1. CASE GetAttempts(r)
          BY <1>c, <5>1 DEF GetAttempts, Goto, Locals
        <5>2. CASE LockOtp(r) \/ ConsumeOtp(r) \/ ActivateAndAddLocalAuth(r)
          <6>1. \/ Goto(r, "lockAttempts") \/ Goto(r, "consumeAttempts")
                \/ req' = [req EXCEPT ![r] = [req[r] EXCEPT !.pc = "consume", !.owner = 0]]
            BY <3>2, <5>2 DEF LockOtp, ConsumeOtp, ActivateAndAddLocalAuth
          <6> QED BY <1>c, <6>1 DEF Goto, Locals
        <5>3. CASE SaveReset(r)
          <6>1. req' = [req EXCEPT ![r] = [req[r] EXCEPT !.pc = "consume", !.seen = NoUser,
                                                         !.pw = NoPassword]]
            BY <3>2, <5>3 DEF SaveReset
          <6> QED BY <1>c, <6>1 DEF Locals
        <5> QED BY <2>4, <3>2, <5>1, <5>2, <5>3 DEF LockAttempts, CountAttempt, ConsumeAttempts
      <4> QED BY <4>1, FreeJustified DEF Free, Calls
    <3> QED BY <3>1, <3>2
  <2> QED BY <1>3, <2>1, <2>2, <2>3, <2>4 DEF Submit
<1>4. CASE Session(r)
  <2>1. CASE StartLogin(r)
    <3>1. req'[r].pc = "compare" /\ req'[r].seen = user /\ lastId' = lastId /\ user' = user
      BY <1>a, <2>1 DEF StartLogin, Enter, Idle, TypeOK, db
    <3>2. user.status = "ACTIVE" => Verified /\ user.id \in 1 .. lastId /\ user.confirmed # "no"
      <4>1. user.status = "ACTIVE" => user.confirmed # "no"
        BY <2>1 DEF StartLogin, AuthInv, PasswordConfirmedUnlessStray
      <4>2. user.status = "ACTIVE" => user.id # 0
        BY DEF AuthInv, Shape, NoUser
      <4>3. user.id \in Nat /\ lastId \in Nat /\ user.id <= lastId
        BY DEF AuthInv, TypeOK, UserDocs, Shape
      <4> QED BY <4>1, <4>2, <4>3 DEF AuthInv, ConfirmedHasEvidence
    <3> QED BY <1>b, <3>1, <3>2 DEF Justified, StillConfirmed, Stored
  <2>2. CASE StartChangePassword(r)
    <3>1. /\ req'[r].pc = "changeSave" /\ req'[r].pw \in Passwords /\ req'[r].seen = user
          /\ lastId' = lastId /\ user' = user
      BY <1>a, <2>2 DEF StartChangePassword, Enter, Idle, TypeOK, db
    <3>2. user.confirmed # "no" /\ user.id \in 1 .. lastId
      BY <2>2 DEF StartChangePassword, AuthInv, SessionsConfirmed, Shape
    <3>3. Verified'
      BY <1>b, <3>2 DEF AuthInv, ConfirmedHasEvidence
    <3> QED BY <3>1, <3>2, <3>3 DEF Justified, StillConfirmed, Stored
  <2>3. CASE SignToken(r) \/ SaveChange(r)
    BY <1>a, <2>3, IdleJustified DEF SignToken, SaveChange
  <2> QED BY <1>4, <2>1, <2>2, <2>3 DEF Session
<1>5. CASE Social(r)
  <2>1. CASE Done(r)
    BY <1>a, <2>1, IdleJustified
  <2>2. CASE SocialByExternalId(r)
    BY <1>a, <2>2 DEF SocialByExternalId, Justified, StillConfirmed, Stored, Verified,
       Lifecycle!Verified
  <2>3. CASE ~Done(r) /\ ~SocialByExternalId(r)
    <3>0. ASSUME NEW doc, NEW via PROVE MergeCall(doc, via) \in {"flip", "addType", "push"}
      BY DEF MergeCall
    <3>1. CASE StartSocial(r)
      <4>1. PICK via \in Providers :
              Enter(r, "social",
                    [Idle EXCEPT !.pc = IF user = NoUser THEN "createSocial" ELSE MergeCall(user, via),
                                 !.via = via, !.seen = user])
        BY <3>1 DEF StartSocial
      <4>2. req'[r].pc \in {"createSocial", "flip", "addType", "push"}
        BY <1>c, <3>0, <4>1 DEF Enter, Idle
      <4>3. "social" \in evidence'
        BY <3>1 DEF StartSocial
      <4> QED BY <4>2, <4>3 DEF Justified
    <3>2. CASE CreateSocial(r) \/ RereadSocial(r) \/ FlipPending(r) \/ AddAuthType(r) \/ PushAccount(r)
      <4>1. req'[r].pc \in {"reread", "flip", "addType", "push", "refresh"}
        <5>1. CASE CreateSocial(r)
          BY <1>c, <2>3, <5>1 DEF CreateSocial, Goto, Locals
        <5>2. CASE RereadSocial(r)
          <6>1. req' = [req EXCEPT ![r] = [req[r] EXCEPT !.pc = MergeCall(user, req[r].via),
                                                         !.seen = user]]
            BY <2>3, <5>2 DEF RereadSocial
          <6>2. req'[r].pc = MergeCall(user, req[r].via)
            BY <1>c, <6>1 DEF Locals
          <6> QED BY <3>0, <6>2
        <5>3. CASE FlipPending(r) \/ AddAuthType(r) \/ PushAccount(r)
          BY <1>c, <5>3 DEF FlipPending, AddAuthType, PushAccount, Goto, Locals
        <5> QED BY <3>2, <5>1, <5>2, <5>3
      <4>2. "social" \in evidence
        BY <1>a, <3>2 DEF CreateSocial, RereadSocial, FlipPending, AddAuthType, PushAccount, At,
           Justified
      <4>3. "social" \in evidence'
        BY <1>a, <4>2, EvidenceStays
      <4> QED BY <4>1, <4>3 DEF Justified
    <3> QED BY <1>5, <2>3, <3>1, <3>2 DEF Social, FinishSocial
  <2> QED BY <2>1, <2>2, <2>3
<1>6. CASE Remove(r)
  <2>1. CASE StartDelete(r)
    BY <1>a, <2>1, FreeJustified DEF StartDelete, Enter, Idle, TypeOK, Free, Calls
  <2>2. CASE StartSetStatus(r)
    BY <1>a, <2>2 DEF StartSetStatus, Enter, Idle, TypeOK, Justified
  <2>3. CASE Tombstone(r) \/ SetStatus(r)
    BY <1>a, <2>3, IdleJustified DEF Tombstone, SetStatus
  <2> QED BY <1>6, <2>1, <2>2, <2>3 DEF Remove
<1>7. CASE CallFails(r)
  <2>1. CASE Done(r)
    BY <1>a, <2>1, IdleJustified
  <2>2. CASE Handled(req[r]) # "idle"
    <3>1. Handled(req[r]) \in {"rollback", "clearState"}
      BY <2>2 DEF Handled
    <3>2. req' = [req EXCEPT ![r] = [req[r] EXCEPT !.pc = Handled(req[r]), !.code = NoCode,
                                                   !.owner = 0]]
      BY <1>7, <2>2 DEF CallFails
    <3>3. req'[r].pc \in {"rollback", "clearState"}
      BY <1>c, <3>1, <3>2 DEF Locals
    <3> QED BY <3>3, FreeJustified DEF Free, Calls
  <2> QED BY <1>7, <2>1, <2>2 DEF CallFails
<1> QED BY <1>1, <1>2, <1>3, <1>4, <1>5, <1>6, <1>7 DEF Step

-----------------------------------------------------------------------------
(* What a step does to the account *)

(* The promises other than those about the requests. *)
Promises ==
    /\ Shape /\ SessionsConfirmed /\ ConfirmedHasEvidence
    /\ PasswordConfirmedUnlessStray /\ NoAccessWithoutEvidence

Quiet == UNCHANGED <<user, lastId, sessions, evidence>>

(* The step of the lifecycle a step of a handler maps to, or a stutter. *)
Maps == Lifecycle!Next \/ UNCHANGED Lifecycle!lifecycleVars

(* The document stored afterwards is a new one, or the old one and then
   confirmed if it was. *)
ConfirmedKept ==
    user' # NoUser =>
        \/ user'.id = lastId + 1
        \/ /\ user # NoUser /\ user'.id = user.id
           /\ user.confirmed # "no" => user'.confirmed # "no"

Keeps == Promises' /\ Maps /\ ConfirmedKept

LEMMA QuietKeeps ==
    ASSUME AuthInv, Quiet
    PROVE  Keeps
<1>1. Promises'
  BY DEF AuthInv, Quiet, Promises, Shape, SessionsConfirmed, ConfirmedHasEvidence,
     PasswordConfirmedUnlessStray, NoAccessWithoutEvidence, Verified, Lifecycle!Verified
<1>2. Maps /\ ConfirmedKept
  BY DEF Quiet, Maps, Lifecycle!lifecycleVars, ConfirmedKept
<1> QED BY <1>1, <1>2 DEF Keeps

(* A step that edits the stored document in place: what it makes usable, or
   the password it writes, is confirmed. *)
LEMMA EditKeeps ==
    ASSUME AuthInv, Maps, user # NoUser, user'.id = user.id, user'.status # "NONE",
           UNCHANGED <<lastId, sessions>>, evidence \subseteq evidence',
           user.confirmed # "no" => user'.confirmed # "no",
           user'.confirmed # "no" => user.confirmed # "no" \/ Verified',
           user'.password \in {user.password, NoPassword} \/ user'.confirmed # "no",
           user'.status = "ACTIVE" =>
              user.status = "ACTIVE" \/ user'.password = NoPassword \/ user'.confirmed # "no",
           user'.status = "ACTIVE" => evidence' # {}
    PROVE  Keeps
<1>1. Shape'
  BY DEF AuthInv, Shape
<1>2. SessionsConfirmed'
  BY DEF AuthInv, SessionsConfirmed
<1>3. NoAccessWithoutEvidence'
  BY DEF AuthInv, NoAccessWithoutEvidence
<1>4. PasswordConfirmedUnlessStray'
  BY DEF AuthInv, PasswordConfirmedUnlessStray
<1>5. ConfirmedHasEvidence'
  BY DEF AuthInv, ConfirmedHasEvidence, Verified, Lifecycle!Verified
<1>6. ConfirmedKept
  BY DEF ConfirmedKept
<1> QED BY <1>1, <1>2, <1>3, <1>4, <1>5, <1>6 DEF Promises, Keeps

(* A step that shows evidence or signs a token, and leaves the document. *)
LEMMA ShowKeeps ==
    ASSUME AuthInv, Maps, UNCHANGED <<user, lastId>>, evidence \subseteq evidence',
           sessions' \subseteq 1 .. lastId, NoAccessWithoutEvidence',
           user.id \in sessions' /\ user.password # NoPassword => user.confirmed # "no"
    PROVE  Keeps
<1>1. Shape' /\ SessionsConfirmed' /\ PasswordConfirmedUnlessStray'
  BY DEF AuthInv, Shape, SessionsConfirmed, PasswordConfirmedUnlessStray
<1>2. ConfirmedHasEvidence' /\ ConfirmedKept
  BY DEF AuthInv, ConfirmedHasEvidence, Verified, Lifecycle!Verified, ConfirmedKept
<1> QED BY <1>1, <1>2 DEF Promises, Keeps

(* What every step may use: the shape of the stored document. *)
LEMMA DocumentFacts ==
    ASSUME AuthInv
    PROVE  /\ TypeOK /\ lastId \in Nat /\ user.id \in Nat /\ user.id <= lastId
           /\ sessions \subseteq 1 .. lastId
           /\ user # NoUser => user.id # 0 /\ user.status \in {"PENDING", "ACTIVE", "DELETED"}
           /\ user \in UserDocs
           /\ \A r \in Requests : req[r] \in Locals /\ Justified(r)
<1>1. TypeOK /\ Shape /\ RequestsJustified
  BY DEF AuthInv
<1>2. lastId \in Nat /\ user.id \in Nat /\ user \in UserDocs
  BY <1>1 DEF TypeOK, UserDocs
<1>3. user # NoUser => user.id # 0 /\ user.status \in {"PENDING", "ACTIVE", "DELETED"}
  BY <1>1, <1>2 DEF Shape, UserDocs
<1> QED BY <1>1, <1>2, <1>3 DEF Shape, TypeOK, RequestsJustified

LEMMA SignupKeeps ==
    ASSUME AuthInv, NEW r \in Requests, Signup(r)
    PROVE  Keeps
<1>f. /\ user \in UserDocs /\ user.id \in Nat /\ lastId \in Nat /\ user.id <= lastId
      /\ sessions \subseteq 1 .. lastId /\ Justified(r)
  BY DocumentFacts
<1>1. CASE StartSignup(r)
  BY <1>1, QuietKeeps DEF StartSignup, Quiet, db
<1>2. CASE CreatePending(r)
  <2>1. CASE user = NoUser
    <3>1. /\ user' = PendingUser(req[r].pw) /\ lastId' = lastId + 1
          /\ UNCHANGED <<sessions, evidence>> /\ req[r].pw \in Passwords
      BY <1>f, <1>2, <2>1 DEF CreatePending, At, Justified
    <3>2. /\ user'.id = lastId + 1 /\ user'.status = "PENDING" /\ user'.password = req[r].pw
          /\ user'.confirmed = "no"
      BY <3>1 DEF PendingUser, NoUser
    <3>3. Maps
      BY <2>1, <3>1, <3>2 DEF Maps, Lifecycle!Next, Lifecycle!Register, NoUser
    <3>4. Shape'
      BY <1>f, <3>1, <3>2 DEF Shape
    <3>5. SessionsConfirmed'
      BY <1>f, <3>1, <3>2 DEF SessionsConfirmed
    <3>6. NoAccessWithoutEvidence' /\ PasswordConfirmedUnlessStray'
      BY <3>1, <3>2 DEF AuthInv, NoAccessWithoutEvidence, PasswordConfirmedUnlessStray
    <3>7. ConfirmedHasEvidence' /\ ConfirmedKept
      BY <3>1, <3>2 DEF ConfirmedHasEvidence, ConfirmedKept
    <3> QED BY <3>3, <3>4, <3>5, <3>6, <3>7 DEF Promises, Keeps
  <2>2. CASE user # NoUser
    BY <1>2, <2>2, QuietKeeps DEF CreatePending, Quiet
  <2> QED BY <2>1, <2>2
<1>3. CASE RollbackPendingSignup(r)
  <2>1. CASE Stored(req[r].seen) /\ user.status = "PENDING"
    <3>1. user' = NoUser /\ UNCHANGED <<lastId, sessions, evidence>>
      BY <1>3, <2>1 DEF RollbackPendingSignup
    <3>2. user'.id = 0 /\ user'.status = "NONE" /\ user'.password = NoPassword /\ user'.confirmed = "no"
      BY <3>1 DEF NoUser
    <3>3. Maps
      BY <2>1, <3>1, <3>2 DEF Maps, Lifecycle!Next, Lifecycle!Abandon
    <3>4. Shape'
      BY <1>f, <3>1, <3>2 DEF Shape
    <3>5. SessionsConfirmed' /\ NoAccessWithoutEvidence' /\ PasswordConfirmedUnlessStray'
      BY <3>1, <3>2 DEF AuthInv, SessionsConfirmed, NoAccessWithoutEvidence,
         PasswordConfirmedUnlessStray
    <3>6. ConfirmedHasEvidence' /\ ConfirmedKept
      BY <3>1, <3>2 DEF ConfirmedHasEvidence, ConfirmedKept
    <3> QED BY <3>3, <3>4, <3>5, <3>6 DEF Promises, Keeps
  <2>2. CASE ~(Stored(req[r].seen) /\ user.status = "PENDING")
    BY <1>3, <2>2, QuietKeeps DEF RollbackPendingSignup, Quiet
  <2> QED BY <2>1, <2>2
<1> QED BY <1>1, <1>2, <1>3 DEF Signup

LEMMA IssueKeeps ==
    ASSUME AuthInv, NEW r \in Requests, Issue(r)
    PROVE  Keeps
  BY QuietKeeps DEF Issue, StartGenerateCode, StartForgotPassword, AssertOtpNotInCooldown, DrawOtp,
     StoreOtp, ClearOtpAttempts, SetOtpCooldown, SendMail, ClearOtpState, Quiet, db

LEMMA SubmitKeeps ==
    ASSUME AuthInv, NEW r \in Requests, Submit(r)
    PROVE  Keeps
<1>f. /\ user \in UserDocs /\ Justified(r)
      /\ user # NoUser => user.status \in {"PENDING", "ACTIVE", "DELETED"}
  BY DocumentFacts
<1>1. CASE GetOtp(r)
  <2>1. CASE Quiet
    BY <2>1, QuietKeeps
  <2>2. CASE ~Quiet
    <3>1. evidence' = evidence \cup {"otp"} /\ UNCHANGED <<user, lastId, sessions>>
      BY <1>1, <2>2 DEF GetOtp, Quiet
    <3>2. Maps
      BY <3>1 DEF Maps, Lifecycle!Next, Lifecycle!Show
    <3>3. NoAccessWithoutEvidence'
      BY <3>1 DEF NoAccessWithoutEvidence
    <3> QED BY <3>1, <3>2, <3>3, ShowKeeps DEF AuthInv, SessionsConfirmed, Shape
  <2> QED BY <2>1, <2>2
<1>2. CASE ActivateAndAddLocalAuth(r)
  <2>1. CASE user = NoUser
    BY <1>2, <2>1, QuietKeeps DEF ActivateAndAddLocalAuth, Quiet
  <2>2. CASE user # NoUser
    <3>1. user' = [user EXCEPT !.status = "ACTIVE", !.authType = @ \cup {"LOCAL"},
                               !.confirmed = ConfirmedBy(req[r].owner)]
          /\ UNCHANGED <<lastId, sessions, evidence>> /\ Verified
      BY <1>2, <1>f, <2>2 DEF ActivateAndAddLocalAuth, At, Justified
    <3>2. /\ user'.id = user.id /\ user'.status = "ACTIVE" /\ user'.password = user.password
          /\ user'.confirmed # "no"
      BY <1>f, <3>1 DEF UserDocs, ConfirmedBy
    <3>3. Maps
      BY <1>f, <2>2, <3>1, <3>2 DEF Maps, Lifecycle!Next, Lifecycle!Activate, Verified
    <3> QED BY <2>2, <3>1, <3>2, <3>3, EditKeeps DEF Verified, Lifecycle!Verified
  <2> QED BY <2>1, <2>2
<1>3. CASE SaveReset(r)
  <2>1. CASE UNCHANGED user
    BY <1>3, <2>1, QuietKeeps DEF SaveReset, Quiet
  <2>2. CASE ~UNCHANGED user
    <3>1. /\ user' = [user EXCEPT !.password = req[r].pw, !.confirmed = "yes",
                                  !.authType = IF "LOCAL" \in req[r].seen.authType
                                               THEN @ ELSE @ \cup {"LOCAL"}]
          /\ user # NoUser
          /\ UNCHANGED <<lastId, sessions, evidence>> /\ Verified /\ req[r].pw \in Passwords
      BY <1>3, <1>f, <2>2 DEF SaveReset, At, Justified, Stored
    <3>2. /\ user'.id = user.id /\ user'.status = user.status /\ user'.password = req[r].pw
          /\ user'.confirmed = "yes"
      BY <1>f, <3>1 DEF UserDocs
    <3>3. Maps
      BY <1>f, <3>1, <3>2 DEF Maps, Lifecycle!Next, Lifecycle!SetPassword, Verified
    <3> QED BY <1>f, <3>1, <3>2, <3>3, EditKeeps DEF Verified, Lifecycle!Verified
  <2> QED BY <2>1, <2>2
<1>4. CASE \/ StartVerifyCode(r) \/ StartResetPassword(r) \/ GetAttempts(r) \/ LockOtp(r)
           \/ LockAttempts(r) \/ CountAttempt(r) \/ ConsumeOtp(r) \/ ConsumeAttempts(r)
  BY <1>4, QuietKeeps DEF StartVerifyCode, StartResetPassword, GetAttempts, LockOtp, LockAttempts,
     CountAttempt, ConsumeOtp, ConsumeAttempts, Quiet, db
<1> QED BY <1>1, <1>2, <1>3, <1>4 DEF Submit

LEMMA SessionKeeps ==
    ASSUME AuthInv, NEW r \in Requests, Session(r)
    PROVE  Keeps
<1>f. /\ user \in UserDocs /\ Justified(r) /\ lastId \in Nat
      /\ user # NoUser => user.status \in {"PENDING", "ACTIVE", "DELETED"}
  BY DocumentFacts
<1>1. CASE SignToken(r)
  <2>1. CASE UNCHANGED sessions
    BY <1>1, <2>1, QuietKeeps DEF SignToken, Quiet
  <2>2. CASE ~UNCHANGED sessions
    <3>1. /\ sessions' = sessions \cup {req[r].seen.id} /\ req[r].seen.id \in 1 .. lastId
          /\ Verified /\ UNCHANGED <<user, lastId, evidence>> /\ StillConfirmed(req[r].seen)
      BY <1>1, <1>f, <2>2 DEF SignToken, At, Justified
    <3>2. Maps
      BY <3>1 DEF Maps, Lifecycle!lifecycleVars
    <3>3. NoAccessWithoutEvidence'
      BY <3>1 DEF NoAccessWithoutEvidence, Verified, Lifecycle!Verified
    <3>4. user.id = req[r].seen.id => user.confirmed # "no"
      BY <1>f, <3>1 DEF StillConfirmed, Stored, NoUser
    <3> QED BY <3>1, <3>2, <3>3, <3>4, ShowKeeps DEF AuthInv, SessionsConfirmed, Shape
  <2> QED BY <2>1, <2>2
<1>2. CASE SaveChange(r)
  <2>1. CASE UNCHANGED user
    BY <1>2, <2>1, QuietKeeps DEF SaveChange, Quiet
  <2>2. CASE ~UNCHANGED user
    <3>1. /\ user' = [user EXCEPT !.password = req[r].pw] /\ user # NoUser
          /\ UNCHANGED <<lastId, sessions, evidence>> /\ Verified /\ req[r].pw \in Passwords
          /\ user.confirmed # "no"
      BY <1>2, <1>f, <2>2 DEF SaveChange, At, Justified, StillConfirmed, Stored
    <3>2. /\ user'.id = user.id /\ user'.status = user.status /\ user'.password = req[r].pw
          /\ user'.confirmed = user.confirmed
      BY <1>f, <3>1 DEF UserDocs
    <3>3. Maps
      BY <1>f, <3>1, <3>2 DEF Maps, Lifecycle!Next, Lifecycle!SetPassword, Verified
    <3> QED BY <1>f, <3>1, <3>2, <3>3, EditKeeps DEF Verified, Lifecycle!Verified
  <2> QED BY <2>1, <2>2
<1>3. CASE StartLogin(r) \/ StartChangePassword(r)
  BY <1>3, QuietKeeps DEF StartLogin, StartChangePassword, Quiet, db
<1> QED BY <1>1, <1>2, <1>3 DEF Session

(* A token signed for a usable account. *)
LEMMA SignKeeps ==
    ASSUME AuthInv, user.status = "ACTIVE", sessions' = sessions \cup {user.id},
           UNCHANGED <<user, lastId, evidence>>
    PROVE  Keeps
<1>f. user.id \in 1 .. lastId
  BY DocumentFacts DEF NoUser
<1>1. Maps
  BY DEF Maps, Lifecycle!lifecycleVars
<1>2. NoAccessWithoutEvidence'
  BY DEF AuthInv, NoAccessWithoutEvidence
<1>3. user.password # NoPassword => user.confirmed # "no"
  BY DEF AuthInv, PasswordConfirmedUnlessStray
<1> QED BY <1>f, <1>1, <1>2, <1>3, ShowKeeps DEF AuthInv, Shape

LEMMA SocialKeeps ==
    ASSUME AuthInv, NEW r \in Requests, Social(r)
    PROVE  Keeps
<1>f. /\ user \in UserDocs /\ Justified(r) /\ lastId \in Nat /\ sessions \subseteq 1 .. lastId
      /\ user # NoUser => user.status \in {"PENDING", "ACTIVE", "DELETED"}
  BY DocumentFacts
<1>1. CASE StartSocial(r)
  <2>1. evidence' = evidence \cup {"social"} /\ UNCHANGED <<user, lastId, sessions>>
    BY <1>1 DEF StartSocial
  <2>2. Maps
    BY <2>1 DEF Maps, Lifecycle!Next, Lifecycle!Show
  <2>3. NoAccessWithoutEvidence'
    BY <2>1 DEF NoAccessWithoutEvidence
  <2> QED BY <2>1, <2>2, <2>3, ShowKeeps DEF AuthInv, SessionsConfirmed, Shape
<1>2. CASE SocialByExternalId(r)
  BY <1>2, SignKeeps DEF SocialByExternalId
<1>3. CASE CreateSocial(r)
  <2>1. CASE user = NoUser
    <3>1. /\ user' = SocialUser(req[r].via) /\ lastId' = lastId + 1
          /\ sessions' = sessions \cup {lastId + 1} /\ UNCHANGED evidence /\ "social" \in evidence
      BY <1>3, <1>f, <2>1 DEF CreateSocial, At, Justified
    <3>2. /\ user'.id = lastId + 1 /\ user'.status = "ACTIVE" /\ user'.password = NoPassword
          /\ user'.confirmed = "no"
      BY <3>1 DEF SocialUser, NoUser
    <3>3. Maps
      BY <2>1, <3>1, <3>2 DEF Maps, Lifecycle!Next, Lifecycle!RegisterSocial, NoUser
    <3>4. Shape'
      BY <1>f, <3>1, <3>2 DEF Shape
    <3>5. SessionsConfirmed' /\ NoAccessWithoutEvidence' /\ PasswordConfirmedUnlessStray'
      BY <3>1, <3>2 DEF SessionsConfirmed, NoAccessWithoutEvidence, PasswordConfirmedUnlessStray
    <3>6. ConfirmedHasEvidence' /\ ConfirmedKept
      BY <3>1, <3>2 DEF ConfirmedHasEvidence, ConfirmedKept
    <3> QED BY <3>3, <3>4, <3>5, <3>6 DEF Promises, Keeps
  <2>2. CASE user # NoUser
    BY <1>3, <2>2, QuietKeeps DEF CreateSocial, Quiet
  <2> QED BY <2>1, <2>2
<1>4. CASE FlipPending(r)
  <2>1. CASE Stored(req[r].seen) /\ user.status = "PENDING"
    <3>1. user' = TakeOver(user, req[r].via) /\ UNCHANGED <<lastId, sessions, evidence>>
          /\ "social" \in evidence /\ user # NoUser
      BY <1>4, <1>f, <2>1 DEF FlipPending, At, Justified, Stored
    <3>2. /\ user'.id = user.id /\ user'.status = "ACTIVE" /\ user'.password = NoPassword
          /\ user'.confirmed = user.confirmed
      BY <1>f, <3>1 DEF TakeOver, UserDocs
    <3>3. Maps
      BY <2>1, <3>1, <3>2 DEF Maps, Lifecycle!Next, Lifecycle!TakeOver
    <3> QED BY <3>1, <3>2, <3>3, EditKeeps
  <2>2. CASE ~(Stored(req[r].seen) /\ user.status = "PENDING")
    BY <1>4, <2>2, QuietKeeps DEF FlipPending, Quiet
  <2> QED BY <2>1, <2>2
<1>5. CASE AddAuthType(r) \/ PushAccount(r)
  <2>1. CASE Stored(req[r].seen)
    <3>1. UNCHANGED <<lastId, sessions, evidence>> /\ user # NoUser
      BY <1>5, <2>1 DEF AddAuthType, PushAccount, Stored
    <3>2. /\ user'.id = user.id /\ user'.status = user.status /\ user'.password = user.password
          /\ user'.confirmed = user.confirmed
      BY <1>5, <1>f, <2>1 DEF AddAuthType, PushAccount, UserDocs
    <3>3. Maps
      BY <3>1, <3>2 DEF Maps, Lifecycle!lifecycleVars
    <3>4. user'.status = "ACTIVE" => evidence' # {}
      BY <3>1, <3>2 DEF AuthInv, NoAccessWithoutEvidence
    <3> QED BY <1>f, <3>1, <3>2, <3>3, <3>4, EditKeeps
  <2>2. CASE ~Stored(req[r].seen)
    BY <1>5, <2>2, QuietKeeps DEF AddAuthType, PushAccount, Quiet
  <2> QED BY <2>1, <2>2
<1>6. CASE FinishSocial(r)
  BY <1>6, QuietKeeps, SignKeeps DEF FinishSocial, Quiet
<1>7. CASE RereadSocial(r)
  BY <1>7, QuietKeeps DEF RereadSocial, Quiet, db
<1> QED BY <1>1, <1>2, <1>3, <1>4, <1>5, <1>6, <1>7 DEF Social

LEMMA RemoveKeeps ==
    ASSUME AuthInv, NEW r \in Requests, Remove(r)
    PROVE  Keeps
<1>f. /\ user \in UserDocs /\ req[r] \in Locals /\ Justified(r)
      /\ user # NoUser => user.status \in {"PENDING", "ACTIVE", "DELETED"}
  BY DocumentFacts
<1>1. CASE Tombstone(r)
  <2>1. CASE Stored(req[r].seen)
    <3>1. user' = [NoUser EXCEPT !.id = user.id, !.status = "DELETED", !.scrubbed = TRUE,
                                 !.confirmed = user.confirmed, !.crowded = Crowd(r) # {}]
          /\ UNCHANGED <<lastId, sessions, evidence>> /\ user # NoUser
      BY <1>1, <2>1 DEF Tombstone, Stored
    <3>2. /\ user'.id = user.id /\ user'.status = "DELETED" /\ user'.password = NoPassword
          /\ user'.confirmed = user.confirmed
      BY <3>1 DEF NoUser
    <3>3. Maps
      BY <1>f, <3>1, <3>2 DEF Maps, Lifecycle!Next, Lifecycle!Close
    <3> QED BY <3>1, <3>2, <3>3, EditKeeps
  <2>2. CASE ~Stored(req[r].seen)
    BY <1>1, <2>2, QuietKeeps DEF Tombstone, Quiet
  <2> QED BY <2>1, <2>2
<1>2. CASE SetStatus(r)
  <2> DEFINE writes == /\ ~req[r].seen.scrubbed /\ Stored(req[r].seen)
                       /\ req[r].seen.status # req[r].target
  <2>1. CASE writes
    <3>1. /\ user' = [user EXCEPT !.status = req[r].target,
                                  !.confirmed = IF req[r].target = "ACTIVE" THEN "yes" ELSE @]
          /\ evidence' = IF req[r].target = "ACTIVE" THEN evidence \cup {"admin"} ELSE evidence
          /\ UNCHANGED <<lastId, sessions>> /\ user # NoUser
      BY <1>2, <2>1 DEF SetStatus, Stored
    <3>2. req[r].target \in {"PENDING", "ACTIVE", "DELETED"}
      BY <1>2, <1>f DEF SetStatus, At, Justified, Locals
    <3>3. /\ user'.id = user.id /\ user'.status = req[r].target /\ user'.password = user.password
          /\ user'.confirmed = IF req[r].target = "ACTIVE" THEN "yes" ELSE user.confirmed
      BY <1>f, <3>1 DEF UserDocs
    <3>4. Maps
      BY <1>f, <3>1, <3>2, <3>3 DEF Maps, Lifecycle!Next, Lifecycle!AdminSet
    <3>5. req[r].target = "ACTIVE" => Verified'
      BY <3>1 DEF Verified, Lifecycle!Verified
    <3> QED BY <3>1, <3>2, <3>3, <3>4, <3>5, EditKeeps
  <2>2. CASE ~writes
    BY <1>2, <2>2, QuietKeeps DEF SetStatus, Quiet
  <2> QED BY <2>1, <2>2
<1>3. CASE StartDelete(r) \/ StartSetStatus(r)
  BY <1>3, QuietKeeps DEF StartDelete, StartSetStatus, Quiet, db
<1> QED BY <1>1, <1>2, <1>3 DEF Remove

LEMMA StepKeeps ==
    ASSUME AuthInv, [Next]_vars
    PROVE  Keeps
<1>1. ASSUME NEW r \in Requests, Step(r) PROVE Keeps
  <2>1. CASE CallFails(r)
    BY <2>1, QuietKeeps DEF CallFails, Quiet, db
  <2> QED BY <1>1, <2>1, SignupKeeps, IssueKeeps, SubmitKeeps, SessionKeeps, SocialKeeps, RemoveKeeps
          DEF Step
<1>2. ASSUME NEW p \in Purposes, Expire(p) PROVE Keeps
  BY <1>2, QuietKeeps DEF Expire, Quiet, db
<1>3. CASE UNCHANGED vars
  BY <1>3, QuietKeeps DEF vars, Quiet
<1> QED BY <1>1, <1>2, <1>3 DEF Next

-----------------------------------------------------------------------------
(* The theorems *)

(* Requests that do not move stay justified: evidence and ids only grow, and
   the document a request has read stays confirmed while it is stored. *)
LEMMA OthersJustified ==
    ASSUME AuthInv, [Next]_vars, ConfirmedKept, NEW q \in Requests, req'[q] = req[q]
    PROVE  Justified(q)'
<1>0. TypeOK /\ lastId \in Nat /\ Justified(q)
  BY DocumentFacts
<1>1. (Verified => Verified') /\ ("social" \in evidence => "social" \in evidence')
  BY EvidenceStays, VerifiedStays
<1>2. ASSUME NEW i \in 1 .. lastId PROVE i \in 1 .. lastId'
  <2>1. lastId' \in Nat
    BY <1>0, TypeStep DEF TypeOK
  <2> QED BY <1>0, <2>1, IdsGrow
<1>3. ASSUME req[q].seen.id \in 1 .. lastId, StillConfirmed(req[q].seen)
      PROVE  StillConfirmed(req[q].seen)'
  BY <1>0, <1>3 DEF StillConfirmed, Stored, ConfirmedKept
<1>4. req[q].pc = "changeSave" \/ (req[q].pc = "compare" /\ req[q].seen.status = "ACTIVE")
        => /\ Verified'
           /\ req[q].seen.id \in 1 .. lastId'
           /\ StillConfirmed(req[q].seen)'
  BY <1>0, <1>1, <1>2, <1>3 DEF Justified
<1> QED BY <1>0, <1>1, <1>4 DEF Justified, StillConfirmed, Stored

LEMMA InvStep == AuthInv /\ [Next]_vars => AuthInv'
<1> SUFFICES ASSUME AuthInv, [Next]_vars PROVE AuthInv'
  OBVIOUS
<1>1. TypeOK /\ RequestsJustified
  BY DEF AuthInv
<1>2. TypeOK'
  BY <1>1, TypeStep
<1>a. Keeps
  BY StepKeeps
<1>3. ASSUME NEW q \in Requests PROVE Justified(q)'
  <2>1. CASE req'[q] = req[q]
    BY <1>a, <2>1, OthersJustified DEF Keeps
  <2>2. ASSUME NEW r \in Requests, Step(r) PROVE Justified(q)'
    <3>1. CASE q = r
      BY <1>2, <2>2, <3>1, JustifiedStep
    <3>2. CASE q # r
      BY <1>1, <2>1, <2>2, <3>2, MoveLeavesOthers
    <3> QED BY <3>1, <3>2
  <2>3. ASSUME NEW p \in Purposes, Expire(p) PROVE req' = req
    BY <2>3 DEF Expire
  <2>4. CASE UNCHANGED vars
    BY <2>1, <2>4 DEF vars
  <2> QED BY <2>1, <2>2, <2>3, <2>4 DEF Next
<1> QED BY <1>a, <1>2, <1>3 DEF AuthInv, RequestsJustified, Promises, Keeps

(* The invariant the promises rest on: every request in flight that is about
   to make the account usable, or to give it a password, has the evidence
   for it, however long ago it read the account (verifyCode, resetPassword,
   applySocialMerge). *)
THEOREM Invariant == Spec => []AuthInv
<1> QED BY InitInv, InvStep, PTL DEF Spec

(* A usable account answers only to a password that belongs to the person a
   code for this very registration, or a reset code, was mailed to, or that
   an admin let in - but for an activation that reached a registration made
   again while it was under way (verifyCode, applySocialMerge). *)
THEOREM PasswordsConfirmed == Spec => []PasswordConfirmedUnlessStray
<1>1. AuthInv => PasswordConfirmedUnlessStray
  BY DEF AuthInv
<1> QED BY <1>1, Invariant, PTL

(* No token is signed, and no account is usable, before somebody has shown
   control of the address (login's status check). *)
THEOREM AccessNeedsEvidence == Spec => []NoAccessWithoutEvidence
<1>1. AuthInv => NoAccessWithoutEvidence
  BY DEF AuthInv
<1> QED BY <1>1, Invariant, PTL

(* The handlers, interleaved call by call, implement the lifecycle: every
   step of a handler is one step of AccountLifecycle, or leaves it alone. *)
THEOREM Implementation == Spec => ImplementsLifecycle
<1>1. Init => Lifecycle!Init
  BY DEF Init, Lifecycle!Init, NoUser
<1>2. AuthInv /\ [Next]_vars => [Lifecycle!Next]_(Lifecycle!lifecycleVars)
  BY StepKeeps DEF Maps, Keeps
<1> QED BY <1>1, <1>2, Invariant, PTL DEF Spec, ImplementsLifecycle, Lifecycle!Spec

(* A rollback never removes an account that was verified, taken over or
   closed since the sign-up it belongs to (deletePendingUserById). *)
THEOREM RollbackSpares == Spec => VerifiedNeverRemoved
<1>1. AuthInv /\ [Next]_vars => [user.status \in {"ACTIVE", "DELETED"} => user' # NoUser]_vars
  <2> SUFFICES ASSUME AuthInv, [Next]_vars, user.status \in {"ACTIVE", "DELETED"}
               PROVE  user' # NoUser
    OBVIOUS
  <2>1. Maps
    BY StepKeeps DEF Keeps
  <2>2. user'.status # "NONE"
    BY <2>1 DEF Maps, Lifecycle!Next, Lifecycle!Show, Lifecycle!Register, Lifecycle!RegisterSocial,
       Lifecycle!Abandon, Lifecycle!Activate, Lifecycle!TakeOver, Lifecycle!SetPassword,
       Lifecycle!Close, Lifecycle!AdminSet, Lifecycle!lifecycleVars
  <2> QED BY <2>2 DEF NoUser
<1> QED BY <1>1, Invariant, PTL DEF Spec, VerifiedNeverRemoved

(* What a step may do to a document that stays. *)
LEMMA StepOnDocument ==
    ASSUME AuthInv, [Next]_vars, user # NoUser, user' # NoUser
    PROVE  /\ user'.id = user.id
           /\ user.status = "DELETED" /\ user'.status # "DELETED"
                => \E r \in Requests : At(r, "activate") \/ At(r, "setStatus")
<1>f. user \in UserDocs
  BY DocumentFacts
<1>1. ASSUME NEW r \in Requests, Step(r), ~UNCHANGED user
      PROVE  /\ user'.id = user.id
             /\ \/ user'.status = user.status \/ user'.status = "DELETED"
                \/ user.status = "PENDING" \/ At(r, "activate") \/ At(r, "setStatus")
  <2>1. CASE Signup(r)
    BY <1>1, <2>1 DEF Signup, StartSignup, CreatePending, RollbackPendingSignup, db
  <2>2. CASE Submit(r)
    <3>1. CASE ActivateAndAddLocalAuth(r)
      BY <1>f, <1>1, <3>1 DEF ActivateAndAddLocalAuth, UserDocs
    <3>2. CASE SaveReset(r)
      BY <1>f, <1>1, <3>2 DEF SaveReset, UserDocs
    <3> QED BY <1>1, <2>2, <3>1, <3>2 DEF Submit, StartVerifyCode, StartResetPassword, GetOtp,
            GetAttempts, LockOtp, LockAttempts, CountAttempt, ConsumeOtp, ConsumeAttempts, db
  <2>3. CASE Session(r)
    BY <1>f, <1>1, <2>3 DEF Session, StartLogin, SignToken, StartChangePassword, SaveChange, db,
       UserDocs
  <2>4. CASE Social(r)
    <3>1. CASE FlipPending(r)
      BY <1>f, <1>1, <3>1 DEF FlipPending, TakeOver, UserDocs
    <3>2. CASE AddAuthType(r) \/ PushAccount(r)
      BY <1>f, <1>1, <3>2 DEF AddAuthType, PushAccount, UserDocs
    <3> QED BY <1>1, <2>4, <3>1, <3>2 DEF Social, StartSocial, SocialByExternalId, CreateSocial,
            RereadSocial, FinishSocial, db
  <2>5. CASE Remove(r)
    BY <1>f, <1>1, <2>5 DEF Remove, StartDelete, Tombstone, StartSetStatus, SetStatus, NoUser,
       UserDocs, db
  <2> QED BY <1>1, <2>1, <2>2, <2>3, <2>4, <2>5 DEF Step, Issue, StartGenerateCode,
          StartForgotPassword, AssertOtpNotInCooldown, DrawOtp, StoreOtp, ClearOtpAttempts,
          SetOtpCooldown, SendMail, ClearOtpState, CallFails, db
<1>2. ASSUME NEW p \in Purposes, Expire(p) PROVE UNCHANGED user
  BY <1>2 DEF Expire, db
<1>3. CASE UNCHANGED user
  BY <1>3
<1> QED BY <1>1, <1>2, <1>3 DEF Next, vars

(* No handler holding an old snapshot puts another document in the place of
   the stored one (save and updateOne go by _id). *)
THEOREM DocumentStays == Spec => OneDocumentPerAddress
<1>1. AuthInv /\ [Next]_vars => [user # NoUser /\ user' # NoUser => user'.id = user.id]_vars
  BY StepOnDocument
<1> QED BY <1>1, Invariant, PTL DEF Spec, OneDocumentPerAddress

(* A closed account comes back only through the activation of a sign-up
   (activateAndAddLocalAuth goes by e-mail) or an admin's status write. *)
THEOREM ClosedStaysClosed == Spec => OnlyActivationRevives
<1>1. AuthInv /\ [Next]_vars
        => [user.status = "DELETED" /\ user'.status # "DELETED"
              => \E r \in Requests : At(r, "activate") \/ At(r, "setStatus")]_vars
  <2> SUFFICES ASSUME AuthInv, [Next]_vars, user.status = "DELETED", user'.status # "DELETED"
               PROVE  \E r \in Requests : At(r, "activate") \/ At(r, "setStatus")
    OBVIOUS
  <2>1. Maps
    BY StepKeeps DEF Keeps
  <2>2. user'.status # "NONE"
    BY <2>1 DEF Maps, Lifecycle!Next, Lifecycle!Show, Lifecycle!Register, Lifecycle!RegisterSocial,
       Lifecycle!Abandon, Lifecycle!Activate, Lifecycle!TakeOver, Lifecycle!SetPassword,
       Lifecycle!Close, Lifecycle!AdminSet, Lifecycle!lifecycleVars
  <2> QED BY <2>2, StepOnDocument DEF NoUser
<1> QED BY <1>1, Invariant, PTL DEF Spec, OnlyActivationRevives

-----------------------------------------------------------------------------
(* Tombstones: TombstoneInv is inductive.                                    *)

Calm == user.scrubbed /\ ~user.crowded

Emptied == /\ user.status = "DELETED"
           /\ user.password = NoPassword /\ user.authType = {} /\ user.accounts = {}

(* What a step of r leaves: r in the right calls, and, if it leaves a calm
   tombstone, that tombstone empty, r harmless, and nobody else who was not
   harmless before. *)
After(r) ==
    /\ Serves(req'[r])
    /\ Calm' => Harmless(req'[r]) /\ Emptied' /\ (Calm \/ Crowd(r) = {})

(* The calls Serves and Harmless say nothing of. *)
Silent == Calls \ {"create", "activate", "save", "getOtp", "changeSave", "createSocial", "reread",
                   "flip", "addType", "push", "refresh", "setStatus"}

LEMMA LeaveAfter ==
    ASSUME TombstoneInv, UNCHANGED user, NEW r \in Requests, Serves(req'[r]),
           Calm => Harmless(req'[r])
    PROVE  After(r)
<1>1. Calm' = Calm /\ Emptied' = Emptied
  BY DEF Calm, Emptied
<1>2. Calm => Emptied
  BY DEF TombstoneInv, TombstoneScrubbedUnlessCrowded, Calm, Emptied
<1> QED BY <1>1, <1>2 DEF After

LEMMA SilentAfter ==
    ASSUME TombstoneInv, UNCHANGED user, NEW r \in Requests, req'[r].pc \in Silent,
           req'[r].op = req[r].op \/ req'[r].op \in {"none", "signup", "generate", "forgot", "reset",
                                                   "login", "delete", "status"}
    PROVE  After(r)
<1>1. Serves(req'[r])
  BY DEF Serves, Silent
<1>2. Calm => Harmless(req[r])
  BY DEF TombstoneInv, Calm
<1>3. Calm => Harmless(req'[r])
  BY <1>2 DEF Harmless, Silent
<1> QED BY <1>1, <1>3, LeaveAfter

LEMMA DoneAfter ==
    ASSUME TypeOK, TombstoneInv, UNCHANGED user, NEW r \in Requests, Done(r)
    PROVE  After(r)
<1>1. req'[r].pc = "idle" /\ req'[r].op = "none"
  BY DEF Done, Idle, TypeOK
<1> QED BY <1>1, SilentAfter DEF Silent, Calls

LEMMA GotoAfter ==
    ASSUME TypeOK, TombstoneInv, UNCHANGED user, NEW r \in Requests, NEW call \in Silent,
           Goto(r, call)
    PROVE  After(r)
<1>1. req'[r].pc = call /\ req'[r].op = req[r].op
  BY DEF Goto, TypeOK, Locals
<1> QED BY <1>1, SilentAfter

(* A step that leaves no calm tombstone. *)
LEMMA RousedAfter ==
    ASSUME NEW r \in Requests, ~Calm', Serves(req'[r])
    PROVE  After(r)
  BY DEF After

LEMMA DoneServes ==
    ASSUME TypeOK, NEW r \in Requests, Done(r)
    PROVE  Serves(req'[r])
  BY DEF Done, Idle, TypeOK, Serves

LEMMA SignupAfter ==
    ASSUME AuthInv, TombstoneInv, NEW r \in Requests, Signup(r)
    PROVE  After(r)
<1>a. TypeOK /\ req \in [Requests -> Locals] /\ req[r] \in Locals /\ Serves(req[r])
  BY DEF AuthInv, TypeOK, TombstoneInv
<1>1. CASE StartSignup(r)
  <2>1. UNCHANGED user
    BY <1>1 DEF StartSignup, db
  <2>2. PICK pw \in Passwords : StartSignup(r)!2!(pw)
    BY <1>1 DEF StartSignup
  <2>3. req'[r].pc \in {"create", "store"} /\ req'[r].op = "signup"
    BY <1>a, <2>2 DEF Enter, Idle
  <2>4. Serves(req'[r]) /\ Harmless(req'[r])
    BY <2>3 DEF Serves, Harmless
  <2> QED BY <2>1, <2>4, LeaveAfter
<1>2. CASE CreatePending(r)
  <2>1. CASE user = NoUser
    <3>1. ~Calm'
      BY <1>2, <2>1 DEF CreatePending, PendingUser, NoUser, Calm
    <3>2. CASE Done(r)
      BY <1>a, <3>1, <3>2, RousedAfter, DoneServes
    <3>3. CASE ~Done(r)
      <4>1. PICK c \in NextCodes(NoCode) : RegistrationStored(r, c)
        BY <1>2, <2>1, <3>3 DEF CreatePending
      <4>2. req'[r].pc = "store"
        BY <1>a, <4>1 DEF RegistrationStored, Locals
      <4> QED BY <3>1, <4>2, RousedAfter DEF Serves
    <3> QED BY <3>2, <3>3
  <2>2. CASE user # NoUser
    BY <1>a, <1>2, <2>2, DoneAfter DEF CreatePending
  <2> QED BY <2>1, <2>2
<1>3. CASE RollbackPendingSignup(r)
  <2>1. Goto(r, "clearState") /\ "clearState" \in Silent
    BY <1>3 DEF RollbackPendingSignup, Silent, Calls
  <2>2. CASE UNCHANGED user
    BY <1>a, <2>1, <2>2, GotoAfter
  <2>3. CASE ~UNCHANGED user
    <3>1. ~Calm'
      BY <1>3, <2>3 DEF RollbackPendingSignup, NoUser, Calm
    <3>2. req'[r].pc = "clearState"
      BY <1>a, <2>1 DEF Goto, Locals
    <3> QED BY <3>1, <3>2, RousedAfter DEF Serves
  <2> QED BY <2>2, <2>3
<1> QED BY <1>1, <1>2, <1>3 DEF Signup

LEMMA IssueAfter ==
    ASSUME AuthInv, TombstoneInv, NEW r \in Requests, Issue(r)
    PROVE  After(r)
<1>a. TypeOK /\ req \in [Requests -> Locals] /\ req[r] \in Locals
  BY DEF AuthInv, TypeOK
<1>b. UNCHANGED user
  BY DEF Issue, StartGenerateCode, StartForgotPassword, AssertOtpNotInCooldown, DrawOtp, StoreOtp,
     ClearOtpAttempts, SetOtpCooldown, SendMail, ClearOtpState, db
<1>c. {"checkCooldown", "draw", "store", "startCooldown", "clearAttempts", "mail"} \subseteq Silent
  BY DEF Silent, Calls
<1>1. CASE StartGenerateCode(r) \/ StartForgotPassword(r)
  <2>1. req'[r].pc = "checkCooldown" /\ req'[r].op \in {"generate", "forgot"}
    BY <1>a, <1>1 DEF StartGenerateCode, StartForgotPassword, Enter, Idle
  <2> QED BY <1>b, <1>c, <2>1, SilentAfter
<1>2. CASE AssertOtpNotInCooldown(r) \/ DrawOtp(r)
  <2>1. CASE Done(r)
    BY <1>a, <1>b, <2>1, DoneAfter
  <2>2. CASE Goto(r, "draw")
    BY <1>a, <1>b, <1>c, <2>2, GotoAfter
  <2>3. CASE ~Done(r) /\ ~Goto(r, "draw")
    <3>1. PICK c : req' = [req EXCEPT ![r] = [req[r] EXCEPT !.pc = "store", !.code = c]]
      BY <1>2, <2>3 DEF AssertOtpNotInCooldown, DrawOtp
    <3>2. req'[r].pc = "store" /\ req'[r].op = req[r].op
      BY <1>a, <3>1 DEF Locals
    <3> QED BY <1>b, <1>c, <3>2, SilentAfter
  <2> QED BY <2>1, <2>2, <2>3
<1>3. CASE StoreOtp(r)
  <2>1. req'[r].pc = AfterStore(req[r].op) /\ req'[r].op = req[r].op
    BY <1>a, <1>3 DEF StoreOtp, Locals
  <2> QED BY <1>b, <1>c, <2>1, SilentAfter DEF AfterStore
<1>4. CASE ClearOtpAttempts(r) \/ SetOtpCooldown(r) \/ SendMail(r) \/ ClearOtpState(r)
  <2>1. Done(r) \/ Goto(r, "startCooldown") \/ Goto(r, "mail")
    BY <1>4 DEF ClearOtpAttempts, SetOtpCooldown, SendMail, ClearOtpState
  <2> QED BY <1>a, <1>b, <1>c, <2>1, DoneAfter, GotoAfter
<1> QED BY <1>1, <1>2, <1>3, <1>4 DEF Issue

LEMMA SubmitAfter ==
    ASSUME AuthInv, TombstoneInv, NEW r \in Requests, Submit(r)
    PROVE  After(r)
<1>a. TypeOK /\ req \in [Requests -> Locals] /\ req[r] \in Locals /\ user \in UserDocs
  BY DEF AuthInv, TypeOK
<1>b. Serves(req[r]) /\ (Calm => Harmless(req[r]) /\ Emptied)
  BY DEF TombstoneInv, TombstoneScrubbedUnlessCrowded, Calm, Emptied
<1>c. {"consume", "consumeAttempts", "getAttempts", "lockOtp", "lockAttempts", "count"} \subseteq Silent
  BY DEF Silent, Calls
<1>1. CASE StartVerifyCode(r)
  <2>1. req'[r].pc = "getOtp" /\ req'[r].op = "verify" /\ user' = user /\ user.status = "PENDING"
    BY <1>a, <1>1 DEF StartVerifyCode, Enter, Idle, db
  <2>2. ~Calm
    BY <1>b, <2>1 DEF Emptied
  <2> QED BY <2>1, <2>2, LeaveAfter DEF Serves
<1>2. CASE StartResetPassword(r)
  <2>1. req'[r].pc = "getOtp" /\ req'[r].op = "reset" /\ req'[r].seen = user /\ user' = user
    BY <1>a, <1>2 DEF StartResetPassword, Enter, Idle, db
  <2> QED BY <2>1, LeaveAfter DEF Serves, Harmless, Calm
<1>3. CASE GetOtp(r)
  <2>1. user' = user /\ req[r].pc = "getOtp"
    BY <1>3 DEF GetOtp, At
  <2>2. CASE Done(r)
    BY <1>a, <2>1, <2>2, DoneAfter
  <2>3. CASE req' = [req EXCEPT ![r] = Matched(req[r])]
    <3>1. req'[r] = Matched(req[r])
      BY <1>a, <2>3
    <3>2. /\ req'[r].pc = AfterMatch(req[r].op) /\ req'[r].op = req[r].op
          /\ req'[r].seen = req[r].seen
      BY <1>a, <3>1 DEF Matched, Locals
    <3>3. req[r].op \in {"verify", "reset"}
      BY <1>b, <2>1 DEF Serves
    <3>4. Serves(req'[r])
      BY <3>2, <3>3 DEF Serves, AfterMatch
    <3>5. Calm => Harmless(req'[r])
      BY <1>b, <2>1, <3>2, <3>3 DEF Harmless, AfterMatch
    <3> QED BY <2>1, <3>4, <3>5, LeaveAfter
  <2>4. CASE req' = [req EXCEPT ![r] = [Idle EXCEPT !.pc = "getAttempts", !.op = req[r].op,
                                                    !.purpose = req[r].purpose]]
    <3>1. req'[r].pc = "getAttempts" /\ req'[r].op = req[r].op
      BY <1>a, <2>4 DEF Idle
    <3> QED BY <1>c, <2>1, <3>1, SilentAfter
  <2> QED BY <1>3, <2>2, <2>3, <2>4 DEF GetOtp
<1>4. CASE GetAttempts(r)
  <2>1. user' = user
    BY <1>4 DEF GetAttempts, db
  <2>2. \/ Goto(r, "lockOtp")
        \/ \E n : req' = [req EXCEPT ![r] = [req[r] EXCEPT !.pc = "count", !.count = n]]
    BY <1>4 DEF GetAttempts
  <2>3. req'[r].pc \in {"lockOtp", "count"} /\ req'[r].op = req[r].op
    BY <1>a, <2>2 DEF Goto, Locals
  <2> QED BY <1>c, <2>1, <2>3, SilentAfter
<1>5. CASE LockOtp(r) \/ ConsumeOtp(r) \/ LockAttempts(r) \/ CountAttempt(r) \/ ConsumeAttempts(r)
  <2>1. user' = user /\ (Goto(r, "lockAttempts") \/ Goto(r, "consumeAttempts") \/ Done(r))
    BY <1>5 DEF LockOtp, ConsumeOtp, LockAttempts, CountAttempt, ConsumeAttempts, db
  <2> QED BY <1>a, <1>c, <2>1, GotoAfter, DoneAfter
<1>6. CASE ActivateAndAddLocalAuth(r)
  <2>1. ~Calm
    BY <1>6, <1>b DEF ActivateAndAddLocalAuth, At, Serves, Harmless
  <2>2. ~Calm'
    BY <1>6, <1>a, <2>1 DEF ActivateAndAddLocalAuth, UserDocs, Calm
  <2>3. CASE Done(r)
    BY <1>a, <2>2, <2>3, DoneServes, RousedAfter
  <2>4. CASE ~Done(r)
    <3>1. req' = [req EXCEPT ![r] = [req[r] EXCEPT !.pc = "consume", !.owner = 0]]
      BY <1>6, <2>4 DEF ActivateAndAddLocalAuth
    <3>2. req'[r].pc = "consume"
      BY <1>a, <3>1 DEF Locals
    <3> QED BY <2>2, <3>2, RousedAfter DEF Serves
  <2> QED BY <2>3, <2>4
<1>7. CASE SaveReset(r)
  <2>1. CASE req[r].seen.scrubbed \/ ~Stored(req[r].seen)
    BY <1>a, <1>7, <2>1, DoneAfter DEF SaveReset
  <2>2. CASE ~(req[r].seen.scrubbed \/ ~Stored(req[r].seen))
    <3>1. ~Calm
      BY <1>7, <1>b, <2>2 DEF SaveReset, At, Harmless
    <3>2. ~Calm'
      BY <1>7, <1>a, <2>2, <3>1 DEF SaveReset, UserDocs, Calm
    <3>3. req' = [req EXCEPT ![r] = [req[r] EXCEPT !.pc = "consume", !.seen = NoUser,
                                                   !.pw = NoPassword]]
      BY <1>7, <2>2 DEF SaveReset
    <3>4. req'[r].pc = "consume"
      BY <1>a, <3>3 DEF Locals
    <3> QED BY <3>2, <3>4, RousedAfter DEF Serves
  <2> QED BY <2>1, <2>2
<1> QED BY <1>1, <1>2, <1>3, <1>4, <1>5, <1>6, <1>7 DEF Submit

LEMMA SessionAfter ==
    ASSUME AuthInv, TombstoneInv, NEW r \in Requests, Session(r)
    PROVE  After(r)
<1>a. TypeOK /\ req \in [Requests -> Locals] /\ req[r] \in Locals /\ user \in UserDocs
  BY DEF AuthInv, TypeOK
<1>b. Serves(req[r]) /\ (Calm => Harmless(req[r]) /\ Emptied)
  BY DEF TombstoneInv, TombstoneScrubbedUnlessCrowded, Calm, Emptied
<1>1. CASE StartLogin(r)
  <2>1. req'[r].pc = "compare" /\ req'[r].op = "login" /\ user' = user
    BY <1>a, <1>1 DEF StartLogin, Enter, Idle, db
  <2> QED BY <2>1, SilentAfter DEF Silent, Calls
<1>2. CASE SignToken(r)
  BY <1>a, <1>2, DoneAfter DEF SignToken
<1>3. CASE StartChangePassword(r)
  <2>1. user' = user /\ ~Calm
    BY <1>b, <1>3 DEF StartChangePassword, Emptied, db
  <2>2. req'[r].pc = "changeSave" /\ req'[r].op = "change"
    BY <1>a, <1>3 DEF StartChangePassword, Enter, Idle
  <2> QED BY <2>1, <2>2, LeaveAfter DEF Serves
<1>4. CASE SaveChange(r)
  <2>1. ~Calm
    BY <1>4, <1>b DEF SaveChange, At, Serves, Harmless
  <2>2. ~Calm'
    BY <1>4, <1>a, <2>1 DEF SaveChange, UserDocs, Calm
  <2> QED BY <1>a, <1>4, <2>2, DoneServes, RousedAfter DEF SaveChange
<1> QED BY <1>1, <1>2, <1>3, <1>4 DEF Session

LEMMA SocialAfter ==
    ASSUME AuthInv, TombstoneInv, NEW r \in Requests, Social(r)
    PROVE  After(r)
<1>a. TypeOK /\ req \in [Requests -> Locals] /\ req[r] \in Locals /\ user \in UserDocs
  BY DEF AuthInv, TypeOK
<1>b. Serves(req[r]) /\ (Calm => Harmless(req[r]) /\ Emptied)
  BY DEF TombstoneInv, TombstoneScrubbedUnlessCrowded, Calm, Emptied
<1>c. \A doc, via : MergeCall(doc, via) \in {"flip", "addType", "push"}
  BY DEF MergeCall
<1>1. CASE StartSocial(r)
  <2>1. user' = user /\ ~Calm
    BY <1>1, <1>b DEF StartSocial, Emptied
  <2>2. PICK via \in Providers :
          Enter(r, "social",
                [Idle EXCEPT !.pc = IF user = NoUser THEN "createSocial" ELSE MergeCall(user, via),
                             !.via = via, !.seen = user])
    BY <1>1 DEF StartSocial
  <2>3. req'[r].op = "social" /\ req'[r].pc \in {"createSocial", "flip", "addType", "push"}
    BY <1>a, <1>c, <2>2 DEF Enter, Idle
  <2> QED BY <2>1, <2>3, LeaveAfter DEF Serves
<1>2. CASE SocialByExternalId(r)
  <2>1. user' = user /\ req' = req
    BY <1>2 DEF SocialByExternalId
  <2> QED BY <1>b, <2>1, LeaveAfter
<1>3. CASE \/ CreateSocial(r) \/ RereadSocial(r) \/ FlipPending(r) \/ AddAuthType(r)
           \/ PushAccount(r) \/ FinishSocial(r)
  <2>1. req[r].op = "social"
    BY <1>3, <1>b DEF CreateSocial, RereadSocial, FlipPending, AddAuthType, PushAccount, FinishSocial,
       At, Serves
  <2>2. ~Calm
    BY <1>b, <2>1 DEF Harmless
  <2>3. ~Calm'
    <3>1. \/ user' = user \/ user' = SocialUser(req[r].via) \/ user' = TakeOver(user, req[r].via)
          \/ user' = [user EXCEPT !.authType = @ \cup {req[r].via}]
          \/ user' = [user EXCEPT !.accounts = @ \cup {req[r].via}]
      BY <1>3 DEF CreateSocial, RereadSocial, FlipPending, AddAuthType, PushAccount, FinishSocial, db
    <3> QED BY <1>a, <2>2, <3>1 DEF SocialUser, NoUser, TakeOver, UserDocs, Calm
  <2>4. CASE Done(r)
    BY <1>a, <2>3, <2>4, DoneServes, RousedAfter
  <2>5. CASE ~Done(r)
    <3>1. req'[r].op = "social"
          /\ req'[r].pc \in {"reread", "flip", "addType", "push", "refresh"}
      <4>1. CASE RereadSocial(r)
        <5>1. req' = [req EXCEPT ![r] = [req[r] EXCEPT !.pc = MergeCall(user, req[r].via),
                                                       !.seen = user]]
          BY <2>5, <4>1 DEF RereadSocial
        <5>2. req'[r].pc = MergeCall(user, req[r].via) /\ req'[r].op = req[r].op
          BY <1>a, <5>1 DEF Locals
        <5> QED BY <1>c, <2>1, <5>2
      <4>2. CASE ~RereadSocial(r)
        <5>1. Goto(r, "reread") \/ Goto(r, "push") \/ Goto(r, "refresh")
          BY <1>3, <2>5, <4>2 DEF CreateSocial, FlipPending, AddAuthType, PushAccount, FinishSocial
        <5> QED BY <1>a, <2>1, <5>1 DEF Goto, Locals
      <4> QED BY <4>1, <4>2
    <3> QED BY <2>3, <3>1, RousedAfter DEF Serves
  <2> QED BY <2>4, <2>5
<1> QED BY <1>1, <1>2, <1>3 DEF Social

LEMMA RemoveAfter ==
    ASSUME AuthInv, TombstoneInv, NEW r \in Requests, Remove(r)
    PROVE  After(r)
<1>a. TypeOK /\ req \in [Requests -> Locals] /\ req[r] \in Locals /\ user \in UserDocs
  BY DEF AuthInv, TypeOK
<1>b. Serves(req[r]) /\ (Calm => Harmless(req[r]) /\ Emptied)
  BY DEF TombstoneInv, TombstoneScrubbedUnlessCrowded, Calm, Emptied
<1>1. CASE StartDelete(r)
  <2>1. req'[r].pc = "tombstone" /\ req'[r].op = "delete" /\ user' = user
    BY <1>a, <1>1 DEF StartDelete, Enter, Idle, db
  <2> QED BY <2>1, SilentAfter DEF Silent, Calls
<1>2. CASE Tombstone(r)
  <2>1. Done(r)
    BY <1>2 DEF Tombstone
  <2>2. CASE UNCHANGED user
    BY <1>a, <2>1, <2>2, DoneAfter
  <2>3. CASE ~UNCHANGED user
    <3>1. user' = [NoUser EXCEPT !.id = user.id, !.status = "DELETED", !.scrubbed = TRUE,
                                 !.confirmed = user.confirmed, !.crowded = Crowd(r) # {}]
      BY <1>2, <2>3 DEF Tombstone
    <3>2. Emptied' /\ (Calm' => Crowd(r) = {})
      BY <3>1 DEF NoUser, Emptied, Calm
    <3>3. req'[r] = Idle
      BY <1>a, <2>1 DEF Done
    <3>4. Serves(req'[r]) /\ Harmless(req'[r])
      BY <3>3 DEF Idle, Serves, Harmless
    <3> QED BY <3>2, <3>4 DEF After
  <2> QED BY <2>2, <2>3
<1>3. CASE StartSetStatus(r)
  <2>1. PICK s \in {"PENDING", "ACTIVE", "DELETED"} :
          Enter(r, "status", [Idle EXCEPT !.pc = "setStatus", !.target = s, !.seen = user])
    BY <1>3 DEF StartSetStatus
  <2>2. req'[r].pc = "setStatus" /\ req'[r].op = "status" /\ req'[r].seen = user
    BY <1>a, <2>1 DEF Enter, Idle
  <2>3. user' = user
    BY <1>3 DEF StartSetStatus, db
  <2> QED BY <2>2, <2>3, LeaveAfter DEF Serves, Harmless, Calm
<1>4. CASE SetStatus(r)
  <2>1. Done(r)
    BY <1>4 DEF SetStatus
  <2>2. CASE UNCHANGED user
    BY <1>a, <2>1, <2>2, DoneAfter
  <2>3. CASE ~UNCHANGED user
    <3>1. ~Calm
      BY <1>4, <1>b, <2>3 DEF SetStatus, At, Harmless
    <3>2. ~Calm'
      BY <1>4, <1>a, <2>3, <3>1 DEF SetStatus, UserDocs, Calm
    <3> QED BY <1>a, <2>1, <3>2, DoneServes, RousedAfter
  <2> QED BY <2>2, <2>3
<1> QED BY <1>1, <1>2, <1>3, <1>4 DEF Remove

LEMMA FailureAfter ==
    ASSUME AuthInv, TombstoneInv, NEW r \in Requests, CallFails(r)
    PROVE  After(r)
<1>a. TypeOK /\ req \in [Requests -> Locals] /\ req[r] \in Locals /\ user' = user
  BY DEF AuthInv, TypeOK, CallFails, db
<1>1. CASE Done(r)
  BY <1>a, <1>1, DoneAfter
<1>2. CASE ~Done(r)
  <2>1. /\ Handled(req[r]) # "idle"
        /\ req' = [req EXCEPT ![r] = [req[r] EXCEPT !.pc = Handled(req[r]), !.code = NoCode,
                                                     !.owner = 0]]
    BY <1>2 DEF CallFails
  <2>2. req'[r].pc = Handled(req[r]) /\ req'[r].op = req[r].op
    BY <1>a, <2>1 DEF Locals
  <2> QED BY <1>a, <2>1, <2>2, SilentAfter DEF Handled, Silent, Calls
<1> QED BY <1>1, <1>2

(* A request that is not in the crowd of a deletion is harmless. *)
LEMMA OutsiderHarmless ==
    ASSUME NEW r \in Requests, NEW q \in Requests \ {r}, Crowd(r) = {}, Serves(req[q])
    PROVE  Harmless(req[q])
<1>1. req[q].op \notin {"verify", "reset", "change", "social", "status"}
  BY DEF Crowd
<1> QED BY <1>1 DEF Serves, Harmless

LEMMA TombstoneStep ==
    ASSUME AuthInv, TombstoneInv, NEW r \in Requests, Step(r)
    PROVE  TombstoneInv'
<1>1. After(r)
  BY SignupAfter, IssueAfter, SubmitAfter, SessionAfter, SocialAfter, RemoveAfter, FailureAfter
     DEF Step
<1>2. ASSUME NEW q \in Requests \ {r} PROVE req'[q] = req[q]
  BY MoveLeavesOthers DEF AuthInv
<1>3. ASSUME NEW q \in Requests PROVE Serves(req'[q])
  BY <1>1, <1>2 DEF After, TombstoneInv
<1>4. TombstoneScrubbedUnlessCrowded'
  BY <1>1 DEF After, Calm, Emptied, TombstoneScrubbedUnlessCrowded
<1>5. ASSUME Calm', NEW q \in Requests PROVE Harmless(req'[q])
  <2>1. CASE q = r
    BY <1>1, <1>5, <2>1 DEF After
  <2>2. CASE q # r
    <3>1. Calm \/ Crowd(r) = {}
      BY <1>1, <1>5 DEF After
    <3>2. Serves(req[q]) /\ (Calm => Harmless(req[q]))
      BY DEF TombstoneInv, Calm
    <3>3. Harmless(req[q])
      BY <2>2, <3>1, <3>2, OutsiderHarmless
    <3> QED BY <1>2, <2>2, <3>3
  <2> QED BY <2>1, <2>2
<1> QED BY <1>3, <1>4, <1>5 DEF TombstoneInv, Calm

LEMMA TombstoneNext == AuthInv /\ TombstoneInv /\ [Next]_vars => TombstoneInv'
<1> SUFFICES ASSUME AuthInv, TombstoneInv, [Next]_vars PROVE TombstoneInv'
  OBVIOUS
<1>1. ASSUME NEW p \in Purposes, Expire(p) PROVE TombstoneInv'
  <2>1. user' = user /\ req' = req
    BY <1>1 DEF Expire, db
  <2> QED BY <2>1 DEF TombstoneInv, TombstoneScrubbedUnlessCrowded
<1>2. CASE UNCHANGED vars
  BY <1>2 DEF vars, TombstoneInv, TombstoneScrubbedUnlessCrowded
<1> QED BY <1>1, <1>2, TombstoneStep DEF Next

LEMMA TombstoneStart == Init => TombstoneInv
  BY DEF Init, TombstoneInv, TombstoneScrubbedUnlessCrowded, NoUser, Idle, Serves

(* A deletion nobody else was at work during leaves a tombstone into which
   nothing later puts a credential, with any number of requests afterwards
   (deleteAccount, resetPassword, verifyCode, applySocialMerge). *)
THEOREM TombstonesScrubbed == Spec => []TombstoneScrubbedUnlessCrowded
<1>1. TombstoneInv => TombstoneScrubbedUnlessCrowded
  BY DEF TombstoneInv
<1> QED BY <1>1, TombstoneStart, TombstoneNext, Invariant, PTL DEF Spec

-----------------------------------------------------------------------------
(* Resent codes: DrawnCodesDiffer is inductive.                              *)

(* From the call "store" a request stores its code, or fails. *)
LEMMA AtStore ==
    ASSUME NEW r \in Requests, Step(r), At(r, "store")
    PROVE  StoreOtp(r) \/ CallFails(r)
<1> USE DEF At, Arrives
<1>1. ~Signup(r)
  BY DEF Signup, StartSignup, CreatePending, RollbackPendingSignup
<1>2. Issue(r) => StoreOtp(r)
  BY DEF Issue, StartGenerateCode, StartForgotPassword, AssertOtpNotInCooldown, DrawOtp,
     ClearOtpAttempts, SetOtpCooldown, SendMail, ClearOtpState
<1>3. ~Submit(r)
  BY DEF Submit, StartVerifyCode, StartResetPassword, GetOtp, GetAttempts, LockOtp, LockAttempts,
     CountAttempt, ActivateAndAddLocalAuth, SaveReset, ConsumeOtp, ConsumeAttempts
<1>4. ~Session(r) /\ ~Remove(r)
  BY DEF Session, StartLogin, SignToken, StartChangePassword, SaveChange, Remove, StartDelete,
     Tombstone, StartSetStatus, SetStatus
<1>5. ~Social(r)
  BY DEF Social, StartSocial, SocialByExternalId, CreateSocial, RereadSocial, FlipPending,
     AddAuthType, PushAccount, FinishSocial
<1> QED BY <1>1, <1>2, <1>3, <1>4, <1>5 DEF Step

(* How a request of generateCode comes to the call "store". *)
LEMMA ReachesStore ==
    ASSUME AuthInv, TombstoneInv, NEW r \in Requests, Step(r),
           req'[r].pc = "store", req'[r].op = "generate"
    PROVE  DrawOtp(r) \/ (req'[r] = req[r] /\ otp' = otp /\ outdated' = outdated)
<1>a. TypeOK /\ req \in [Requests -> Locals] /\ req[r] \in Locals /\ Serves(req[r])
  BY DEF AuthInv, TypeOK, TombstoneInv
<1>b. ~Done(r)
  BY <1>a DEF Done, Idle
<1>c. ASSUME NEW call, Goto(r, call) PROVE call = "store"
  BY <1>a, <1>c DEF Goto, Locals
<1>1. CASE Signup(r)
  <2>1. CASE StartSignup(r)
    <3>1. PICK pw \in Passwords : StartSignup(r)!2!(pw)
      BY <2>1 DEF StartSignup
    <3>2. req'[r].op = "signup"
      BY <1>a, <3>1 DEF Enter, Idle
    <3> QED BY <3>2
  <2>2. CASE CreatePending(r)
    <3>1. PICK c : RegistrationStored(r, c)
      BY <1>b, <2>2 DEF CreatePending
    <3>2. req'[r].op = req[r].op
      BY <1>a, <3>1 DEF RegistrationStored, Locals
    <3> QED BY <1>a, <2>2, <3>2 DEF CreatePending, At, Serves
  <2> QED BY <1>1, <1>c, <2>1, <2>2 DEF Signup, RollbackPendingSignup
<1>2. CASE Issue(r)
  <2>1. CASE StartGenerateCode(r) \/ StartForgotPassword(r)
    <3>1. req'[r].pc = "checkCooldown"
      BY <1>a, <2>1 DEF StartGenerateCode, StartForgotPassword, Enter, Idle
    <3> QED BY <3>1
  <2>2. CASE AssertOtpNotInCooldown(r)
    <3>1. /\ req[r].op # "generate"
          /\ \E c : req' = [req EXCEPT ![r] = [req[r] EXCEPT !.pc = "store", !.code = c]]
      BY <1>b, <1>c, <2>2 DEF AssertOtpNotInCooldown
    <3> QED BY <1>a, <3>1 DEF Locals
  <2>3. CASE StoreOtp(r)
    <3>1. req'[r].pc = AfterStore(req[r].op)
      BY <1>a, <2>3 DEF StoreOtp, Locals
    <3> QED BY <3>1 DEF AfterStore
  <2> QED BY <1>2, <1>b, <1>c, <2>1, <2>2, <2>3 DEF Issue, ClearOtpAttempts, SetOtpCooldown, SendMail,
          ClearOtpState
<1>3. CASE Submit(r)
  <2>1. CASE StartVerifyCode(r) \/ StartResetPassword(r)
    <3>1. req'[r].pc = "getOtp"
      BY <1>a, <2>1 DEF StartVerifyCode, StartResetPassword, Enter, Idle
    <3> QED BY <3>1
  <2>2. CASE GetOtp(r)
    <3>1. \/ req' = [req EXCEPT ![r] = Matched(req[r])]
          \/ req' = [req EXCEPT ![r] = [Idle EXCEPT !.pc = "getAttempts", !.op = req[r].op,
                                                    !.purpose = req[r].purpose]]
      BY <1>b, <2>2 DEF GetOtp
    <3>2. req'[r].pc \in {"activate", "save", "getAttempts"}
      <4>1. Matched(req[r]).pc \in {"activate", "save"}
        BY <1>a DEF Matched, AfterMatch, Locals
      <4> QED BY <1>a, <3>1, <4>1 DEF Idle
    <3> QED BY <3>2
  <2>3. CASE GetAttempts(r) \/ ActivateAndAddLocalAuth(r) \/ SaveReset(r)
    <3>1. \/ Goto(r, "lockOtp")
          \/ \E n : req' = [req EXCEPT ![r] = [req[r] EXCEPT !.pc = "count", !.count = n]]
          \/ req' = [req EXCEPT ![r] = [req[r] EXCEPT !.pc = "consume", !.owner = 0]]
          \/ req' = [req EXCEPT ![r] = [req[r] EXCEPT !.pc = "consume", !.seen = NoUser,
                                                      !.pw = NoPassword]]
      BY <1>b, <2>3 DEF GetAttempts, ActivateAndAddLocalAuth, SaveReset
    <3>2. CASE Goto(r, "lockOtp")
      BY <1>c, <3>2
    <3>3. CASE \E n : req' = [req EXCEPT ![r] = [req[r] EXCEPT !.pc = "count", !.count = n]]
      BY <1>a, <3>3 DEF Locals
    <3>4. CASE req' = [req EXCEPT ![r] = [req[r] EXCEPT !.pc = "consume", !.owner = 0]]
      BY <1>a, <3>4 DEF Locals
    <3>5. CASE req' = [req EXCEPT ![r] = [req[r] EXCEPT !.pc = "consume", !.seen = NoUser,
                                                      !.pw = NoPassword]]
      BY <1>a, <3>5 DEF Locals
    <3> QED BY <3>1, <3>2, <3>3, <3>4, <3>5
  <2> QED BY <1>3, <1>b, <1>c, <2>1, <2>2, <2>3 DEF Submit, LockOtp, LockAttempts, CountAttempt,
          ConsumeOtp, ConsumeAttempts
<1>4. CASE Session(r) \/ Remove(r)
  <2>1. CASE StartLogin(r) \/ StartChangePassword(r) \/ StartDelete(r) \/ StartSetStatus(r)
    <3>1. req'[r].op # "generate"
      BY <1>a, <2>1 DEF StartLogin, StartChangePassword, StartDelete, StartSetStatus, Enter, Idle
    <3> QED BY <3>1
  <2> QED BY <1>4, <1>b, <2>1 DEF Session, Remove, SignToken, SaveChange, Tombstone, SetStatus
<1>5. CASE Social(r)
  <2>1. CASE StartSocial(r)
    <3>1. req'[r].op = "social"
      BY <1>a, <2>1 DEF StartSocial, Enter, Idle
    <3> QED BY <3>1
  <2>2. CASE SocialByExternalId(r)
    BY <2>2 DEF SocialByExternalId, cache
  <2>3. CASE RereadSocial(r)
    <3>1. req' = [req EXCEPT ![r] = [req[r] EXCEPT !.pc = MergeCall(user, req[r].via), !.seen = user]]
      BY <1>b, <2>3 DEF RereadSocial
    <3>2. req'[r].pc \in {"flip", "addType", "push"}
      BY <1>a, <3>1 DEF MergeCall, Locals
    <3> QED BY <3>2
  <2> QED BY <1>5, <1>b, <1>c, <2>1, <2>2, <2>3 DEF Social, CreateSocial, FlipPending, AddAuthType,
          PushAccount, FinishSocial
<1>6. CASE CallFails(r)
  <2>1. Handled(req[r]) # "store"
    BY DEF Handled
  <2>2. req' = [req EXCEPT ![r] = [req[r] EXCEPT !.pc = Handled(req[r]), !.code = NoCode, !.owner = 0]]
    BY <1>6, <1>b DEF CallFails
  <2> QED BY <1>a, <2>1, <2>2 DEF Locals
<1> QED BY <1>1, <1>2, <1>3, <1>4, <1>5, <1>6 DEF Step

(* What a step of r does to the codes, as far as the others go. *)
LEMMA CodesStep ==
    ASSUME TypeOK, NEW r \in Requests, Step(r)
    PROVE  /\ outdated \ {r} \subseteq outdated'
           /\ \/ \A p \in Purposes : otp'[p] \in {otp[p], NoCode}
              \/ StoreOtp(r)
<1>a. req[r] \in Locals /\ otp \in [Purposes -> Codes \cup {NoCode}]
  BY DEF TypeOK
<1>1. CASE Signup(r) \/ Session(r) \/ Social(r) \/ Remove(r)
  BY <1>1 DEF Signup, StartSignup, CreatePending, RollbackPendingSignup, Session, StartLogin,
     SignToken, StartChangePassword, SaveChange, Social, StartSocial, SocialByExternalId,
     CreateSocial, RereadSocial, FlipPending, AddAuthType, PushAccount, FinishSocial, Remove,
     StartDelete, Tombstone, StartSetStatus, SetStatus, cache
<1>2. CASE Issue(r)
  <2>1. CASE ClearOtpState(r)
    <3>1. otp' \in [Purposes -> Codes \cup {NoCode}]
          /\ \A p \in Purposes : otp'[p] \in {otp[p], NoCode}
      BY <1>a, <2>1 DEF ClearOtpState
    <3> QED BY <2>1, <3>1 DEF ClearOtpState
  <2>2. CASE StoreOtp(r)
    BY <2>2 DEF StoreOtp
  <2> QED BY <1>2, <2>1, <2>2 DEF Issue, StartGenerateCode, StartForgotPassword,
          AssertOtpNotInCooldown, DrawOtp, ClearOtpAttempts, SetOtpCooldown, SendMail, cache
<1>3. CASE Submit(r)
  <2>1. CASE LockOtp(r) \/ ConsumeOtp(r)
    <3>1. otp' = [otp EXCEPT ![req[r].purpose] = NoCode] /\ outdated' = outdated
      BY <2>1 DEF LockOtp, ConsumeOtp
    <3> QED BY <1>a, <3>1
  <2> QED BY <1>3, <2>1 DEF Submit, StartVerifyCode, StartResetPassword, GetOtp, GetAttempts,
          LockAttempts, CountAttempt, ActivateAndAddLocalAuth, SaveReset, ConsumeAttempts, cache
<1>4. CASE CallFails(r)
  BY <1>4 DEF CallFails
<1> QED BY <1>1, <1>2, <1>3, <1>4 DEF Step

LEMMA DrawnStep ==
    ASSUME AuthInv, TombstoneInv, DrawnCodesDiffer, NEW r \in Requests, Step(r)
    PROVE  DrawnCodesDiffer'
<1> SUFFICES ASSUME NEW q \in Requests \ outdated', req'[q].pc = "store", req'[q].op = "generate"
             PROVE  req'[q].code \in Codes \ {otp'[req'[q].purpose]}
  BY DEF DrawnCodesDiffer, At
<1>a. TypeOK /\ req \in [Requests -> Locals] /\ otp \in [Purposes -> Codes \cup {NoCode}]
  BY DEF AuthInv, TypeOK
<1>b. req[q] \in Locals /\ req[q].purpose \in Purposes
  BY <1>a DEF Locals
<1>c. NoCode \notin Codes
  BY DEF Codes, NoCode
<1>1. CASE q = r /\ DrawOtp(r)
  <2>1. otp[req[r].purpose] \in Codes \cup {NoCode} /\ otp' = otp
    BY <1>1, <1>a, <1>b DEF DrawOtp
  <2>2. PICK c \in NextCodes(otp[req[r].purpose]) :
          req' = [req EXCEPT ![r] = [req[r] EXCEPT !.pc = "store", !.code = c]]
    BY <1>1 DEF DrawOtp
  <2>3. c \in Codes \ {otp[req[r].purpose]}
    <3>1. CASE otp[req[r].purpose] \in Codes
      BY <3>1, <2>2, NextCodesExact
    <3>2. CASE otp[req[r].purpose] = NoCode
      BY <1>c, <2>1, <2>2, <3>2, NextCodesType
    <3> QED BY <2>1, <3>1, <3>2
  <2>4. req'[r].purpose = req[r].purpose /\ req'[r].code = c
    BY <1>1, <1>a, <1>b, <2>2 DEF Locals
  <2> QED BY <1>1, <2>1, <2>3, <2>4
<1>2. CASE q = r /\ ~DrawOtp(r)
  <2>1. req'[q] = req[q] /\ otp' = otp /\ outdated' = outdated
    BY <1>2, ReachesStore
  <2> QED BY <2>1 DEF DrawnCodesDiffer, At
<1>3. CASE q # r
  <2>1. req'[q] = req[q]
    BY <1>3, <1>a, MoveLeavesOthers
  <2>2. q \notin outdated
    BY <1>3, <1>a, CodesStep
  <2>3. req[q].code \in Codes \ {otp[req[q].purpose]}
    BY <2>1, <2>2 DEF DrawnCodesDiffer, At
  <2>4. CASE StoreOtp(r)
    <3>1. q \notin Overtaken(r)
      BY <2>4 DEF StoreOtp
    <3>2. req[q].purpose # req[r].purpose
      BY <1>3, <2>1, <3>1 DEF Overtaken, At
    <3>3. otp'[req[q].purpose] = otp[req[q].purpose]
      BY <1>a, <1>b, <2>4, <3>2 DEF StoreOtp
    <3> QED BY <2>1, <2>3, <3>3
  <2>5. CASE ~StoreOtp(r)
    <3>1. otp'[req[q].purpose] \in {otp[req[q].purpose], NoCode}
      BY <1>a, <1>b, <2>5, CodesStep
    <3> QED BY <1>c, <2>1, <2>3, <3>1
  <2> QED BY <2>4, <2>5
<1> QED BY <1>1, <1>2, <1>3

(* generateCode never mails the code it replaces, however many requests are
   in flight and whatever expires or is consumed meanwhile, unless another
   request stored its code since this one drew (generateOtp, generateCode). *)
THEOREM ResendsReplace == Spec => ResendReplacesCodeUnlessOutdated
<1>1. Init => TombstoneInv /\ DrawnCodesDiffer
  BY TombstoneStart DEF Init, Idle, DrawnCodesDiffer, At
<1>2. AuthInv /\ TombstoneInv /\ [Next]_vars => TombstoneInv'
  BY TombstoneNext
<1>3. AuthInv /\ TombstoneInv /\ DrawnCodesDiffer /\ [Next]_vars => DrawnCodesDiffer'
  <2> SUFFICES ASSUME AuthInv, TombstoneInv, DrawnCodesDiffer, [Next]_vars PROVE DrawnCodesDiffer'
    OBVIOUS
  <2>1. ASSUME NEW p \in Purposes, Expire(p) PROVE DrawnCodesDiffer'
    <3>1. req' = req /\ outdated' = outdated
      BY <2>1 DEF Expire
    <3>2. \A x \in Purposes : otp'[x] \in {otp[x], NoCode}
      BY <2>1 DEF Expire, AuthInv, TypeOK
    <3>3. ASSUME NEW q \in Requests PROVE req[q].purpose \in Purposes
      BY DEF AuthInv, TypeOK, Locals
    <3>4. NoCode \notin Codes
      BY DEF Codes, NoCode
    <3> QED BY <3>1, <3>2, <3>3, <3>4 DEF DrawnCodesDiffer, At
  <2>2. CASE UNCHANGED vars
    BY <2>2 DEF vars, DrawnCodesDiffer, At
  <2> QED BY <2>1, <2>2, DrawnStep DEF Next
<1>4. AuthInv /\ DrawnCodesDiffer /\ [Next]_vars
        => [\A r \in Requests \ outdated :
              At(r, "store") /\ req[r].op = "generate" /\ req'[r].pc = "clearAttempts"
                => otp'[req[r].purpose] # otp[req[r].purpose]]_vars
  <2> SUFFICES ASSUME AuthInv, DrawnCodesDiffer, Next, NEW q \in Requests \ outdated,
                      At(q, "store"), req[q].op = "generate", req'[q].pc = "clearAttempts"
               PROVE  otp'[req[q].purpose] # otp[req[q].purpose]
    BY DEF vars, At
  <2>1. req[q].code \in Codes \ {otp[req[q].purpose]}
    BY DEF DrawnCodesDiffer, At
  <2>2. ASSUME NEW r \in Requests, Step(r) PROVE StoreOtp(q)
    <3>1. r = q
      BY <2>2, MoveLeavesOthers DEF AuthInv, At
    <3>2. ~CallFails(q)
      <4>1. Handled(req[q]) = "clearState"
        BY DEF Handled, At
      <4>2. req \in [Requests -> Locals]
        BY DEF AuthInv, TypeOK
      <4>3. ASSUME CallFails(q) PROVE req'[q].pc = "clearState"
        <5>1. req' = [req EXCEPT ![q] = [req[q] EXCEPT !.pc = "clearState", !.code = NoCode,
                                                       !.owner = 0]]
          BY <4>1, <4>3 DEF CallFails
        <5> QED BY <4>2, <5>1 DEF Locals
      <4> QED BY <4>3
    <3> QED BY <2>2, <3>1, <3>2, AtStore
  <2>3. StoreOtp(q)
    BY <2>2 DEF Next, Expire, At
  <2>4. otp'[req[q].purpose] = req[q].code
    BY <2>3 DEF StoreOtp, AuthInv, TypeOK, Locals
  <2> QED BY <2>1, <2>4
<1> QED BY <1>1, <1>2, <1>3, <1>4, Invariant, PTL DEF Spec, ResendReplacesCodeUnlessOutdated

=============================================================================
