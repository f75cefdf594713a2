----------------------------- MODULE JwtStatus -----------------------------
(***************************************************************************)
(* The status check behind every authenticated request (validate of        *)
(* src/auth/jwt.strategy.ts) for one account, with the admin operations    *)
(* that change the status it caches (src/admin/admin.service.ts).          *)
(*                                                                         *)
(* validate() trusts a status cached for up to 30 s; banUser evicts it,    *)
(* the other status writes let it expire.  A request is one slot of        *)
(* Requests, an admin call one slot of Admins; a step is one awaited call. *)
(***************************************************************************)

CONSTANTS
    Requests,  \* slots for authenticated requests
    Admins     \* slots for admin calls

VARIABLES
    status,    \* the account's status in the database
    cached,    \* user_status_<id>, or None
    req,       \* the requests and what they know
    adm,       \* the admin calls and what they know
    banned,    \* history: a ban has been answered and the account is still closed
    filling    \* history: that ban evicted while a request held an older status

vars == <<status, cached, req, adm, banned, filling>>

None == "NONE"
Statuses == {"PENDING", "ACTIVE", "DELETED"}

RequestLocals == [pc : {"idle", "find", "set", "serve"},
                  seen : Statuses \cup {None},
                  late : BOOLEAN]  \* it arrived after the ban was answered
AdminLocals == [pc : {"idle", "save", "saveBan", "evict"},
                seen : Statuses \cup {None},
                target : Statuses \cup {None}]

NoRequest == [pc |-> "idle", seen |-> None, late |-> FALSE]
NoCall == [pc |-> "idle", seen |-> None, target |-> None]

TypeOK ==
    /\ status \in Statuses
    /\ cached \in Statuses \cup {None}
    /\ req \in [Requests -> RequestLocals]
    /\ adm \in [Admins -> AdminLocals]
    /\ banned \in BOOLEAN
    /\ filling \in BOOLEAN

-----------------------------------------------------------------------------
(* validate *)

(* DELETED and PENDING are refused; the controller serves the rest. *)
Decide(r, s, late) ==
    req' = [req EXCEPT ![r] = IF s = "ACTIVE" THEN [NoRequest EXCEPT !.pc = "serve", !.late = late]
                              ELSE NoRequest]

(* A hit starts the 30 seconds again. *)
GetStatusSliding(r) ==
    /\ req[r].pc = "idle"
    /\ req' = [req EXCEPT ![r] = [pc |-> IF cached = None THEN "find" ELSE "set",
                                  seen |-> cached, late |-> banned]]
    /\ UNCHANGED <<status, cached, adm, banned, filling>>

GetStatus(r) ==
    /\ req[r].pc = "idle"
    /\ IF cached = None
       THEN req' = [req EXCEPT ![r] = [pc |-> "find", seen |-> None, late |-> banned]]
       ELSE Decide(r, cached, banned)
    /\ UNCHANGED <<status, cached, adm, banned, filling>>

FindById(r) ==
    /\ req[r].pc = "find"
    /\ req' = [req EXCEPT ![r].pc = "set", ![r].seen = status]
    /\ UNCHANGED <<status, cached, adm, banned, filling>>

CacheStatus(r) ==
    /\ req[r].pc = "set"
    /\ cached' = req[r].seen
    /\ Decide(r, req[r].seen, req[r].late)
    /\ UNCHANGED <<status, adm, banned, filling>>

(* The controller answers; a call that throws ends the request as well. *)
Respond(r) ==
    /\ req[r].pc \in {"find", "set", "serve"}
    /\ req' = [req EXCEPT ![r] = NoRequest]
    /\ UNCHANGED <<status, cached, adm, banned, filling>>

(* The 30 seconds run out. *)
Expire ==
    /\ cached # None
    /\ cached' = None
    /\ UNCHANGED <<status, req, adm, banned, filling>>

-----------------------------------------------------------------------------
(* The admin's calls *)

StartBan(a) ==
    /\ adm[a].pc = "idle"
    /\ status # "DELETED"
    /\ adm' = [adm EXCEPT ![a] = [pc |-> "saveBan", seen |-> status, target |-> "DELETED"]]
    /\ UNCHANGED <<status, cached, req, banned, filling>>

(* updateUserStatus and deleteUser save what they read; the tombstone of
   deleteAccount and the activation by a verified code are written by an
   update, whatever status they read. *)
StartStatusWrite(a) ==
    /\ adm[a].pc = "idle"
    /\ \E s \in Statuses, seen \in {status, None} :
         adm' = [adm EXCEPT ![a] = [pc |-> "save", seen |-> seen, target |-> s]]
    /\ UNCHANGED <<status, cached, req, banned, filling>>

(* save() writes the status if it is not the one that was read; an update
   writes it. *)
Save(a) ==
    /\ adm[a].pc \in {"save", "saveBan"}
    /\ status' = IF adm[a].target # adm[a].seen THEN adm[a].target ELSE status
    /\ adm' = [adm EXCEPT ![a] = IF adm[a].pc = "saveBan" THEN [NoCall EXCEPT !.pc = "evict"]
                                 ELSE NoCall]
    /\ banned' = (banned /\ status' # "ACTIVE")
    /\ req' = [r \in Requests |-> [req[r] EXCEPT !.late = @ /\ status' # "ACTIVE"]]
    /\ UNCHANGED <<cached, filling>>

(* A request holds the status it read before the ban. *)
ActiveInFlight == \E r \in Requests : req[r].pc = "set" /\ req[r].seen = "ACTIVE"

(* banUser without its last call. *)
AnswerWithoutEviction(a) ==
    /\ adm[a].pc = "evict"
    /\ adm' = [adm EXCEPT ![a] = NoCall]
    /\ banned' = (status # "ACTIVE")
    /\ filling' = ((banned /\ filling) \/ ActiveInFlight)
    /\ UNCHANGED <<status, cached, req>>

Evict(a) ==
    /\ adm[a].pc = "evict"
    /\ cached' = None
    /\ adm' = [adm EXCEPT ![a] = NoCall]
    /\ banned' = (status # "ACTIVE")
    /\ filling' = ((banned /\ filling) \/ ActiveInFlight)
    /\ UNCHANGED <<status, req>>

(* A save or a delete that throws: the call fails where it stands. *)
AdminFails(a) ==
    /\ adm[a].pc # "idle"
    /\ adm' = [adm EXCEPT ![a] = NoCall]
    /\ UNCHANGED <<status, cached, req, banned, filling>>

-----------------------------------------------------------------------------
Init ==
    /\ status = "ACTIVE"
    /\ cached = None
    /\ req = [r \in Requests |-> NoRequest]
    /\ adm = [a \in Admins |-> NoCall]
    /\ banned = FALSE
    /\ filling = FALSE

Request(r) == GetStatus(r) \/ FindById(r) \/ CacheStatus(r) \/ Respond(r)
Admin(a) == StartBan(a) \/ StartStatusWrite(a) \/ Save(a) \/ Evict(a) \/ AdminFails(a)

Next == (\E r \in Requests : Request(r)) \/ (\E a \in Admins : Admin(a)) \/ Expire

Spec == Init /\ [][Next]_vars

(* A request that has started gets its answers (the event loop runs every
   continuation), and Redis drops the key when its time is over. *)
FairSpec ==
    /\ Spec
    /\ \A r \in Requests : WF_vars(FindById(r) \/ CacheStatus(r) \/ Respond(r))
    /\ WF_vars(Expire)

-----------------------------------------------------------------------------
(* Properties *)

(* "Evict the JWT status cache so the ban takes effect on the next request
   rather than waiting up to 30s" (admin.service.ts:922-923): no request that
   arrives after banUser has answered is served.  There is one way around it,
   a request that had read the account before the ban and caches what it read
   after the eviction; without such a request in flight the ban holds. *)
BanHoldsUnlessFilling ==
    banned /\ ~filling => \A r \in Requests : req[r].pc = "serve" => ~req[r].late

(* What the ban's promise rests on: while it stands and no fill is in flight,
   neither the cache nor a request holds ACTIVE. *)
BanInv ==
    /\ TypeOK
    /\ banned => status # "ACTIVE"
    /\ banned /\ ~filling => cached # "ACTIVE" /\ ~ActiveInFlight
    /\ \A r \in Requests : req[r].late => banned
    /\ \A a \in Admins : adm[a].pc \in {"save", "saveBan"} => adm[a].target # None
    /\ BanHoldsUnlessFilling

(* An account that stays closed is refused in the end, however its status
   was changed and whatever the cache held: nothing keeps an old status
   alive beyond its time to live. *)
ClosedIsRefused ==
    <>[](status # "ACTIVE") => <>[](\A r \in Requests : req[r].pc # "serve")

(* Why that is: the status of before is in a request that read it, in the
   cache, and in what is being served; no other place holds it. *)
HoldsOld(r) == req[r].pc = "set" /\ req[r].seen = "ACTIVE"
OldIsGone == cached # "ACTIVE" /\ ~ActiveInFlight

(* While the account stays closed no request newly comes to hold the old
   status, only one that holds it puts it into the cache, and only one that
   holds it, or the cache, lets a request be served.  With GetStatusSliding in
   place of GetStatus a hit would carry the cached status on for ever. *)
OldStatusFades ==
    [][ status # "ACTIVE" /\ status' # "ACTIVE" =>
          /\ \A r \in Requests : HoldsOld(r)' => HoldsOld(r)
          /\ cached # "ACTIVE" /\ cached' = "ACTIVE" =>
               \E r \in Requests : HoldsOld(r) /\ ~HoldsOld(r)'
          /\ \A r \in Requests : req[r].pc # "serve" /\ req'[r].pc = "serve" =>
               HoldsOld(r) \/ cached = "ACTIVE" ]_vars

(* Once the old status is gone and nothing is being served, an account that
   stays closed is refused from there on. *)
Refused == OldIsGone /\ \A r \in Requests : req[r].pc # "serve"
Closed == status # "ACTIVE"
RefusedForGood == [](Refused /\ []Closed => []Refused)

=============================================================================
