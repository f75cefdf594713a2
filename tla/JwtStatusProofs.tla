-------------------------- MODULE JwtStatusProofs --------------------------
(***************************************************************************)
(* A ban holds for every later request unless a request was caching an     *)
(* older status when it evicted: for any number of requests and admins.    *)
(***************************************************************************)
EXTENDS JwtStatus, TLAPS

LEMMA BanInit == Init => BanInv
<1> SUFFICES ASSUME Init PROVE BanInv
  OBVIOUS
<1>1. NoRequest \in RequestLocals /\ NoCall \in AdminLocals
  BY DEF NoRequest, NoCall, RequestLocals, AdminLocals
<1>2. TypeOK
  BY <1>1 DEF Init, TypeOK, Statuses
<1> QED BY <1>2 DEF Init, BanInv, BanHoldsUnlessFilling, NoRequest, NoCall

(* Serving or refusing on a status keeps the types. *)
LEMMA DecideType ==
    ASSUME TypeOK, NEW r \in Requests, NEW s, NEW late \in BOOLEAN, Decide(r, s, late)
    PROVE  /\ req' \in [Requests -> RequestLocals]
           /\ \A q \in Requests \ {r} : req'[q] = req[q]
           /\ req'[r].late => late
           /\ req'[r].pc \in {"serve", "idle"}
           /\ req'[r].pc = "serve" => s = "ACTIVE" /\ req'[r].late = late
  BY DEF TypeOK, Decide, NoRequest, RequestLocals, None, Statuses

LEMMA RequestKeeps == ASSUME BanInv, NEW r \in Requests, Request(r) PROVE BanInv'
<1>t. TypeOK /\ req[r] \in RequestLocals
  BY DEF BanInv, TypeOK
<1>1. CASE GetStatus(r)
  <2>1. CASE cached = None
    <3>1. req' = [req EXCEPT ![r] = [pc |-> "find", seen |-> None, late |-> banned]]
      BY <1>1, <2>1 DEF GetStatus
    <3>2. TypeOK'
      BY <1>1, <1>t, <3>1 DEF GetStatus, TypeOK, RequestLocals
    <3> QED BY <1>1, <1>t, <3>1, <3>2 DEF GetStatus, BanInv, TypeOK, BanHoldsUnlessFilling,
            ActiveInFlight
  <2>2. CASE cached # None
    <3>1. Decide(r, cached, banned) /\ banned \in BOOLEAN
      BY <1>1, <1>t, <2>2 DEF GetStatus, TypeOK
    <3>2. TypeOK'
      BY <1>1, <1>t, <3>1, DecideType DEF GetStatus, TypeOK
    <3> QED BY <1>1, <1>t, <3>1, <3>2, DecideType DEF GetStatus, BanInv, BanHoldsUnlessFilling,
            ActiveInFlight
  <2> QED BY <2>1, <2>2
<1>2. CASE FindById(r)
  <2>1. TypeOK'
    BY <1>2, <1>t DEF FindById, TypeOK, RequestLocals
  <2>2. req' = [req EXCEPT ![r].pc = "set", ![r].seen = status]
    BY <1>2 DEF FindById
  <2>3. /\ \A q \in Requests : req'[q].late = req[q].late
        /\ \A q \in Requests : req'[q].pc = "serve" => req[q].pc = "serve"
        /\ \A q \in Requests \ {r} : req'[q] = req[q]
        /\ req'[r].seen = status
    BY <1>t, <2>2 DEF TypeOK, RequestLocals
  <2> QED BY <1>2, <2>1, <2>3 DEF FindById, BanInv, BanHoldsUnlessFilling, ActiveInFlight
<1>3. CASE CacheStatus(r)
  <2>1. Decide(r, req[r].seen, req[r].late) /\ req[r].late \in BOOLEAN
    BY <1>3, <1>t DEF CacheStatus, RequestLocals
  <2>2. TypeOK'
    BY <1>3, <1>t, <2>1, DecideType DEF CacheStatus, TypeOK, RequestLocals
  <2>3. banned /\ ~filling => req[r].seen # "ACTIVE"
    BY <1>3 DEF CacheStatus, BanInv, ActiveInFlight
  <2> QED BY <1>3, <1>t, <2>1, <2>2, <2>3, DecideType DEF CacheStatus, BanInv,
          BanHoldsUnlessFilling, ActiveInFlight
<1>4. CASE Respond(r)
  <2>1. TypeOK'
    BY <1>4, <1>t DEF Respond, TypeOK, RequestLocals, NoRequest
  <2> QED BY <1>4, <1>t, <2>1 DEF Respond, BanInv, TypeOK, BanHoldsUnlessFilling, ActiveInFlight,
          NoRequest
<1> QED BY <1>1, <1>2, <1>3, <1>4 DEF Request

LEMMA AdminKeeps == ASSUME BanInv, NEW a \in Admins, Admin(a) PROVE BanInv'
<1>t. TypeOK /\ adm[a] \in AdminLocals
  BY DEF BanInv, TypeOK
<1>1. CASE StartBan(a) \/ StartStatusWrite(a) \/ AdminFails(a)
  <2>1. TypeOK'
    BY <1>1, <1>t DEF StartBan, StartStatusWrite, AdminFails, TypeOK, AdminLocals, NoCall, Statuses
  <2> QED BY <1>1, <2>1 DEF StartBan, StartStatusWrite, AdminFails, BanInv, BanHoldsUnlessFilling,
          ActiveInFlight, TypeOK, NoCall, Statuses, None
<1>2. CASE Save(a)
  <2>1. status' \in Statuses
    <3>1. adm[a].target \in Statuses \/ adm[a].target = None
      BY <1>t DEF AdminLocals
    <3>2. adm[a].target # None
      BY <1>2 DEF Save, BanInv
    <3> QED BY <1>2, <1>t, <3>1, <3>2 DEF Save, TypeOK
  <2>2. adm' \in [Admins -> AdminLocals]
    BY <1>2, <1>t DEF Save, TypeOK, AdminLocals, NoCall
  <2>3. /\ req' \in [Requests -> RequestLocals]
        /\ \A r \in Requests : /\ req'[r].pc = req[r].pc /\ req'[r].seen = req[r].seen
                               /\ req'[r].late = (req[r].late /\ status' # "ACTIVE")
    BY <1>2, <1>t DEF Save, TypeOK, RequestLocals
  <2>4. TypeOK'
    BY <1>2, <1>t, <2>1, <2>2, <2>3 DEF Save, TypeOK
  <2>5. \A b \in Admins : adm'[b].pc \in {"save", "saveBan"} => adm'[b].target # None
    BY <1>2, <1>t DEF Save, TypeOK, NoCall, BanInv
  <2> QED BY <1>2, <2>3, <2>4, <2>5 DEF Save, BanInv, BanHoldsUnlessFilling, ActiveInFlight
<1>3. CASE Evict(a)
  <2>1. TypeOK'
    BY <1>3, <1>t DEF Evict, TypeOK, AdminLocals, NoCall, ActiveInFlight
  <2> QED BY <1>3, <2>1 DEF Evict, BanInv, TypeOK, BanHoldsUnlessFilling, ActiveInFlight, None,
          NoCall
<1> QED BY <1>1, <1>2, <1>3 DEF Admin

LEMMA BanStep == BanInv /\ [Next]_vars => BanInv'
<1> SUFFICES ASSUME BanInv, [Next]_vars PROVE BanInv'
  OBVIOUS
<1>1. CASE Expire
  BY <1>1 DEF Expire, BanInv, TypeOK, BanHoldsUnlessFilling, ActiveInFlight, None
<1>2. CASE UNCHANGED vars
  BY <1>2 DEF vars, BanInv, TypeOK, BanHoldsUnlessFilling, ActiveInFlight
<1> QED BY <1>1, <1>2, RequestKeeps, AdminKeeps DEF Next

(* The guarantee together with what the requests in flight may still cache and
   whether the admin's call has evicted yet. *)
THEOREM BanInvariant == Spec => []BanInv
  BY BanInit, BanStep, PTL DEF Spec

(* Once banUser has answered, no later request is served, unless a request
   that read the account before the ban was still to cache what it read. *)
THEOREM BanHolds == Spec => []BanHoldsUnlessFilling
<1>1. BanInv => BanHoldsUnlessFilling
  BY DEF BanInv
<1> QED BY <1>1, BanInvariant, PTL

-----------------------------------------------------------------------------
(* The safety core of ClosedIsRefused *)

LEMMA RequestFades ==
    ASSUME TypeOK, NEW r \in Requests, Request(r), status # "ACTIVE"
    PROVE  /\ \A q \in Requests : HoldsOld(q)' => HoldsOld(q)
           /\ cached # "ACTIVE" /\ cached' = "ACTIVE" =>
                \E q \in Requests : HoldsOld(q) /\ ~HoldsOld(q)'
           /\ \A q \in Requests : req[q].pc # "serve" /\ req'[q].pc = "serve" =>
                HoldsOld(q) \/ cached = "ACTIVE"
<1>t. req[r] \in RequestLocals /\ req \in [Requests -> RequestLocals]
  BY DEF TypeOK
<1>1. CASE GetStatus(r)
  <2>1. CASE cached = None
    <3>1. req' = [req EXCEPT ![r] = [pc |-> "find", seen |-> None, late |-> banned]]
      BY <1>1, <2>1 DEF GetStatus
    <3> QED BY <1>1, <1>t, <3>1 DEF GetStatus, HoldsOld
  <2>2. CASE cached # None
    <3>1. Decide(r, cached, banned) /\ banned \in BOOLEAN
      BY <1>1, <2>2 DEF GetStatus, TypeOK
    <3> QED BY <1>1, <3>1, DecideType DEF GetStatus, HoldsOld
  <2> QED BY <2>1, <2>2
<1>2. CASE FindById(r)
  <2>1. req' = [req EXCEPT ![r].pc = "set", ![r].seen = status]
    BY <1>2 DEF FindById
  <2> QED BY <1>2, <1>t, <2>1 DEF FindById, HoldsOld, RequestLocals
<1>3. CASE CacheStatus(r)
  <2>1. Decide(r, req[r].seen, req[r].late) /\ req[r].late \in BOOLEAN
    BY <1>3, <1>t DEF CacheStatus, RequestLocals
  <2>2. /\ \A q \in Requests \ {r} : req'[q] = req[q]
        /\ req'[r].pc \in {"serve", "idle"}
        /\ req'[r].pc = "serve" => req[r].seen = "ACTIVE"
    BY <2>1, DecideType
  <2>3. cached' = req[r].seen /\ req[r].pc = "set"
    BY <1>3 DEF CacheStatus
  <2> QED BY <2>2, <2>3 DEF HoldsOld
<1>4. CASE Respond(r)
  BY <1>4, <1>t DEF Respond, HoldsOld, NoRequest
<1> QED BY <1>1, <1>2, <1>3, <1>4 DEF Request

(* An admin's call changes no request but for the history of its arrival, and
   Expire and Evict only empty the cache. *)
LEMMA AdminFades ==
    ASSUME TypeOK, NEW a \in Admins, Admin(a)
    PROVE  /\ \A q \in Requests : req'[q].pc = req[q].pc /\ req'[q].seen = req[q].seen
           /\ cached' \in {cached, None}
<1>1. CASE Save(a)
  BY <1>1 DEF Save, TypeOK, RequestLocals
<1> QED BY <1>1 DEF Admin, StartBan, StartStatusWrite, Evict, AdminFails

(* While an account stays closed, its old status is passed on only from a
   request that held it to the cache, and from there to those it serves. *)
THEOREM OldFades == Spec => OldStatusFades
<1>1. ASSUME TypeOK, [Next]_vars, status # "ACTIVE", status' # "ACTIVE"
      PROVE  /\ \A r \in Requests : HoldsOld(r)' => HoldsOld(r)
             /\ cached # "ACTIVE" /\ cached' = "ACTIVE" =>
                  \E r \in Requests : HoldsOld(r) /\ ~HoldsOld(r)'
             /\ \A r \in Requests : req[r].pc # "serve" /\ req'[r].pc = "serve" =>
                  HoldsOld(r) \/ cached = "ACTIVE"
  <2>1. CASE \E r \in Requests : Request(r)
    BY <1>1, <2>1, RequestFades
  <2>2. CASE \E a \in Admins : Admin(a)
    <3>1. PICK a \in Admins : Admin(a)
      BY <2>2
    <3> QED BY <1>1, <3>1, AdminFades DEF HoldsOld, None
  <2>3. CASE Expire
    BY <2>3 DEF Expire, HoldsOld, None
  <2>4. CASE UNCHANGED vars
    BY <2>4 DEF vars, HoldsOld
  <2> QED BY <1>1, <2>1, <2>2, <2>3, <2>4 DEF Next
<1>2. BanInv => TypeOK
  BY DEF BanInv
<1> QED BY <1>1, <1>2, BanInvariant, PTL DEF Spec, OldStatusFades

(* An account that stays closed, whose old status no cache and no request
   holds any more, is refused for as long as it stays closed. *)
THEOREM StaysRefused == Spec => RefusedForGood
<1>1. TypeOK /\ [Next]_vars /\ Refused /\ Closed /\ Closed' => Refused'
  <2> SUFFICES ASSUME TypeOK, [Next]_vars, Refused, status # "ACTIVE", status' # "ACTIVE"
               PROVE  Refused'
    BY DEF Closed
  <2>r. cached # "ACTIVE" /\ \A r \in Requests : ~HoldsOld(r) /\ req[r].pc # "serve"
    BY DEF Refused, OldIsGone, ActiveInFlight, HoldsOld
  <2>1. CASE \E r \in Requests : Request(r)
    <3>1. /\ cached' # "ACTIVE"
          /\ \A r \in Requests : ~HoldsOld(r)' /\ req'[r].pc # "serve"
      BY <2>1, <2>r, RequestFades
    <3> QED BY <3>1 DEF Refused, OldIsGone, ActiveInFlight, HoldsOld
  <2>2. CASE \E a \in Admins : Admin(a)
    <3>1. PICK a \in Admins : Admin(a)
      BY <2>2
    <3> QED BY <2>r, <3>1, AdminFades DEF Refused, OldIsGone, ActiveInFlight, HoldsOld, None
  <2>3. CASE Expire
    BY <2>3 DEF Expire, Refused, OldIsGone, ActiveInFlight, None
  <2>4. CASE UNCHANGED vars
    BY <2>4 DEF vars, Refused, OldIsGone, ActiveInFlight
  <2> QED BY <2>1, <2>2, <2>3, <2>4 DEF Next
<1>2. BanInv => TypeOK
  BY DEF BanInv
<1> QED BY <1>1, <1>2, BanInvariant, PTL DEF Spec, RefusedForGood

=============================================================================
