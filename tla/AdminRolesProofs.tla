-------------------------- MODULE AdminRolesProofs --------------------------
(***************************************************************************)
(* The guard of the last admin holds, for any number of users and calls,   *)
(* as long as no two demotions are past it at the same time.               *)
(***************************************************************************)
EXTENDS AdminRoles, FiniteSetTheorems, TLAPS

USE RolesAssumption

LEMMA IdleType == Idle \in Locals
  BY DEF Idle, Locals, AllHandlers

(* A count other than one leaves an admin beside any given user. *)
LEMMA AnotherAdmin ==
    ASSUME AdminRemains, AdminCount # 1, NEW u
    PROVE  \E v \in Users \ {u} : role[v] = "ADMIN"
<1> DEFINE A == {v \in Users : role[v] = "ADMIN"}
<1>1. SUFFICES ASSUME \A v \in Users \ {u} : role[v] # "ADMIN" PROVE FALSE
  OBVIOUS
<1>2. A = {u}
  BY <1>1 DEF AdminRemains
<1>3. Cardinality(A) = 1
  BY <1>2, FS_Singleton
<1> QED BY <1>3 DEF AdminCount

(* What a step leaves of the other calls, and the types it keeps. *)
LEMMA DoneKeeps ==
    ASSUME req \in [Requests -> Locals], NEW r \in Requests, Done(r)
    PROVE  /\ req' \in [Requests -> Locals] /\ req'[r] = Idle
           /\ \A q \in Requests \ {r} : req'[q] = req[q]
           /\ ~Demoting(r)'
           /\ \A q \in Requests \ {r} : Demoting(q)' <=> Demoting(q)
  BY IdleType DEF Done, Demoting, Idle

LEMMA ReadsKeeps ==
    ASSUME TypeOK, NEW r \in Requests, NEW op \in AllHandlers, NEW u \in Users,
           NEW pc \in {"count", "saveRole", "saveStatus", "tombstone"},
           NEW to \in Roles \cup Statuses, Reads(r, op, u, pc, to)
    PROVE  /\ req' \in [Requests -> Locals]
           /\ \A q \in Requests \ {r} : req'[q] = req[q]
           /\ req'[r].pc = pc /\ req'[r].op = op /\ req'[r].user = u /\ req'[r].to = to
           /\ req'[r].role = role[u]
           /\ \A q \in Requests \ {r} : Demoting(q)' <=> Demoting(q)
<1>1. [pc |-> pc, op |-> op, user |-> u, to |-> to, role |-> role[u], status |-> status[u],
       valid |-> valid[u]] \in Locals
  BY DEF TypeOK, Locals
<1> QED BY <1>1 DEF TypeOK, Reads, Demoting

LEMMA RolesInit == Init => RolesInv
<1> SUFFICES ASSUME Init PROVE RolesInv
  OBVIOUS
<1>1. TypeOK
  BY IdleType DEF Init, TypeOK, Statuses
<1> QED BY <1>1 DEF Init, RolesInv, AdminRemains, Demoting, Idle

(* A call that reads a user and changes nothing. *)
LEMMA StartKeeps ==
    ASSUME RolesInv, NEW r \in Requests, UNCHANGED <<role, status, valid, nulls, overlap>>,
           NEW op \in AllHandlers, NEW u \in Users,
           NEW pc \in {"count", "saveRole", "saveStatus", "tombstone"},
           NEW to \in Roles \cup Statuses, Reads(r, op, u, pc, to),
           pc = "saveRole" => op = "role" /\ ~(role[u] = "ADMIN" /\ to = "USER"),
           op = "role" => to \in Roles,
           pc = "saveStatus" => to \in Statuses
    PROVE  RolesInv'
<1>1. TypeOK
  BY DEF RolesInv
<1>2. TypeOK'
  BY <1>1, ReadsKeeps DEF TypeOK
<1>3. ~Demoting(r)'
  BY <1>1, ReadsKeeps DEF Demoting
<1>4. role[u] \in Roles
  BY <1>1 DEF TypeOK
<1> QED BY <1>1, <1>2, <1>3, <1>4, ReadsKeeps DEF RolesInv, AdminRemains

(* A call that ends without touching a role. *)
LEMMA EndKeeps ==
    ASSUME RolesInv, NEW r \in Requests, Done(r), UNCHANGED <<role, overlap>>,
           status' \in [Users -> Statuses], valid' \in [Users -> BOOLEAN], nulls' \subseteq Users
    PROVE  RolesInv'
<1>1. TypeOK
  BY DEF RolesInv
<1>2. TypeOK'
  BY <1>1, DoneKeeps DEF TypeOK
<1> QED BY <1>1, <1>2, DoneKeeps DEF RolesInv, AdminRemains, TypeOK, Idle

LEMMA CountKeeps == ASSUME RolesInv, NEW r \in Requests, CountAdmins(r) PROVE RolesInv'
<1>t. TypeOK /\ req[r] \in Locals /\ req[r].user \in Users
  BY DEF RolesInv, TypeOK, CountAdmins
<1>1. CASE AdminCount = 1
  <2>1. Done(r) /\ UNCHANGED <<role, status, valid, nulls>>
    BY <1>1 DEF CountAdmins
  <2>2. TypeOK'
    BY <1>t, <2>1, DoneKeeps DEF TypeOK, CountAdmins
  <2>3. overlap => overlap'
    BY DEF CountAdmins
  <2> QED BY <1>t, <2>1, <2>2, <2>3, DoneKeeps DEF RolesInv, AdminRemains, TypeOK, Idle
<1>2. CASE AdminCount # 1
  <2> DEFINE pc == IF req[r].op = "role" THEN "saveRole" ELSE "tombstone"
  <2>1. req' = [req EXCEPT ![r].pc = pc] /\ UNCHANGED <<role, status, valid, nulls>>
        /\ overlap' = (overlap \/ (req[r].op = "role" /\ \E q \in Requests \ {r} : Demoting(q)))
    BY <1>2 DEF CountAdmins
  <2>2. /\ req' \in [Requests -> Locals]
        /\ \A q \in Requests \ {r} : req'[q] = req[q]
        /\ req'[r].pc = pc /\ req'[r].op = req[r].op /\ req'[r].user = req[r].user
        /\ req'[r].to = req[r].to /\ req'[r].role = req[r].role
    BY <1>t, <2>1 DEF TypeOK, Locals
  <2>3. TypeOK'
    BY <1>t, <2>1, <2>2 DEF TypeOK
  <2>4. \A q \in Requests \ {r} : Demoting(q)' <=> Demoting(q)
    BY <2>2 DEF Demoting
  <2>5. Demoting(r)' => req[r].op = "role"
    BY <2>2 DEF Demoting
  <2>6. ~overlap' => ~overlap /\ (Demoting(r)' => \A q \in Requests \ {r} : ~Demoting(q))
    BY <2>1, <2>5
  <2>7. ~overlap' => /\ AdminRemains'
                     /\ \E u \in Users \ {req[r].user} : role[u] = "ADMIN"
    BY <1>2, <2>1, <2>6, AnotherAdmin DEF RolesInv, AdminRemains
  <2>8. ~overlap' =>
          /\ \A p, q \in Requests : Demoting(p)' /\ Demoting(q)' => p = q
          /\ \A q \in Requests : Demoting(q)'
                                   => \E u \in Users \ {req'[q].user} : role'[u] = "ADMIN"
    BY <2>1, <2>2, <2>4, <2>6, <2>7 DEF RolesInv
  <2>9. /\ \A q \in Requests : req'[q].pc # "idle" => req'[q].user \in Users
        /\ \A q \in Requests : req'[q].pc \in {"count", "saveRole"} /\ req'[q].op = "role"
                                 => req'[q].to \in Roles
        /\ \A q \in Requests : req'[q].pc = "saveRole"
                                 => req'[q].op = "role" /\ req'[q].role \in Roles
        /\ \A q \in Requests : req'[q].pc = "count" => req'[q].role \in Roles
        /\ \A q \in Requests : req'[q].pc = "saveStatus" => req'[q].to \in Statuses
    BY <1>t, <2>2 DEF RolesInv, CountAdmins
  <2> QED BY <2>3, <2>7, <2>8, <2>9 DEF RolesInv
<1> QED BY <1>1, <1>2

LEMMA SaveRoleKeeps == ASSUME RolesInv, NEW r \in Requests, SaveRole(r) PROVE RolesInv'
<1>t. /\ TypeOK /\ req[r] \in Locals /\ req[r].user \in Users /\ req[r].to \in Roles
      /\ req[r].role \in Roles \cup {"none"}
  BY DEF RolesInv, TypeOK, SaveRole, Locals
<1>d. Done(r) /\ UNCHANGED <<status, valid, nulls, overlap>>
  BY DEF SaveRole
<1>1. CASE UNCHANGED role
  BY <1>1, <1>d, <1>t, EndKeeps DEF TypeOK
<1>2. CASE role' = [role EXCEPT ![req[r].user] = req[r].to] /\ req[r].to # req[r].role
  <2>1. role' \in [Users -> Roles]
    BY <1>2, <1>t DEF TypeOK
  <2>2. TypeOK'
    BY <1>t, <1>d, <2>1, DoneKeeps DEF TypeOK
  <2>3. ~overlap' => AdminRemains' /\ \A q \in Requests : Demoting(q)'
                       => \E u \in Users \ {req'[q].user} : role'[u] = "ADMIN"
    <3>1. CASE req[r].to = "ADMIN"
      BY <1>2, <1>t, <1>d, <3>1, DoneKeeps DEF RolesInv, AdminRemains, TypeOK
    <3>2. CASE req[r].to = "USER" /\ req[r].role # "ADMIN"
      <4>1. req[r].role = "none"
        BY <1>2, <1>t, <3>2 DEF Roles
      <4> QED BY <4>1 DEF SaveRole, RolesInv, Roles
    <3>3. CASE req[r].to = "USER" /\ req[r].role = "ADMIN"
      <4>1. Demoting(r)
        BY <3>3 DEF SaveRole, Demoting
      <4> QED BY <1>2, <1>t, <1>d, <4>1, DoneKeeps DEF RolesInv, AdminRemains, TypeOK
    <3> QED BY <1>t, <3>1, <3>2, <3>3 DEF Roles
  <2> QED BY <1>d, <1>t, <2>2, <2>3, DoneKeeps DEF RolesInv, TypeOK, Idle
<1> QED BY <1>1, <1>2 DEF SaveRole

LEMMA RolesStep == RolesInv /\ [Next]_vars => RolesInv'
<1> SUFFICES ASSUME RolesInv, [Next]_vars PROVE RolesInv'
  OBVIOUS
<1>t. TypeOK
  BY DEF RolesInv
<1>1. ASSUME NEW r \in Requests, Step(r) PROVE RolesInv'
  <2>1. CASE StartRole(r)
    <3>1. PICK u \in Users, to \in Roles :
            Reads(r, "role", u, IF role[u] = "ADMIN" /\ to = "USER" THEN "count" ELSE "saveRole", to)
      BY <2>1 DEF StartRole
    <3> QED BY <2>1, <3>1, StartKeeps DEF StartRole, AllHandlers
  <2>2. CASE StartStatus(r)
    BY <2>2, StartKeeps DEF StartStatus, AllHandlers
  <2>3. CASE StartSoftDelete(r)
    BY <2>3, StartKeeps DEF StartSoftDelete, AllHandlers, Statuses
  <2>4. CASE StartBan(r)
    BY <2>4, StartKeeps DEF StartBan, AllHandlers, Statuses
  <2>5. CASE StartPurge(r)
    <3>1. PICK u \in Users :
            Reads(r, "purge", u, IF role[u] = "ADMIN" THEN "count" ELSE "tombstone", "DELETED")
      BY <2>5 DEF StartPurge
    <3> QED BY <2>5, <3>1, StartKeeps DEF StartPurge, AllHandlers, Statuses
  <2>6. CASE StartLeave(r)
    BY <2>6, StartKeeps DEF StartLeave, AllHandlers, Statuses
  <2>7. CASE SaveStatus(r)
    <3>1. status' \in [Users -> Statuses]
      <4>1. CASE UNCHANGED status
        BY <4>1, <1>t DEF TypeOK
      <4>2. CASE status' = [status EXCEPT ![req[r].user] = req[r].to] /\ req[r].to \in Statuses
        BY <4>2, <1>t DEF TypeOK
      <4> QED BY <2>7, <4>1, <4>2 DEF SaveStatus, RolesInv
    <3> QED BY <2>7, <1>t, <3>1, EndKeeps DEF SaveStatus, TypeOK
  <2>8. CASE Tombstone(r)
    <3>1. status' \in [Users -> Statuses] /\ valid' \in [Users -> BOOLEAN] /\ nulls' \subseteq Users
      <4>1. req[r].user \in Users
        BY <2>8 DEF Tombstone, RolesInv
      <4> QED BY <2>8, <1>t, <4>1 DEF Tombstone, TypeOK, Statuses
    <3> QED BY <2>8, <3>1, EndKeeps DEF Tombstone
  <2> QED BY <1>1, <2>1, <2>2, <2>3, <2>4, <2>5, <2>6, <2>7, <2>8, CountKeeps, SaveRoleKeeps DEF Step
<1>2. CASE UNCHANGED vars
  BY <1>2, <1>t DEF vars, RolesInv, TypeOK, AdminRemains, Demoting
<1> QED BY <1>1, <1>2 DEF Next

(* The last admin is demoted only by two demotions that were past the count
   of admins at the same time (updateUserRole). *)
THEOREM LastAdminKept == Spec => []AdminRemainsUnlessOverlap
<1>1. RolesInv => AdminRemainsUnlessOverlap
  BY DEF RolesInv, AdminRemainsUnlessOverlap
<1> QED BY <1>1, RolesInit, RolesStep, PTL DEF Spec

=============================================================================
