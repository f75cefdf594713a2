---------------------------- MODULE AdminRoles ----------------------------
(***************************************************************************)
(* The admin's user management (src/admin/admin.service.ts): roles, status *)
(* writes, bans and deletions, each of which reads the user, looks at it   *)
(* and writes in a later call.  A caller's role comes from a token that is *)
(* valid for 30 days, so any of these calls may arrive at any time,        *)
(* whoever is an admin by then.                                            *)
(***************************************************************************)
EXTENDS Integers, FiniteSets

CONSTANTS
    Users,
    Requests,  \* slots for concurrent calls
    Handlers   \* the operations the environment calls

AllHandlers == {"role", "status", "softDelete", "ban", "purge", "leave"}

ASSUME RolesAssumption == IsFiniteSet(Users) /\ Handlers \subseteq AllHandlers

VARIABLES
    role,      \* of each user's document
    status,    \* of each user's document
    valid,     \* whether save() accepts the document: no required field is empty
    nulls,     \* users whose mobilePhone is null: the key the unique index holds
    req,       \* the calls in flight and the user they read
    overlap    \* history: two demotions were past their count at the same time

vars == <<role, status, valid, nulls, req, overlap>>

Roles == {"USER", "ADMIN"}
Statuses == {"PENDING", "ACTIVE", "DELETED"}

Locals == [pc : {"idle", "count", "saveRole", "saveStatus", "tombstone"},
           op : AllHandlers \cup {"none"},
           user : Users \cup {"none"},
           to : Roles \cup Statuses \cup {"none"},
           role : Roles \cup {"none"},
           status : Statuses \cup {"none"},
           valid : BOOLEAN]

Idle == [pc |-> "idle", op |-> "none", user |-> "none", to |-> "none", role |-> "none",
         status |-> "none", valid |-> FALSE]

TypeOK ==
    /\ role \in [Users -> Roles]
    /\ status \in [Users -> Statuses]
    /\ valid \in [Users -> BOOLEAN]
    /\ nulls \subseteq Users
    /\ req \in [Requests -> Locals]
    /\ overlap \in BOOLEAN

AdminCount == Cardinality({u \in Users : role[u] = "ADMIN"})

(* A demotion that has been allowed and not yet written. *)
Demoting(r) == req[r].pc = "saveRole" /\ req[r].role = "ADMIN" /\ req[r].to = "USER"

Arrives(r, op) == req[r].pc = "idle" /\ op \in Handlers

(* findById: the call continues with a copy of the user. *)
Reads(r, op, u, pc, to) ==
    req' = [req EXCEPT ![r] = [pc |-> pc, op |-> op, user |-> u, to |-> to, role |-> role[u],
                               status |-> status[u], valid |-> valid[u]]]

Done(r) == req' = [req EXCEPT ![r] = Idle]

-----------------------------------------------------------------------------
(* updateUserRole *)

StartRole(r) ==
    /\ Arrives(r, "role")
    /\ \E u \in Users, to \in Roles :
         Reads(r, "role", u, IF role[u] = "ADMIN" /\ to = "USER" THEN "count" ELSE "saveRole", to)
    /\ UNCHANGED <<role, status, valid, nulls, overlap>>

(* The count is compared after the one admin is gone. *)
CountAdminsTooLate(r) ==
    /\ req[r].pc = "count"
    /\ IF AdminCount = 0
       THEN Done(r)
       ELSE req' = [req EXCEPT ![r].pc = IF req[r].op = "role" THEN "saveRole" ELSE "tombstone"]
    /\ overlap' = (overlap \/ (req[r].op = "role" /\ \E q \in Requests \ {r} : Demoting(q)))
    /\ UNCHANGED <<role, status, valid, nulls>>

(* countDocuments({role: ADMIN}), of updateUserRole and of
   permanentlyDeleteUser: the last admin is kept. *)
CountAdmins(r) ==
    /\ req[r].pc = "count"
    /\ IF AdminCount = 1
       THEN Done(r)
       ELSE req' = [req EXCEPT ![r].pc = IF req[r].op = "role" THEN "saveRole" ELSE "tombstone"]
    /\ overlap' = (overlap \/ (req[r].op = "role" /\ \E q \in Requests \ {r} : Demoting(q)))
    /\ UNCHANGED <<role, status, valid, nulls>>

(* save() validates the copy and writes the role if it was changed. *)
SaveRole(r) ==
    LET l == req[r] IN
    /\ req[r].pc = "saveRole"
    /\ role' = IF l.valid /\ l.to # l.role THEN [role EXCEPT ![l.user] = l.to] ELSE role
    /\ Done(r)
    /\ UNCHANGED <<status, valid, nulls, overlap>>

-----------------------------------------------------------------------------
(* Status writes: updateUserStatus, deleteUser, banUser *)

StartStatus(r) ==
    /\ Arrives(r, "status")
    /\ \E u \in Users, to \in Statuses : Reads(r, "status", u, "saveStatus", to)
    /\ UNCHANGED <<role, status, valid, nulls, overlap>>

(* deleteUser refuses an admin. *)
StartSoftDelete(r) ==
    /\ Arrives(r, "softDelete")
    /\ \E u \in Users :
         role[u] # "ADMIN" /\ Reads(r, "softDelete", u, "saveStatus", "DELETED")
    /\ UNCHANGED <<role, status, valid, nulls, overlap>>

(* banUser also refuses a closed account. *)
StartBan(r) ==
    /\ Arrives(r, "ban")
    /\ \E u \in Users :
         /\ status[u] # "DELETED"
         /\ role[u] # "ADMIN"
         /\ Reads(r, "ban", u, "saveStatus", "DELETED")
    /\ UNCHANGED <<role, status, valid, nulls, overlap>>

SaveStatus(r) ==
    LET l == req[r] IN
    /\ req[r].pc = "saveStatus"
    /\ status' = IF l.valid /\ l.to # l.status THEN [status EXCEPT ![l.user] = l.to] ELSE status
    /\ Done(r)
    /\ UNCHANGED <<role, valid, nulls, overlap>>

-----------------------------------------------------------------------------
(* deleteAccount, by an admin (permanentlyDeleteUser) or by the member *)

StartPurge(r) ==
    /\ Arrives(r, "purge")
    /\ \E u \in Users :
         Reads(r, "purge", u, IF role[u] = "ADMIN" THEN "count" ELSE "tombstone", "DELETED")
    /\ UNCHANGED <<role, status, valid, nulls, overlap>>

StartLeave(r) ==
    /\ Arrives(r, "leave")
    /\ \E u \in Users : status[u] = "ACTIVE" /\ Reads(r, "leave", u, "tombstone", "DELETED")
    /\ UNCHANGED <<role, status, valid, nulls, overlap>>

(* The tombstone keeps its role and loses the required fields, and its
   mobilePhone is set to null: the sparse unique index holds that null, so
   the write throws while another document has it. *)
Tombstone(r) ==
    LET u == req[r].user IN
    /\ req[r].pc = "tombstone"
    /\ IF nulls \ {u} # {}
       THEN UNCHANGED <<status, valid, nulls>>
       ELSE /\ status' = [status EXCEPT ![u] = "DELETED"]
            /\ valid' = [valid EXCEPT ![u] = FALSE]
            /\ nulls' = {u}
    /\ Done(r)
    /\ UNCHANGED <<role, overlap>>

-----------------------------------------------------------------------------
(* Some users are admins, one of them may come from create-admin.ts, whose
   document lacks the required onBehalf: save() never accepts it. *)
Init ==
    /\ role \in [Users -> Roles]
    /\ \E u \in Users : role[u] = "ADMIN"
    /\ status = [u \in Users |-> "ACTIVE"]
    /\ valid \in [Users -> BOOLEAN]
    /\ nulls = {}
    /\ \A u, v \in Users : ~valid[u] /\ ~valid[v] => u = v /\ role[u] = "ADMIN"
    /\ req = [r \in Requests |-> Idle]
    /\ overlap = FALSE

Step(r) == \/ StartRole(r) \/ CountAdmins(r) \/ SaveRole(r)
           \/ StartStatus(r) \/ StartSoftDelete(r) \/ StartBan(r) \/ SaveStatus(r)
           \/ StartPurge(r) \/ StartLeave(r) \/ Tombstone(r)

Next == \E r \in Requests : Step(r)

Spec == Init /\ [][Next]_vars

-----------------------------------------------------------------------------
(* Properties *)

AdminRemains == \E u \in Users : role[u] = "ADMIN"

(* "Prevent demoting the last admin" (admin.service.ts:226): some document
   keeps the role ADMIN, unless two demotions were past the guard together. *)
AdminRemainsUnlessOverlap == overlap \/ AdminRemains

(* What the guard rests on: as long as demotions do not overlap, the one that
   has been counted leaves another admin behind. *)
RolesInv ==
    /\ TypeOK
    /\ \A r \in Requests : req[r].pc # "idle" => req[r].user \in Users
    /\ \A r \in Requests : req[r].pc \in {"count", "saveRole"} /\ req[r].op = "role"
                             => req[r].to \in Roles
    /\ \A r \in Requests : req[r].pc = "saveRole"
                             => req[r].op = "role" /\ req[r].role \in Roles
    /\ \A r \in Requests : req[r].pc = "count" => req[r].role \in Roles
    /\ \A r \in Requests : req[r].pc = "saveStatus" => req[r].to \in Statuses
    /\ ~overlap =>
         /\ AdminRemains
         /\ \A q, r \in Requests : Demoting(q) /\ Demoting(r) => q = r
         /\ \A r \in Requests :
              Demoting(r) => \E u \in Users \ {req[r].user} : role[u] = "ADMIN"

(* "Prevent demoting the last admin" (admin.service.ts:226), for the admins
   who can still sign in: one remains. *)
UsableAdminRemains == \E u \in Users : role[u] = "ADMIN" /\ status[u] = "ACTIVE"

=============================================================================
