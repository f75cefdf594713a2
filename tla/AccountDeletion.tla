-------------------------- MODULE AccountDeletion --------------------------
(***************************************************************************)
(* deleteAccount (src/users/users.service.ts): it erases a member's traces *)
(* from six collections, one write after the other, and ends with the      *)
(* tombstone.  Nothing holds off the other handlers meanwhile: a call that *)
(* passed its checks may write into a collection already cleaned.          *)
(***************************************************************************)
EXTENDS Integers, FiniteSets

CONSTANTS
    Members,
    Calls,    \* slots for concurrent calls
    Handlers  \* the operations the environment calls

Writers == {"device", "save", "block", "request", "create", "message", "read"}
AllHandlers == Writers \cup {"delete", "fail"}

VARIABLES
    status,        \* of each member's document
    nulls,         \* the documents whose mobilePhone is null
    devices,       \* the members some device is registered to
    interactions,  \* saved and blocked profiles
    requests,      \* chat requests
    room,          \* participants of some chat room
    named,         \* members whose name some message shows
    readers,       \* members in some message's readBy
    call           \* the calls in flight

traces == <<devices, interactions, requests, room, named, readers>>
vars == <<status, nulls, traces, call>>

Interaction == [by : Members, of : Members, type : {"saved", "blocked"}]
Request == [from : Members, to : Members]

Cleaning == {"devices", "interactions", "requests", "room", "names", "reads", "tombstone"}

Locals == [pc : {"idle", "unsave", "write"} \cup Cleaning,
           op : Writers \cup {"none", "delete"},
           user : Members \cup {"none"}, target : Members \cup {"none"},
           touched : BOOLEAN]  \* history: another call has written about the deleted member

Idle == [pc |-> "idle", op |-> "none", user |-> "none", target |-> "none", touched |-> FALSE]

TypeOK ==
    /\ status \in [Members -> {"ACTIVE", "DELETED"}]
    /\ nulls \subseteq Members
    /\ devices \subseteq Members
    /\ interactions \subseteq Interaction
    /\ requests \subseteq Request
    /\ room \subseteq Members
    /\ named \subseteq Members
    /\ readers \subseteq Members
    /\ call \in [Calls -> Locals]

Arrives(c, op) == call[c].pc = "idle" /\ op \in Handlers
Goes(c, pc) == call' = [call EXCEPT ![c].pc = pc]
Done(c) == call' = [call EXCEPT ![c] = Idle]

-----------------------------------------------------------------------------
(* The other handlers: they look, and write in a later call *)

(* saveProfile looks for a block, sendChatRequest and createChatRoom for a
   room of the two, createMessage for the sender among the participants.
   None looks at the status of the other member, and the caller's own is not
   current either: a socket is authenticated once, a token's status is cached,
   and a device is registered without a token. *)
MayWrite(op, u, v) ==
    CASE op = "save"    -> ~\E i \in interactions : i.type = "blocked" /\ {i.by, i.of} = {u, v}
      [] op \in {"request", "create"} -> ~({u, v} \subseteq room)
      [] op = "message" -> u \in room
      [] OTHER          -> TRUE

StartWrite(c) ==
    /\ \E op \in Writers, u, v \in Members :
         /\ Arrives(c, op)
         /\ u # v
         /\ MayWrite(op, u, v)
         /\ call' = [call EXCEPT ![c] = [pc |-> IF op = "block" THEN "unsave" ELSE "write",
                                         op |-> op, user |-> u, target |-> v, touched |-> FALSE]]
    /\ UNCHANGED <<status, nulls, traces>>

(* blockProfile first deletes the blocker's own saved profile. *)
Unsave(c) ==
    /\ call[c].pc = "unsave"
    /\ interactions' = interactions \ {[by |-> call[c].user, of |-> call[c].target, type |-> "saved"]}
    /\ Goes(c, "write")
    /\ UNCHANGED <<status, nulls, devices, requests, room, named, readers>>

Adds(c, op, member) == IF call[c].op = op THEN {member} ELSE {}

(* Whom a write names. *)
Names(c) ==
    {call[c].user} \cup IF call[c].op \in {"device", "message", "read"} THEN {} ELSE {call[c].target}

Write(c) ==
    LET u == call[c].user
        v == call[c].target
    IN
    /\ call[c].pc = "write"
    /\ devices' = devices \cup Adds(c, "device", u)
    /\ interactions' = interactions \cup Adds(c, "save", [by |-> u, of |-> v, type |-> "saved"])
                                    \cup Adds(c, "block", [by |-> u, of |-> v, type |-> "blocked"])
    /\ requests' = requests \cup Adds(c, "request", [from |-> u, to |-> v])
    /\ room' = room \cup Adds(c, "create", u) \cup Adds(c, "create", v)
    /\ named' = named \cup Adds(c, "message", u)
    /\ readers' = readers \cup Adds(c, "read", u)
    /\ call' = [d \in Calls |-> IF d = c THEN Idle
                                ELSE [call[d] EXCEPT !.touched = @ \/ call[d].user \in Names(c)]]
    /\ UNCHANGED <<status, nulls>>

-----------------------------------------------------------------------------
(* deleteAccount, by the member or by an admin *)

StartDelete(c) ==
    /\ Arrives(c, "delete")
    /\ \E u \in Members :
         call' = [call EXCEPT ![c] = [pc |-> "devices", op |-> "delete", user |-> u,
                                      target |-> "none", touched |-> FALSE]]
    /\ UNCHANGED <<status, nulls, traces>>

DeleteDevices(c) ==
    /\ call[c].pc = "devices"
    /\ devices' = devices \ {call[c].user}
    /\ Goes(c, "interactions")
    /\ UNCHANGED <<status, nulls, interactions, requests, room, named, readers>>

(* deleteMany({userId}) alone *)
DeleteOwnInteractions(c) ==
    /\ call[c].pc = "interactions"
    /\ interactions' = {i \in interactions : call[c].user # i.by}
    /\ Goes(c, "requests")
    /\ UNCHANGED <<status, nulls, devices, requests, room, named, readers>>

DeleteInteractions(c) ==
    /\ call[c].pc = "interactions"
    /\ interactions' = {i \in interactions : call[c].user \notin {i.by, i.of}}
    /\ Goes(c, "requests")
    /\ UNCHANGED <<status, nulls, devices, requests, room, named, readers>>

DeleteRequests(c) ==
    /\ call[c].pc = "requests"
    /\ requests' = {q \in requests : call[c].user \notin {q.from, q.to}}
    /\ Goes(c, "room")
    /\ UNCHANGED <<status, nulls, devices, interactions, room, named, readers>>

PullFromRoom(c) ==
    /\ call[c].pc = "room"
    /\ room' = room \ {call[c].user}
    /\ Goes(c, "names")
    /\ UNCHANGED <<status, nulls, devices, interactions, requests, named, readers>>

Anonymise(c) ==
    /\ call[c].pc = "names"
    /\ named' = named \ {call[c].user}
    /\ Goes(c, "reads")
    /\ UNCHANGED <<status, nulls, devices, interactions, requests, room, readers>>

PullReads(c) ==
    /\ call[c].pc = "reads"
    /\ readers' = readers \ {call[c].user}
    /\ Goes(c, "tombstone")
    /\ UNCHANGED <<status, nulls, devices, interactions, requests, room, named>>

(* The update sets mobilePhone to null.  The sparse index leaves out a
   document without the field, not one whose field is null: a second null is
   a duplicate key, and the update throws. *)
WriteTombstone(c) ==
    LET u == call[c].user IN
    /\ call[c].pc = "tombstone"
    /\ IF nulls \ {u} # {}
       THEN UNCHANGED <<status, nulls>>
       ELSE /\ status' = [status EXCEPT ![u] = "DELETED"]
            /\ nulls' = nulls \cup {u}
    /\ Done(c)
    /\ UNCHANGED traces

(* A query or a write that throws ends the call where it stands. *)
CallFails(c) ==
    /\ "fail" \in Handlers
    /\ call[c].pc # "idle"
    /\ Done(c)
    /\ UNCHANGED <<status, nulls, traces>>

-----------------------------------------------------------------------------
(* Members who have left every kind of trace. *)
Init ==
    /\ status = [u \in Members |-> "ACTIVE"]
    /\ nulls = {}
    /\ devices = Members
    /\ interactions = {i \in Interaction : i.by # i.of /\ i.type = "saved"}
    /\ requests = {q \in Request : q.from # q.to}
    /\ room = Members
    /\ named = Members
    /\ readers = Members
    /\ call = [c \in Calls |-> Idle]

Step(c) == \/ StartWrite(c) \/ Unsave(c) \/ Write(c)
           \/ StartDelete(c) \/ DeleteDevices(c) \/ DeleteInteractions(c) \/ DeleteRequests(c)
           \/ PullFromRoom(c) \/ Anonymise(c) \/ PullReads(c) \/ WriteTombstone(c)
           \/ CallFails(c)

Next == \E c \in Calls : Step(c)

Spec == Init /\ [][Next]_vars

-----------------------------------------------------------------------------
(* Properties *)

Traceless(u) ==
    /\ u \notin devices
    /\ \A i \in interactions : u \notin {i.by, i.of}
    /\ \A q \in requests : u \notin {q.from, q.to}
    /\ u \notin room
    /\ u \notin named
    /\ u \notin readers

Deletes(u) == status[u] # "DELETED" /\ status'[u] = "DELETED"

(* "Soft-delete the user document: scrub PII, retain tombstone fields"
   (users.service.ts:987), after steps 2 to 6: when an account becomes a
   tombstone, no other collection remembers the member, however often the
   deletion failed and was started again, unless another call wrote about the
   member during the deletion. *)
ErasedUnlessTouched ==
    [][\A u \in Members : Deletes(u) =>
         \/ Traceless(u)
         \/ \E c \in Calls : call[c].pc = "tombstone" /\ call[c].user = u /\ call[c].touched]_vars

(* "Soft-delete the user document" (users.service.ts:987): a deletion that
   runs to its end leaves a tombstone. *)
DeletionDeletes ==
    [][\A c \in Calls : call[c].pc = "tombstone" /\ call'[c].pc = "idle"
         => status'[call[c].user] = "DELETED"]_vars

(* What ErasedUnlessTouched rests on: a deletion nobody has written against
   has emptied every collection it has passed. *)
Past(c, pcs) == call[c].pc \in pcs /\ ~call[c].touched

EraseInv ==
    /\ TypeOK
    /\ \A c \in Calls :
        LET u == call[c].user IN
        /\ call[c].pc \in Cleaning \cup {"unsave", "write"} => u \in Members
        /\ call[c].pc \in {"unsave", "write"} => call[c].target \in Members
        /\ Past(c, Cleaning \ {"devices"}) => u \notin devices
        /\ Past(c, {"requests", "room", "names", "reads", "tombstone"})
             => \A i \in interactions : u \notin {i.by, i.of}
        /\ Past(c, {"room", "names", "reads", "tombstone"})
             => \A q \in requests : u \notin {q.from, q.to}
        /\ Past(c, {"names", "reads", "tombstone"}) => u \notin room
        /\ Past(c, {"reads", "tombstone"}) => u \notin named
        /\ Past(c, {"tombstone"}) => u \notin readers

(* A tombstone's null is in the index, and no other null is. *)
NullsOfTombstones ==
    /\ \A u \in Members : status[u] = "DELETED" => u \in nulls
    /\ \A u, v \in nulls : u = v

(* What it comes to, over any length of time: of all the members who delete
   their account, at most one ever becomes a tombstone. *)
OnlyOneLeaves ==
    \A u, v \in Members : status[u] = "DELETED" /\ status[v] = "DELETED" => u = v

=============================================================================
