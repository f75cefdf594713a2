---------------------------- MODULE Introductions ----------------------------
(***************************************************************************)
(* What the chat component promises about its documents, with no calls and *)
(* nothing read before it is used: every operation looks and writes at     *)
(* once.  The code looks and writes in separate calls, so two operations   *)
(* may both have looked before either wrote; the promise says which of its *)
(* guards such an overlap puts out of force, and that nothing else does,   *)
(* neither an interleaving nor a failure nor a deletion.  ChatRequests is  *)
(* checked and proved to implement this specification.                     *)
(***************************************************************************)
EXTENDS Integers

CONSTANTS Users, RequestIds, RoomIds, None

VARIABLES
    requests,   \* the chat requests
    rooms,      \* the chat rooms
    greetings,  \* messages made of a request's text
    mishaps     \* the kinds of decision that overlapped, and failures

introductionVars == <<requests, rooms, greetings, mishaps>>

Init ==
    /\ requests = [k \in RequestIds |-> [status |-> "unused", from |-> None, to |-> None,
                                         text |-> FALSE, room |-> None]]
    /\ rooms = [m \in RoomIds |-> [members |-> {}, former |-> {}]]
    /\ greetings = [k \in RequestIds |-> 0]
    /\ mishaps = {}

(* The guard of a kind of decision, until two of that kind overlap. *)
Guards(kind, condition) == kind \in mishaps \/ condition

Overlap(kind) ==
    /\ mishaps' = mishaps \cup {kind}
    /\ UNCHANGED <<requests, rooms, greetings>>

(* One pending request between two members, whoever asks. *)
Ask(k, u, v, text) ==
    /\ requests[k].status = "unused"
    /\ Guards("request", \A l \in RequestIds :
                           requests[l].status = "pending" => {requests[l].from, requests[l].to} # {u, v})
    /\ requests' = [requests EXCEPT ![k] = [status |-> "pending", from |-> u, to |-> v,
                                            text |-> text, room |-> None]]
    /\ UNCHANGED <<rooms, greetings, mishaps>>

(* One room for two members. *)
Open(m, u, v) ==
    /\ rooms[m] = [members |-> {}, former |-> {}]
    /\ Guards("room", u # v => \A n \in RoomIds : ~({u, v} \subseteq rooms[n].members))
    /\ rooms' = [rooms EXCEPT ![m] = [members |-> {u, v}, former |-> {}]]
    /\ UNCHANGED <<requests, greetings, mishaps>>

(* One answer. *)
Answerable(k) ==
    /\ requests[k].status \in {"pending", "accepted", "rejected"}
    /\ Guards("response", requests[k].status = "pending")

Accept(k, m) ==
    /\ Answerable(k)
    /\ {requests[k].from, requests[k].to} \subseteq rooms[m].members \cup rooms[m].former
    /\ requests' = [requests EXCEPT ![k].status = "accepted", ![k].room = m]
    /\ UNCHANGED <<rooms, greetings, mishaps>>

Reject(k) ==
    /\ Answerable(k)
    /\ requests' = [requests EXCEPT ![k].status = "rejected"]
    /\ UNCHANGED <<rooms, greetings, mishaps>>

(* The text of an accepted request, once; a deletion in between does not stop it. *)
Greet(k) ==
    /\ requests[k].text
    /\ requests[k].room # None
    /\ Guards("response", greetings[k] = 0 /\ requests[k].status \in {"accepted", "deleted"})
    /\ greetings' = [greetings EXCEPT ![k] = @ + 1]
    /\ UNCHANGED <<requests, rooms, mishaps>>

(* A member who leaves: the requests first, the rooms later. *)
Forget(u) ==
    /\ requests' = [k \in RequestIds |->
                      IF u \in {requests[k].from, requests[k].to}
                      THEN [requests[k] EXCEPT !.status = "deleted"] ELSE requests[k]]
    /\ UNCHANGED <<rooms, greetings, mishaps>>

Leave(u) ==
    /\ rooms' = [m \in RoomIds |->
                   IF u \in rooms[m].members
                   THEN [members |-> rooms[m].members \ {u}, former |-> rooms[m].former \cup {u}]
                   ELSE rooms[m]]
    /\ UNCHANGED <<requests, greetings, mishaps>>

Next ==
    \/ \E kind \in {"room", "request", "response", "failure"} : Overlap(kind)
    \/ \E k \in RequestIds, u, v \in Users, text \in BOOLEAN : Ask(k, u, v, text)
    \/ \E m \in RoomIds, u, v \in Users : Open(m, u, v)
    \/ \E k \in RequestIds, m \in RoomIds : Accept(k, m)
    \/ \E k \in RequestIds : Reject(k) \/ Greet(k)
    \/ \E u \in Users : Forget(u) \/ Leave(u)

Spec == Init /\ [][Next]_introductionVars

=============================================================================
