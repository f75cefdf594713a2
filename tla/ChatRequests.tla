--------------------------- MODULE ChatRequests ---------------------------
(***************************************************************************)
(* Chat requests and the rooms they open (src/chat-room/chat.service.ts),  *)
(* with the two steps of deleteAccount (src/users/users.service.ts) that   *)
(* touch them.                                                             *)
(*                                                                         *)
(* Every operation reads, decides and writes in separate awaited calls and *)
(* no unique index stands behind the decisions, so a call is a slot of     *)
(* Calls that keeps what it has read.  A step is one call to the database. *)
(***************************************************************************)
EXTENDS Integers, FiniteSets

CONSTANTS
    Users,
    RequestIds,  \* ids of chat requests; an id is never used again
    RoomIds,     \* ids of chat rooms
    Calls,       \* slots for concurrent calls
    Handlers     \* the operations the environment calls

AllHandlers == {"send", "create", "accept", "reject", "leave", "fail"}

VARIABLES
    requests,   \* the chat requests
    rooms,      \* the chat rooms
    greetings,  \* messages createMessage has stored for a request's text
    call,       \* the calls in flight and what they have read
    mishaps     \* history: decisions taken twice before a write, a saved acceptance that failed

vars == <<requests, rooms, greetings, call, mishaps>>

None == "NONE"

ASSUME IdsAssumption == None \notin Users \cup RequestIds \cup RoomIds

Statuses == {"unused", "pending", "accepted", "rejected", "deleted"}
Mishaps == {"room", "request", "response", "failure"}

ChatRequest == [status : Statuses, from : Users \cup {None}, to : Users \cup {None},
                text : BOOLEAN,                  \* it carries a first message
                room : RoomIds \cup {None}]
ChatRoom == [members : SUBSET Users, former : SUBSET Users]

NoRequest == [status |-> "unused", from |-> None, to |-> None, text |-> FALSE, room |-> None]
NoRoom == [members |-> {}, former |-> {}]

Locals == [pc : {"idle", "checkPending", "insertRequest", "findRoom", "insertRoom",
                 "saveAccepted", "greet", "post", "saveRejected", "purge", "pull"},
           op : {"none", "send", "create", "accept", "reject", "leave"},
           from : Users \cup {None}, to : Users \cup {None}, text : BOOLEAN,
           req : RequestIds \cup {None}, room : RoomIds \cup {None}]

Idle == [pc |-> "idle", op |-> "none", from |-> None, to |-> None, text |-> FALSE,
         req |-> None, room |-> None]

TypeOK ==
    /\ requests \in [RequestIds -> ChatRequest]
    /\ rooms \in [RoomIds -> ChatRoom]
    /\ greetings \in [RequestIds -> Nat]
    /\ call \in [Calls -> Locals]
    /\ mishaps \subseteq Mishaps

(* A room for either of the two, as $in would find it. *)
SharedByEither(u, v) == {m \in RoomIds : {u, v} \cap rooms[m].members # {}}

(* participants.id: {$all: [u, v]} *)
Shared(u, v) == {m \in RoomIds : {u, v} \subseteq rooms[m].members}

(* Requests the sender has made, whatever the receiver has. *)
PendingOneWay(u, v) ==
    {k \in RequestIds : requests[k].status = "pending" /\ requests[k].from = u /\ requests[k].to = v}

(* A pending request in either direction. *)
Pending(u, v) ==
    {k \in RequestIds : requests[k].status = "pending" /\ {requests[k].from, requests[k].to} = {u, v}}

Pair(c) == {call[c].from, call[c].to}

Arrives(c, op) == call[c].pc = "idle" /\ op \in Handlers
Goes(c, pc) == call' = [call EXCEPT ![c].pc = pc]
Done(c) == call' = [call EXCEPT ![c] = Idle]

(* Another call is past the same decision. *)
Together(kind, others) == mishaps' = IF others = {} THEN mishaps ELSE mishaps \cup {kind}

-----------------------------------------------------------------------------
(* sendChatRequest *)

StartSend(c) ==
    /\ Arrives(c, "send")
    /\ \E u, v \in Users, text \in BOOLEAN :
         /\ Shared(u, v) = {}
         /\ call' = [call EXCEPT ![c] = [Idle EXCEPT !.pc = "checkPending", !.op = "send",
                                         !.from = u, !.to = v, !.text = text]]
    /\ UNCHANGED <<requests, rooms, greetings, mishaps>>

CheckPending(c) ==
    /\ call[c].pc = "checkPending"
    /\ IF Pending(call[c].from, call[c].to) # {}
       THEN Done(c) /\ UNCHANGED mishaps
       ELSE /\ Goes(c, "insertRequest")
            /\ Together("request",
                 {d \in Calls \ {c} : call[d].pc = "insertRequest" /\ Pair(d) = Pair(c)})
    /\ UNCHANGED <<requests, rooms, greetings>>

InsertRequest(c) ==
    /\ call[c].pc = "insertRequest"
    /\ \E k \in RequestIds :
         /\ requests[k].status = "unused"
         /\ requests' = [requests EXCEPT ![k] = [status |-> "pending", from |-> call[c].from,
                                                 to |-> call[c].to, text |-> call[c].text,
                                                 room |-> None]]
    /\ Done(c)
    /\ UNCHANGED <<rooms, greetings, mishaps>>

-----------------------------------------------------------------------------
(* createChatRoom, called for itself or by an acceptance *)

StartCreate(c) ==
    /\ Arrives(c, "create")
    /\ \E u, v \in Users :
         call' = [call EXCEPT ![c] = [Idle EXCEPT !.pc = "findRoom", !.op = "create",
                                      !.from = u, !.to = v]]
    /\ UNCHANGED <<requests, rooms, greetings, mishaps>>

(* A call that has its room: an acceptance goes on, the other is answered. *)
HasRoom(c, m) ==
    call' = [call EXCEPT ![c] = IF call[c].op = "accept"
                                THEN [call[c] EXCEPT !.pc = "saveAccepted", !.room = m] ELSE Idle]

(* createChatRoom without its first query. *)
NeverFindRoom(c) ==
    /\ call[c].pc = "findRoom"
    /\ Goes(c, "insertRoom")
    /\ UNCHANGED <<requests, rooms, greetings, mishaps>>

FindRoom(c) ==
    /\ call[c].pc = "findRoom"
    /\ \/ \E m \in Shared(call[c].from, call[c].to) : HasRoom(c, m) /\ UNCHANGED mishaps
       \/ /\ Shared(call[c].from, call[c].to) = {}
          /\ Goes(c, "insertRoom")
          /\ Together("room",
               {d \in Calls \ {c} : call[d].pc = "insertRoom" /\ Pair(d) = Pair(c)})
    /\ UNCHANGED <<requests, rooms, greetings>>

InsertRoom(c) ==
    /\ call[c].pc = "insertRoom"
    /\ \E m \in RoomIds :
         /\ rooms[m] = NoRoom
         /\ rooms' = [rooms EXCEPT ![m] = [members |-> Pair(c), former |-> {}]]
         /\ HasRoom(c, m)
    /\ UNCHANGED <<requests, greetings, mishaps>>

-----------------------------------------------------------------------------
(* acceptChatRequest and rejectChatRequest *)

Responding(k, c) == {d \in Calls \ {c} : call[d].req = k}

Reads(c, k, op, pc) ==
    call' = [call EXCEPT ![c] = [pc |-> pc, op |-> op, from |-> requests[k].from,
                                 to |-> requests[k].to, text |-> requests[k].text,
                                 req |-> k, room |-> None]]

(* acceptChatRequest without the test of the status. *)
StartAcceptAnswered(c) ==
    /\ Arrives(c, "accept")
    /\ \E k \in RequestIds :
         /\ requests[k].status \in {"pending", "accepted", "rejected"}
         /\ Reads(c, k, "accept", "findRoom")
         /\ Together("response", Responding(k, c))
    /\ UNCHANGED <<requests, rooms, greetings>>

StartAccept(c) ==
    /\ Arrives(c, "accept")
    /\ \E k \in RequestIds :
         /\ requests[k].status = "pending"
         /\ Reads(c, k, "accept", "findRoom")
         /\ Together("response", Responding(k, c))
    /\ UNCHANGED <<requests, rooms, greetings>>

(* save() as an upsert: a request deleted meanwhile comes back. *)
SaveAcceptedUpserting(c) ==
    LET k == call[c].req IN
    /\ call[c].pc = "saveAccepted"
    /\ requests' = [requests EXCEPT ![k].status = "accepted", ![k].room = call[c].room]
    /\ IF call[c].text THEN Goes(c, "greet") ELSE Done(c)
    /\ UNCHANGED <<rooms, greetings, mishaps>>

(* save() writes what the acceptance changed into the request, whose status
   may have changed since it was read; a deleted request makes it throw. *)
SaveAccepted(c) ==
    LET k == call[c].req IN
    /\ call[c].pc = "saveAccepted"
    /\ IF requests[k].status = "deleted"
       THEN Done(c) /\ UNCHANGED requests
       ELSE /\ requests' = [requests EXCEPT ![k].status = "accepted", ![k].room = call[c].room]
            /\ IF call[c].text THEN Goes(c, "greet") ELSE Done(c)
    /\ UNCHANGED <<rooms, greetings, mishaps>>

(* createMessage: the sender must still be a participant. *)
Greet(c) ==
    /\ call[c].pc = "greet"
    /\ IF call[c].from \in rooms[call[c].room].members THEN Goes(c, "post") ELSE Done(c)
    /\ UNCHANGED <<requests, rooms, greetings, mishaps>>

Post(c) ==
    /\ call[c].pc = "post"
    /\ greetings' = [greetings EXCEPT ![call[c].req] = @ + 1]
    /\ Done(c)
    /\ UNCHANGED <<requests, rooms, mishaps>>

StartReject(c) ==
    /\ Arrives(c, "reject")
    /\ \E k \in RequestIds :
         /\ requests[k].status = "pending"
         /\ Reads(c, k, "reject", "saveRejected")
         /\ Together("response", Responding(k, c))
    /\ UNCHANGED <<requests, rooms, greetings>>

SaveRejected(c) ==
    LET k == call[c].req IN
    /\ call[c].pc = "saveRejected"
    /\ requests' = IF requests[k].status = "deleted" THEN requests
                   ELSE [requests EXCEPT ![k].status = "rejected"]
    /\ Done(c)
    /\ UNCHANGED <<rooms, greetings, mishaps>>

-----------------------------------------------------------------------------
(* deleteAccount, steps 4 and 5 *)

StartLeave(c) ==
    /\ Arrives(c, "leave")
    /\ \E u \in Users :
         call' = [call EXCEPT ![c] = [Idle EXCEPT !.pc = "purge", !.op = "leave", !.from = u]]
    /\ UNCHANGED <<requests, rooms, greetings, mishaps>>

Purge(c) ==
    /\ call[c].pc = "purge"
    /\ requests' = [k \in RequestIds |->
                      IF call[c].from \in {requests[k].from, requests[k].to}
                      THEN [requests[k] EXCEPT !.status = "deleted"] ELSE requests[k]]
    /\ Goes(c, "pull")
    /\ UNCHANGED <<rooms, greetings, mishaps>>

Pull(c) ==
    /\ call[c].pc = "pull"
    /\ rooms' = [m \in RoomIds |->
                   IF call[c].from \in rooms[m].members
                   THEN [members |-> rooms[m].members \ {call[c].from},
                         former |-> rooms[m].former \cup {call[c].from}]
                   ELSE rooms[m]]
    /\ Done(c)
    /\ UNCHANGED <<requests, greetings, mishaps>>

(* A query or a write that throws ends the call where it stands. *)
CallFails(c) ==
    /\ "fail" \in Handlers
    /\ call[c].pc # "idle"
    /\ Done(c)
    /\ mishaps' = IF call[c].pc \in {"greet", "post"} THEN mishaps \cup {"failure"} ELSE mishaps
    /\ UNCHANGED <<requests, rooms, greetings>>

-----------------------------------------------------------------------------
Init ==
    /\ requests = [k \in RequestIds |-> NoRequest]
    /\ rooms = [m \in RoomIds |-> NoRoom]
    /\ greetings = [k \in RequestIds |-> 0]
    /\ call = [c \in Calls |-> Idle]
    /\ mishaps = {}

Step(c) == \/ StartSend(c) \/ CheckPending(c) \/ InsertRequest(c)
           \/ StartCreate(c) \/ FindRoom(c) \/ InsertRoom(c)
           \/ StartAccept(c) \/ SaveAccepted(c) \/ Greet(c) \/ Post(c)
           \/ StartReject(c) \/ SaveRejected(c)
           \/ StartLeave(c) \/ Purge(c) \/ Pull(c) \/ CallFails(c)

Next == \E c \in Calls : Step(c)

Spec == Init /\ [][Next]_vars

-----------------------------------------------------------------------------
(* Properties *)

(* An accepted request names a room of its sender and its receiver; only a
   deletion takes one of them out again, and the room then remembers whom. *)
AcceptedHasRoom ==
    \A k \in RequestIds : requests[k].status = "accepted" =>
        /\ requests[k].room # None
        /\ {requests[k].from, requests[k].to} \subseteq
             rooms[requests[k].room].members \cup rooms[requests[k].room].former

(* Two members share one room, unless two calls both missed it. *)
OneRoomUnlessOverlap ==
    "room" \notin mishaps =>
        \A m, n \in RoomIds, u, v \in Users :
            u # v /\ {u, v} \subseteq rooms[m].members /\ {u, v} \subseteq rooms[n].members
              => m = n

(* Two members have one pending request, unless two calls both missed it. *)
OnePendingUnlessOverlap ==
    "request" \notin mishaps =>
        \A k, l \in RequestIds :
            /\ requests[k].status = "pending" /\ requests[l].status = "pending"
            /\ {requests[k].from, requests[k].to} = {requests[l].from, requests[l].to}
            => k = l

(* A request whose two responses did not overlap is answered once: its text
   becomes at most one message, and a rejected request has neither a message
   nor a room. *)
AnsweredOnce ==
    "response" \notin mishaps =>
        \A k \in RequestIds :
            /\ greetings[k] <= 1
            /\ requests[k].status = "rejected" => greetings[k] = 0 /\ requests[k].room = None

(* "This request has already been responded to" (chat.service.ts:430, 475):
   an answer stands until the request is deleted, as long as no two responses
   overlapped; of two that did, the later save overwrites the earlier. *)
AnswerStandsUnlessOverlap ==
    [][\A k \in RequestIds :
         "response" \notin mishaps' /\ requests[k].status \in {"accepted", "rejected"}
           => requests'[k].status \in {requests[k].status, "deleted"}]_vars

Working(k) == \E c \in Calls : call[c].req = k

(* "Create the initial message in the chat room" (chat.service.ts:446): once
   nobody is at work on it, the text of an accepted request is a message,
   unless an acceptance failed after it saved the request, when it cannot be
   repeated, or the sender has left the room by deleting the account. *)
GreetingArrivesUnlessFailed ==
    "failure" \notin mishaps =>
        \A k \in RequestIds :
            requests[k].status = "accepted" /\ requests[k].text /\ ~Working(k)
            => greetings[k] > 0 \/ requests[k].from \in rooms[requests[k].room].former

-----------------------------------------------------------------------------
(* What the properties rest on *)

Holds(m, u, v) == {u, v} \subseteq rooms[m].members \cup rooms[m].former

RequestsConsistent ==
    \A k \in RequestIds : requests[k].status \in {"pending", "accepted", "rejected"}
                            => requests[k].from \in Users /\ requests[k].to \in Users

(* A call knows the request it answers and, past createChatRoom, its room. *)
CallConsistent(c) ==
    /\ call[c].pc # "idle" => call[c].from \in Users
    /\ call[c].pc \notin {"idle", "purge", "pull"} => call[c].to \in Users
    /\ call[c].pc \in {"findRoom", "insertRoom"} => (call[c].op = "accept" <=> call[c].req # None)
    /\ call[c].pc \in {"saveAccepted", "greet", "post", "saveRejected"} => call[c].req # None
    /\ call[c].pc \in {"idle", "checkPending", "insertRequest", "purge", "pull"}
         => call[c].req = None
    /\ call[c].req # None => /\ requests[call[c].req].status # "unused"
                             /\ requests[call[c].req].from = call[c].from
                             /\ requests[call[c].req].to = call[c].to
                             /\ requests[call[c].req].text = call[c].text
    /\ call[c].pc \in {"saveAccepted", "greet", "post"}
         => call[c].room # None /\ Holds(call[c].room, call[c].from, call[c].to)

CallsConsistent == RequestsConsistent /\ \A c \in Calls : CallConsistent(c)

(* Between the search and the insertion nobody else makes the room. *)
RoomDecisions ==
    "room" \notin mishaps =>
        \A c \in Calls : call[c].pc = "insertRoom" =>
            /\ call[c].from # call[c].to => \A m \in RoomIds : ~(Pair(c) \subseteq rooms[m].members)
            /\ \A d \in Calls \ {c} : call[d].pc = "insertRoom" => Pair(d) # Pair(c)

PendingDecisions ==
    "request" \notin mishaps =>
        \A c \in Calls : call[c].pc = "insertRequest" =>
            /\ \A k \in RequestIds : requests[k].status = "pending"
                                     => {requests[k].from, requests[k].to} # Pair(c)
            /\ \A d \in Calls \ {c} : call[d].pc = "insertRequest" => Pair(d) # Pair(c)

(* A response finds its request as it left it, or deleted. *)
ResponseDecisions ==
    "response" \notin mishaps =>
        /\ \A k \in RequestIds : requests[k].status \in {"unused", "pending"}
              => greetings[k] = 0 /\ requests[k].room = None
        /\ \A c \in Calls : call[c].req # None =>
             /\ \A d \in Calls : call[d].req = call[c].req => d = c
             /\ greetings[call[c].req] = 0
             /\ requests[call[c].req].status \in
                  {IF call[c].pc \in {"greet", "post"} THEN "accepted" ELSE "pending", "deleted"}

(* Until it is a message, the text of an accepted request is in the hands of
   the acceptance whose room the request names. *)
InHand(k) ==
    \/ greetings[k] > 0
    \/ requests[k].from \in rooms[requests[k].room].former
    \/ \E c \in Calls : /\ call[c].req = k /\ call[c].pc \in {"greet", "post"}
                        /\ call[c].room = requests[k].room

TextsInHand ==
    "failure" \notin mishaps =>
        \A k \in RequestIds : requests[k].status = "accepted" /\ requests[k].text => InHand(k)

ChatInv ==
    /\ TypeOK
    /\ CallsConsistent
    /\ AcceptedHasRoom
    /\ RoomDecisions /\ OneRoomUnlessOverlap
    /\ PendingDecisions /\ OnePendingUnlessOverlap
    /\ ResponseDecisions /\ AnsweredOnce
    /\ TextsInHand

-----------------------------------------------------------------------------
(* The calls, interleaved step by step, do to the documents what operations
   that look and write at once would do, but for the guards that overlapped. *)
AtOnce == INSTANCE Introductions
ImplementsIntroductions == AtOnce!Spec

(* A call that posts the text has saved the acceptance before. *)
GreetsKnown ==
    \A c \in Calls : call[c].pc \in {"greet", "post"} =>
        call[c].text /\ requests[call[c].req].room # None

=============================================================================
