------------------------ MODULE ChatRequestsProofs ------------------------
(***************************************************************************)
(* Chat requests and rooms, for any numbers of users, requests, rooms and  *)
(* calls: an accepted request has its room, and the decisions that nothing *)
(* but a query guards hold as long as two of them do not overlap.          *)
(***************************************************************************)
EXTENDS ChatRequests, TLAPS

LEMMA InitInv == Init => ChatInv
<1> SUFFICES ASSUME Init PROVE ChatInv
  OBVIOUS
<1>1. TypeOK
  BY DEF Init, TypeOK, NoRequest, NoRoom, Idle, ChatRequest, ChatRoom, Locals, Statuses
<1> QED BY <1>1 DEF Init, ChatInv, CallsConsistent, CallConsistent,
        RequestsConsistent, AcceptedHasRoom, RoomDecisions,
        OneRoomUnlessOverlap, PendingDecisions, OnePendingUnlessOverlap, ResponseDecisions,
        AnsweredOnce, TextsInHand, NoRequest, NoRoom, Idle

(* A call only ever changes its own locals. *)
LEMMA OwnLocals ==
    ASSUME TypeOK, CallsConsistent, NEW c \in Calls, Step(c)
    PROVE  /\ call' \in [Calls -> Locals]
           /\ \A d \in Calls \ {c} : call'[d] = call[d]
<1>1. Idle \in Locals /\ call[c] \in Locals /\ call \in [Calls -> Locals]
  BY DEF TypeOK, Idle, Locals
<1>2. ASSUME NEW l \in Locals, call' = [call EXCEPT ![c] = l]
      PROVE  call' \in [Calls -> Locals] /\ \A d \in Calls \ {c} : call'[d] = call[d]
  BY <1>1, <1>2
<1>3. CASE Done(c)
  BY <1>1, <1>2, <1>3 DEF Done
<1>4. ASSUME NEW pc \in {"insertRequest", "insertRoom", "greet", "post", "pull"}, Goes(c, pc)
      PROVE  call' \in [Calls -> Locals] /\ \A d \in Calls \ {c} : call'[d] = call[d]
  <2>1. [call[c] EXCEPT !.pc = pc] \in Locals
    BY <1>1 DEF Locals
  <2> QED BY <1>1, <1>4, <2>1 DEF Goes
<1>5. ASSUME NEW m \in RoomIds, HasRoom(c, m)
      PROVE  call' \in [Calls -> Locals] /\ \A d \in Calls \ {c} : call'[d] = call[d]
  <2>1. [call[c] EXCEPT !.pc = "saveAccepted", !.room = m] \in Locals
    BY <1>1 DEF Locals
  <2> QED BY <1>1, <1>5, <2>1 DEF HasRoom
<1>6. ASSUME NEW k \in RequestIds, NEW op \in {"accept", "reject"},
             NEW pc \in {"findRoom", "saveRejected"}, Reads(c, k, op, pc)
      PROVE  call' \in [Calls -> Locals] /\ \A d \in Calls \ {c} : call'[d] = call[d]
  <2>1. [pc |-> pc, op |-> op, from |-> requests[k].from, to |-> requests[k].to,
         text |-> requests[k].text, req |-> k, room |-> None] \in Locals
    BY DEF TypeOK, ChatRequest, Locals
  <2> QED BY <1>1, <1>6, <2>1 DEF Reads
<1>7. CASE StartSend(c)
  <2> PICK u \in Users, v \in Users, text \in BOOLEAN :
        call' = [call EXCEPT ![c] = [Idle EXCEPT !.pc = "checkPending", !.op = "send",
                                     !.from = u, !.to = v, !.text = text]]
    BY <1>7 DEF StartSend
  <2>1. [Idle EXCEPT !.pc = "checkPending", !.op = "send", !.from = u, !.to = v,
                     !.text = text] \in Locals
    BY DEF Idle, Locals
  <2> QED BY <1>1, <2>1
<1>8. CASE StartCreate(c)
  <2> PICK u \in Users, v \in Users :
        call' = [call EXCEPT ![c] = [Idle EXCEPT !.pc = "findRoom", !.op = "create",
                                     !.from = u, !.to = v]]
    BY <1>8 DEF StartCreate
  <2>1. [Idle EXCEPT !.pc = "findRoom", !.op = "create", !.from = u, !.to = v] \in Locals
    BY DEF Idle, Locals
  <2> QED BY <1>1, <2>1
<1>9. CASE StartLeave(c)
  <2> PICK u \in Users :
        call' = [call EXCEPT ![c] = [Idle EXCEPT !.pc = "purge", !.op = "leave", !.from = u]]
    BY <1>9 DEF StartLeave
  <2>1. [Idle EXCEPT !.pc = "purge", !.op = "leave", !.from = u] \in Locals
    BY DEF Idle, Locals
  <2> QED BY <1>1, <2>1
<1>10. CASE FindRoom(c)
  BY <1>4, <1>5, <1>10 DEF FindRoom, Shared
<1>11. CASE StartAccept(c) \/ StartReject(c)
  BY <1>6, <1>11 DEF StartAccept, StartReject
<1>12. CASE CheckPending(c) \/ InsertRequest(c) \/ InsertRoom(c) \/ SaveAccepted(c) \/ Greet(c)
            \/ Post(c) \/ SaveRejected(c) \/ Purge(c) \/ Pull(c) \/ CallFails(c)
  BY <1>3, <1>4, <1>5, <1>12 DEF CheckPending, InsertRequest, InsertRoom, SaveAccepted, Greet,
     Post, SaveRejected, Purge, Pull, CallFails
<1> QED BY <1>7, <1>8, <1>9, <1>10, <1>11, <1>12 DEF Step

(* A request keeps its sender, receiver and text, and leaves "unused" for good. *)
LEMMA RequestsKeep ==
    ASSUME TypeOK, CallsConsistent, NEW c \in Calls, Step(c)
    PROVE  /\ requests' \in [RequestIds -> ChatRequest]
           /\ \A k \in RequestIds : requests[k].status # "unused" =>
                /\ requests'[k].status # "unused"
                /\ requests'[k].from = requests[k].from
                /\ requests'[k].to = requests[k].to
                /\ requests'[k].text = requests[k].text
<1>1. requests \in [RequestIds -> ChatRequest] /\ call[c] \in Locals
  BY DEF TypeOK
<1>2. CASE InsertRequest(c)
  <2> PICK k \in RequestIds :
        /\ requests[k].status = "unused"
        /\ requests' = [requests EXCEPT ![k] = [status |-> "pending", from |-> call[c].from,
                                                to |-> call[c].to, text |-> call[c].text,
                                                room |-> None]]
    BY <1>2 DEF InsertRequest
  <2>1. [status |-> "pending", from |-> call[c].from, to |-> call[c].to, text |-> call[c].text,
         room |-> None] \in ChatRequest
    BY <1>1 DEF Locals, ChatRequest, Statuses
  <2> QED BY <1>1, <2>1
<1>3. CASE SaveAccepted(c)
  <2>1. call[c].req \in RequestIds /\ call[c].room \in RoomIds \cup {None}
    BY <1>1, <1>3 DEF SaveAccepted, CallsConsistent, CallConsistent, Locals
  <2>2. [requests[call[c].req] EXCEPT !.status = "accepted", !.room = call[c].room] \in ChatRequest
    <3>1. requests[call[c].req] \in ChatRequest /\ "accepted" \in Statuses
      BY <1>1, <2>1 DEF Statuses
    <3> QED BY <2>1, <3>1 DEF ChatRequest
  <2>3. requests' = requests \/ requests' = [requests EXCEPT ![call[c].req] =
                [requests[call[c].req] EXCEPT !.status = "accepted", !.room = call[c].room]]
    BY <1>1, <1>3, <2>1 DEF SaveAccepted, ChatRequest
  <2>4. CASE requests' = [requests EXCEPT ![call[c].req] =
                [requests[call[c].req] EXCEPT !.status = "accepted", !.room = call[c].room]]
    <3>1. requests' \in [RequestIds -> ChatRequest]
      BY <1>1, <2>2, <2>4
    <3>2. /\ \A k \in RequestIds \ {call[c].req} : requests'[k] = requests[k]
          /\ requests'[call[c].req] =
               [requests[call[c].req] EXCEPT !.status = "accepted", !.room = call[c].room]
      BY <1>1, <2>1, <2>4
    <3>3. /\ requests'[call[c].req].status = "accepted"
          /\ requests'[call[c].req].from = requests[call[c].req].from
          /\ requests'[call[c].req].to = requests[call[c].req].to
          /\ requests'[call[c].req].text = requests[call[c].req].text
      BY <1>1, <2>1, <3>2 DEF ChatRequest
    <3> QED BY <3>1, <3>2, <3>3
  <2> QED BY <1>1, <2>3, <2>4
<1>4. CASE SaveRejected(c)
  <2>1. call[c].req \in RequestIds
    BY <1>1, <1>4 DEF SaveRejected, CallsConsistent, CallConsistent, Locals
  <2> QED BY <1>1, <1>4, <2>1 DEF SaveRejected, ChatRequest, Statuses
<1>5. CASE Purge(c)
  BY <1>1, <1>5 DEF Purge, ChatRequest, Statuses
<1>6. CASE UNCHANGED requests
  BY <1>1, <1>6
<1> QED BY <1>2, <1>3, <1>4, <1>5, <1>6 DEF Step, StartSend, CheckPending, StartCreate, FindRoom,
        InsertRoom, StartAccept, Greet, Post, StartReject, StartLeave, Pull, CallFails

(* A room never loses anybody without remembering it. *)
LEMMA RoomsKeep ==
    ASSUME TypeOK, CallsConsistent, NEW c \in Calls, Step(c)
    PROVE  /\ rooms' \in [RoomIds -> ChatRoom]
           /\ \A m \in RoomIds, u, v \in Users : Holds(m, u, v) => Holds(m, u, v)'
<1>1. rooms \in [RoomIds -> ChatRoom] /\ call[c] \in Locals
  BY DEF TypeOK
<1>2. CASE InsertRoom(c)
  <2> PICK m \in RoomIds :
        rooms[m] = NoRoom /\ rooms' = [rooms EXCEPT ![m] = [members |-> Pair(c), former |-> {}]]
    BY <1>2 DEF InsertRoom
  <2>1. [members |-> Pair(c), former |-> {}] \in ChatRoom
    BY <1>1, <1>2 DEF Pair, ChatRoom, CallsConsistent, CallConsistent, InsertRoom
  <2>2. rooms' \in [RoomIds -> ChatRoom]
    BY <1>1, <2>1
  <2>3. \A n \in RoomIds : n # m => rooms'[n] = rooms[n]
    BY <1>1
  <2>4. \A u, v \in Users : ~Holds(m, u, v)
    BY DEF Holds, NoRoom
  <2> QED BY <2>2, <2>3, <2>4 DEF Holds
<1>3. CASE Pull(c)
  <2>1. call[c].from \in Users
    BY <1>3 DEF Pull, CallsConsistent, CallConsistent
  <2>2. rooms' \in [RoomIds -> ChatRoom]
    BY <1>1, <1>3, <2>1 DEF Pull, ChatRoom
  <2>3. \A m \in RoomIds : rooms'[m].members \cup rooms'[m].former
                              = rooms[m].members \cup rooms[m].former
    BY <1>1, <1>3 DEF Pull, ChatRoom
  <2> QED BY <2>2, <2>3 DEF Holds
<1>4. CASE UNCHANGED rooms
  BY <1>1, <1>4 DEF Holds
<1> QED BY <1>2, <1>3, <1>4 DEF Step, StartSend, CheckPending, InsertRequest, StartCreate, FindRoom,
        StartAccept, SaveAccepted, Greet, Post, StartReject, SaveRejected, StartLeave, Purge,
        CallFails

LEMMA TypeStep ==
    ASSUME TypeOK, CallsConsistent, NEW c \in Calls, Step(c)
    PROVE  TypeOK'
<1>1. greetings' \in [RequestIds -> Nat]
  <2>1. CASE Post(c)
    <3>1. call[c].req \in RequestIds
      BY <2>1 DEF Post, CallsConsistent, CallConsistent, TypeOK, Locals
    <3> QED BY <2>1, <3>1 DEF Post, TypeOK
  <2> QED BY <2>1 DEF TypeOK, Step, StartSend, CheckPending, InsertRequest, StartCreate, FindRoom,
          InsertRoom, StartAccept, SaveAccepted, Greet, StartReject, SaveRejected, StartLeave,
          Purge, Pull, CallFails
<1>2. mishaps' \subseteq Mishaps
  BY DEF TypeOK, Mishaps, Together, Step, StartSend, CheckPending, InsertRequest, StartCreate,
     FindRoom, InsertRoom, StartAccept, SaveAccepted, Greet, Post, StartReject, SaveRejected,
     StartLeave, Purge, Pull, CallFails
<1> QED BY <1>1, <1>2, OwnLocals, RequestsKeep, RoomsKeep DEF TypeOK

(* A call that stands still stays consistent whatever another call does. *)
LEMMA OthersConsistent ==
    ASSUME TypeOK, CallsConsistent, NEW c \in Calls, Step(c), NEW d \in Calls \ {c}
    PROVE  CallConsistent(d)'
<1>1. call'[d] = call[d] /\ call[d] \in Locals /\ CallConsistent(d)
  BY OwnLocals DEF TypeOK, CallsConsistent
<1>2. call[d].req # None => call[d].req \in RequestIds
  BY <1>1 DEF Locals
<1>3. call[d].room # None => call[d].room \in RoomIds
  BY <1>1 DEF Locals
<1> QED BY <1>1, <1>2, <1>3, RequestsKeep, RoomsKeep DEF CallConsistent

(* After an insertion or a search a room holds the pair of the call. *)
LEMMA RoomOfCall ==
    ASSUME TypeOK, CallsConsistent, NEW c \in Calls, FindRoom(c) \/ InsertRoom(c)
    PROVE  \/ call'[c] = Idle
           \/ call'[c] = [call[c] EXCEPT !.pc = "insertRoom"] /\ call[c].pc = "findRoom"
           \/ \E m \in RoomIds :
                /\ call[c].op = "accept" /\ call[c].req # None
                /\ call'[c] = [call[c] EXCEPT !.pc = "saveAccepted", !.room = m]
                /\ {call[c].from, call[c].to} \subseteq rooms'[m].members \cup rooms'[m].former
<1>1. call \in [Calls -> Locals] /\ rooms \in [RoomIds -> ChatRoom] /\ CallConsistent(c)
  BY DEF TypeOK, CallsConsistent
<1>2. CASE FindRoom(c)
  <2>1. rooms' = rooms
    BY <1>2 DEF FindRoom
  <2>2. CASE Goes(c, "insertRoom")
    BY <1>1, <1>2, <2>2 DEF Goes, FindRoom
  <2>3. ASSUME NEW m \in Shared(call[c].from, call[c].to), HasRoom(c, m)
        PROVE  \/ call'[c] = Idle
               \/ /\ m \in RoomIds
                  /\ call[c].op = "accept" /\ call[c].req # None
                  /\ call'[c] = [call[c] EXCEPT !.pc = "saveAccepted", !.room = m]
                  /\ {call[c].from, call[c].to} \subseteq rooms'[m].members \cup rooms'[m].former
    <3>1. m \in RoomIds /\ {call[c].from, call[c].to} \subseteq rooms'[m].members
      BY <2>1 DEF Shared
    <3>2. {call[c].from, call[c].to} \subseteq rooms'[m].members \cup rooms'[m].former
      BY <3>1
    <3>3. call[c].op = "accept" => call[c].req # None
      BY <1>1, <1>2 DEF FindRoom, CallConsistent
    <3>4. call'[c] = IF call[c].op = "accept"
                     THEN [call[c] EXCEPT !.pc = "saveAccepted", !.room = m] ELSE Idle
      BY <1>1, <2>3 DEF HasRoom
    <3> QED BY <3>1, <3>2, <3>3, <3>4
  <2> QED BY <1>2, <2>2, <2>3 DEF FindRoom, Shared
<1>3. CASE InsertRoom(c)
  <2> PICK m \in RoomIds :
        /\ rooms' = [rooms EXCEPT ![m] = [members |-> Pair(c), former |-> {}]]
        /\ HasRoom(c, m)
    BY <1>3 DEF InsertRoom
  <2>1. rooms'[m].members = {call[c].from, call[c].to}
    BY <1>1 DEF Pair
  <2>2. call[c].op = "accept" => call[c].req # None
    BY <1>1, <1>3 DEF InsertRoom, CallConsistent
  <2>3. call'[c] = IF call[c].op = "accept"
                   THEN [call[c] EXCEPT !.pc = "saveAccepted", !.room = m] ELSE Idle
    BY <1>1 DEF HasRoom
  <2> QED BY <2>1, <2>2, <2>3
<1> QED BY <1>2, <1>3

LEMMA RequestsConsistentStep ==
    ASSUME TypeOK, CallsConsistent, NEW c \in Calls, Step(c)
    PROVE  RequestsConsistent'
<1>1. /\ requests \in [RequestIds -> ChatRequest] /\ call[c] \in Locals
      /\ RequestsConsistent /\ CallConsistent(c)
  BY DEF TypeOK, CallsConsistent
<1>2. CASE InsertRequest(c)
  BY <1>1, <1>2 DEF InsertRequest, RequestsConsistent, CallConsistent
<1>3. CASE SaveAccepted(c) \/ SaveRejected(c)
  <2>1. /\ call[c].req \in RequestIds
        /\ requests[call[c].req].from \in Users /\ requests[call[c].req].to \in Users
    BY <1>1, <1>3 DEF SaveAccepted, SaveRejected, CallConsistent, Locals
  <2>2. \A k \in RequestIds \ {call[c].req} : requests'[k] = requests[k]
    BY <1>1, <1>3, <2>1 DEF SaveAccepted, SaveRejected
  <2>3. /\ requests'[call[c].req].from = requests[call[c].req].from
        /\ requests'[call[c].req].to = requests[call[c].req].to
    BY <1>1, <1>3, <2>1, RequestsKeep DEF CallConsistent, SaveAccepted, SaveRejected
  <2> QED BY <1>1, <2>1, <2>2, <2>3 DEF RequestsConsistent
<1>4. CASE Purge(c)
  BY <1>1, <1>4 DEF Purge, RequestsConsistent, ChatRequest
<1>5. CASE UNCHANGED requests
  BY <1>1, <1>5 DEF RequestsConsistent
<1> QED BY <1>2, <1>3, <1>4, <1>5 DEF Step, StartSend, CheckPending, StartCreate, FindRoom,
        InsertRoom, StartAccept, Greet, Post, StartReject, StartLeave, Pull, CallFails

LEMMA OwnConsistent ==
    ASSUME TypeOK, CallsConsistent, NEW c \in Calls, Step(c)
    PROVE  CallConsistent(c)'
<1>1. /\ call \in [Calls -> Locals] /\ call[c] \in Locals
      /\ CallConsistent(c) /\ RequestsConsistent
      /\ call[c].req # None => call[c].req \in RequestIds
      /\ call[c].room # None => call[c].room \in RoomIds
  BY DEF TypeOK, CallsConsistent, Locals
<1>2. call'[c] = Idle => CallConsistent(c)'
  BY DEF CallConsistent, Idle
<1>3. CASE Done(c)
  BY <1>1, <1>2, <1>3 DEF Done
<1>4. CASE StartSend(c)
  BY <1>1, <1>4 DEF StartSend, CallConsistent, Idle
<1>5. CASE StartCreate(c)
  BY <1>1, <1>5 DEF StartCreate, CallConsistent, Idle
<1>6. CASE StartLeave(c)
  BY <1>1, <1>6 DEF StartLeave, CallConsistent, Idle
<1>7. CASE StartAccept(c) \/ StartReject(c)
  <2> PICK k \in RequestIds, op \in {"accept", "reject"}, pc \in {"findRoom", "saveRejected"} :
        /\ requests[k].status = "pending" /\ requests' = requests
        /\ pc = "findRoom" => op = "accept"
        /\ call'[c] = [pc |-> pc, op |-> op, from |-> requests[k].from, to |-> requests[k].to,
                       text |-> requests[k].text, req |-> k, room |-> None]
    BY <1>1, <1>7 DEF StartAccept, StartReject, Reads
  <2>1. requests[k].from \in Users /\ requests[k].to \in Users
    BY <1>1 DEF RequestsConsistent
  <2>2. k # None
    BY IdsAssumption
  <2> QED BY <2>1, <2>2 DEF CallConsistent
<1>8. CASE FindRoom(c) \/ InsertRoom(c)
  <2>1. requests' = requests
    BY <1>8 DEF FindRoom, InsertRoom
  <2>2. CASE call'[c] = [call[c] EXCEPT !.pc = "insertRoom"] /\ call[c].pc = "findRoom"
    BY <1>1, <2>1, <2>2 DEF CallConsistent, Locals
  <2>3. ASSUME NEW m \in RoomIds, call[c].op = "accept", call[c].req # None,
               call'[c] = [call[c] EXCEPT !.pc = "saveAccepted", !.room = m],
               {call[c].from, call[c].to} \subseteq rooms'[m].members \cup rooms'[m].former
        PROVE  CallConsistent(c)'
    <3>1. /\ call'[c].pc = "saveAccepted" /\ call'[c].room = m /\ call'[c].req = call[c].req
          /\ call'[c].from = call[c].from /\ call'[c].to = call[c].to
          /\ call'[c].text = call[c].text
      BY <1>1, <2>3 DEF Locals
    <3>2. m # None
      BY IdsAssumption
    <3>3. call[c].from \in Users /\ call[c].to \in Users
      BY <1>1, <1>8 DEF CallConsistent, FindRoom, InsertRoom
    <3> QED BY <1>1, <2>1, <2>3, <3>1, <3>2, <3>3 DEF CallConsistent, Holds
  <2> QED BY <1>2, <1>8, <2>2, <2>3, RoomOfCall
<1>9. ASSUME NEW pc, Goes(c, pc),
             \/ pc = "insertRequest" /\ call[c].pc = "checkPending"
             \/ pc = "greet" /\ call[c].pc = "saveAccepted"
             \/ pc = "post" /\ call[c].pc = "greet"
             \/ pc = "pull" /\ call[c].pc = "purge"
      PROVE  CallConsistent(c)'
  <2>1. call'[c] = [call[c] EXCEPT !.pc = pc]
    BY <1>1, <1>9 DEF Goes
  <2>2. /\ call'[c].pc = pc /\ call'[c].room = call[c].room /\ call'[c].req = call[c].req
        /\ call'[c].from = call[c].from /\ call'[c].to = call[c].to /\ call'[c].op = call[c].op
        /\ call'[c].text = call[c].text
    BY <1>1, <2>1 DEF Locals
  <2>3. call[c].req # None => /\ requests'[call[c].req].status # "unused"
                              /\ requests'[call[c].req].from = call[c].from
                              /\ requests'[call[c].req].to = call[c].to
                              /\ requests'[call[c].req].text = call[c].text
    BY <1>1, RequestsKeep DEF CallConsistent
  <2>4. call[c].pc \in {"saveAccepted", "greet"} =>
          /\ call[c].room # None
          /\ {call[c].from, call[c].to} \subseteq rooms'[call[c].room].members
                                                     \cup rooms'[call[c].room].former
    BY <1>1, RoomsKeep DEF CallConsistent, Holds
  <2> QED BY <1>1, <1>9, <2>2, <2>3, <2>4 DEF CallConsistent, Holds
<1>10. CASE CheckPending(c) \/ SaveAccepted(c) \/ Greet(c) \/ Purge(c)
  BY <1>3, <1>9, <1>10 DEF CheckPending, SaveAccepted, Greet, Purge
<1> QED BY <1>3, <1>4, <1>5, <1>6, <1>7, <1>8, <1>10 DEF Step, InsertRequest, Post, SaveRejected,
        Pull, CallFails

LEMMA ConsistentStep ==
    ASSUME TypeOK, CallsConsistent, NEW c \in Calls, Step(c)
    PROVE  CallsConsistent'
  BY OwnConsistent, OthersConsistent, RequestsConsistentStep DEF CallsConsistent

(* An accepted request was accepted before, or is the one just saved. *)
LEMMA AcceptedFrom ==
    ASSUME TypeOK, CallsConsistent, NEW c \in Calls, Step(c),
           NEW k \in RequestIds, requests'[k].status = "accepted"
    PROVE  \/ /\ requests[k].status = "accepted" /\ requests'[k] = requests[k]
           \/ /\ SaveAccepted(c) /\ k = call[c].req /\ requests'[k].room = call[c].room
              /\ requests'[k].from = call[c].from /\ requests'[k].to = call[c].to
              /\ requests'[k].text = call[c].text /\ requests[k].status # "deleted"
<1>1. /\ requests \in [RequestIds -> ChatRequest] /\ call[c] \in Locals /\ CallConsistent(c)
  BY DEF TypeOK, CallsConsistent
<1>2. CASE SaveAccepted(c)
  <2>1. call[c].req \in RequestIds
    BY <1>1, <1>2 DEF SaveAccepted, CallConsistent, Locals
  <2>2. /\ requests[call[c].req].from = call[c].from
        /\ requests[call[c].req].to = call[c].to
        /\ requests[call[c].req].text = call[c].text
    BY <1>1, <1>2 DEF SaveAccepted, CallConsistent
  <2> QED BY <1>1, <1>2, <2>1, <2>2 DEF SaveAccepted, ChatRequest
<1>3. CASE InsertRequest(c) \/ SaveRejected(c) \/ Purge(c)
  BY <1>1, <1>3 DEF InsertRequest, SaveRejected, Purge, CallConsistent, ChatRequest
<1>4. CASE UNCHANGED requests
  BY <1>4
<1> QED BY <1>2, <1>3, <1>4 DEF Step, StartSend, CheckPending, StartCreate, FindRoom,
        InsertRoom, StartAccept, Greet, Post, StartReject, StartLeave, Pull, CallFails

LEMMA AcceptedStep ==
    ASSUME TypeOK, CallsConsistent, AcceptedHasRoom, NEW c \in Calls, Step(c)
    PROVE  AcceptedHasRoom'
<1>1. /\ requests \in [RequestIds -> ChatRequest] /\ call[c] \in Locals
      /\ RequestsConsistent /\ CallConsistent(c)
  BY DEF TypeOK, CallsConsistent
<1> SUFFICES ASSUME NEW k \in RequestIds, requests'[k].status = "accepted"
             PROVE  /\ requests'[k].room # None
                    /\ {requests'[k].from, requests'[k].to} \subseteq
                         rooms'[requests'[k].room].members \cup rooms'[requests'[k].room].former
  BY DEF AcceptedHasRoom
<1>3. CASE requests[k].status = "accepted" /\ requests'[k] = requests[k]
  <2>1. /\ requests[k].room # None
        /\ {requests[k].from, requests[k].to} \subseteq
             rooms[requests[k].room].members \cup rooms[requests[k].room].former
    BY <1>3 DEF AcceptedHasRoom
  <2>2. requests[k].from \in Users /\ requests[k].to \in Users /\ requests[k].room \in RoomIds
    BY <1>1, <1>3, <2>1 DEF RequestsConsistent, ChatRequest
  <2> QED BY <1>3, <2>1, <2>2, RoomsKeep DEF Holds
<1>4. CASE /\ SaveAccepted(c) /\ k = call[c].req /\ requests'[k].room = call[c].room
           /\ requests'[k].from = call[c].from /\ requests'[k].to = call[c].to
  BY <1>1, <1>4 DEF SaveAccepted, CallConsistent, Holds
<1> QED BY <1>3, <1>4, AcceptedFrom

(* Only a search that finds nothing puts a call before an insertion. *)
LEMMA EntersInsertRoom ==
    ASSUME TypeOK, NEW c \in Calls, Step(c), call'[c].pc = "insertRoom"
    PROVE  FindRoom(c) /\ call'[c] = [call[c] EXCEPT !.pc = "insertRoom"]
<1>1. call \in [Calls -> Locals] /\ call[c] \in Locals
  BY DEF TypeOK
<1>2. ~Done(c)
  BY <1>1 DEF Done, Idle
<1>3. \A pc : Goes(c, pc) => pc = "insertRoom"
  BY <1>1 DEF Goes, Locals
<1>4. ASSUME NEW m \in RoomIds, HasRoom(c, m) PROVE FALSE
  <2>1. call'[c] = IF call[c].op = "accept"
                   THEN [call[c] EXCEPT !.pc = "saveAccepted", !.room = m] ELSE Idle
    BY <1>1, <1>4 DEF HasRoom
  <2>2. [call[c] EXCEPT !.pc = "saveAccepted", !.room = m].pc = "saveAccepted"
    BY <1>1 DEF Locals
  <2> QED BY <2>1, <2>2 DEF Idle
<1>5. ~StartSend(c) /\ ~StartCreate(c) /\ ~StartLeave(c)
  BY <1>1 DEF StartSend, StartCreate, StartLeave, Idle
<1>6. ~StartAccept(c) /\ ~StartReject(c)
  BY <1>1 DEF StartAccept, StartReject, Reads
<1>7. FindRoom(c)
  BY <1>2, <1>3, <1>4, <1>5, <1>6 DEF Step, CheckPending, InsertRequest, InsertRoom, SaveAccepted,
     Greet, Post, SaveRejected, Purge, Pull, CallFails
<1> QED BY <1>1, <1>4, <1>7 DEF FindRoom, Goes, Shared

LEMMA NoRoomFound ==
    ASSUME TypeOK, NEW c \in Calls, FindRoom(c), call'[c] = [call[c] EXCEPT !.pc = "insertRoom"]
    PROVE  /\ Shared(call[c].from, call[c].to) = {}
           /\ Together("room",
                {d \in Calls \ {c} : call[d].pc = "insertRoom" /\ Pair(d) = Pair(c)})
<1>1. call \in [Calls -> Locals] /\ call[c] \in Locals
  BY DEF TypeOK
<1>2. call'[c].pc = "insertRoom"
  BY <1>1 DEF Locals
<1>3. ASSUME NEW m \in RoomIds, HasRoom(c, m) PROVE FALSE
  <2>1. call'[c] = IF call[c].op = "accept"
                   THEN [call[c] EXCEPT !.pc = "saveAccepted", !.room = m] ELSE Idle
    BY <1>1, <1>3 DEF HasRoom
  <2>2. [call[c] EXCEPT !.pc = "saveAccepted", !.room = m].pc = "saveAccepted"
    BY <1>1 DEF Locals
  <2>3. Idle.pc = "idle"
    BY DEF Idle
  <2> QED BY <1>2, <2>1, <2>2, <2>3
<1> QED BY <1>3 DEF FindRoom, Shared

(* Rooms: who joins, and who is past the search. *)
LEMMA RoomStep ==
    ASSUME TypeOK, CallsConsistent, RoomDecisions, OneRoomUnlessOverlap, NEW c \in Calls, Step(c)
    PROVE  RoomDecisions' /\ OneRoomUnlessOverlap'
<1> SUFFICES ASSUME "room" \notin mishaps'
             PROVE  RoomDecisions' /\ OneRoomUnlessOverlap'
  BY DEF RoomDecisions, OneRoomUnlessOverlap
<1>1. /\ rooms \in [RoomIds -> ChatRoom] /\ call \in [Calls -> Locals]
      /\ CallConsistent(c) /\ \A d \in Calls \ {c} : call'[d] = call[d]
  BY OwnLocals DEF TypeOK, CallsConsistent
<1>2. "room" \notin mishaps
  BY DEF Together, Step, StartSend, CheckPending, InsertRequest, StartCreate, FindRoom, InsertRoom,
     StartAccept, SaveAccepted, Greet, Post, StartReject, SaveRejected, StartLeave, Purge, Pull,
     CallFails
<1>3. ASSUME NEW d \in Calls, call[d].pc = "insertRoom"
      PROVE  /\ call[d].from # call[d].to =>
                  \A m \in RoomIds : ~({call[d].from, call[d].to} \subseteq rooms[m].members)
             /\ \A e \in Calls \ {d} : call[e].pc = "insertRoom" => Pair(e) # Pair(d)
  BY <1>2, <1>3 DEF RoomDecisions, Pair
<1>4. CASE InsertRoom(c)
  <2> PICK n \in RoomIds :
        /\ rooms[n] = NoRoom
        /\ rooms' = [rooms EXCEPT ![n] = [members |-> Pair(c), former |-> {}]]
        /\ HasRoom(c, n)
    BY <1>4 DEF InsertRoom
  <2>1. /\ rooms'[n].members = {call[c].from, call[c].to}
        /\ \A m \in RoomIds \ {n} : rooms'[m] = rooms[m]
    BY <1>1 DEF Pair
  <2>2. call'[c].pc # "insertRoom"
    BY <1>1 DEF HasRoom, Idle, Locals
  <2>3. call[c].pc = "insertRoom"
    BY <1>4 DEF InsertRoom
  <2>4. ASSUME NEW d \in Calls, call'[d].pc = "insertRoom"
        PROVE  /\ call[d].pc = "insertRoom" /\ d # c /\ call'[d] = call[d]
               /\ call[d].from # call[d].to =>
                    \A m \in RoomIds : ~({call[d].from, call[d].to} \subseteq rooms'[m].members)
    <3>1. d # c /\ call'[d] = call[d] /\ call[d].pc = "insertRoom"
      BY <1>1, <2>2, <2>4
    <3>2. {call[d].from, call[d].to} # {call[c].from, call[c].to}
      BY <1>3, <2>3, <3>1 DEF Pair
    <3>3. call[d].from # call[d].to => ~({call[d].from, call[d].to} \subseteq {call[c].from, call[c].to})
      BY <3>2
    <3> QED BY <1>3, <2>1, <3>1, <3>3
  <2>5. RoomDecisions'
    <3> SUFFICES ASSUME NEW d \in Calls, call'[d].pc = "insertRoom"
                 PROVE  /\ call'[d].from # call'[d].to =>
                             \A m \in RoomIds : ~(Pair(d)' \subseteq rooms'[m].members)
                        /\ \A e \in Calls \ {d} : call'[e].pc = "insertRoom" => Pair(e)' # Pair(d)'
      BY DEF RoomDecisions
    <3>1. Pair(d)' = Pair(d) /\ \A e \in Calls : call'[e].pc = "insertRoom" => Pair(e)' = Pair(e)
      BY <2>4 DEF Pair
    <3>2. \A e \in Calls : call'[e].pc = "insertRoom" => call[e].pc = "insertRoom"
      BY <2>4
    <3>3. call'[d] = call[d] /\ call[d].pc = "insertRoom"
      BY <2>4
    <3>4. call[d].from # call[d].to =>
                    \A m \in RoomIds : ~(Pair(d) \subseteq rooms'[m].members)
      BY <2>4 DEF Pair
    <3> QED BY <1>3, <3>1, <3>2, <3>3, <3>4
  <2>6. ASSUME NEW m \in RoomIds, NEW u \in Users, NEW v \in Users, u # v,
               {u, v} \subseteq rooms'[m].members, {u, v} \subseteq rooms'[n].members
        PROVE  m = n
    <3>1. {u, v} = {call[c].from, call[c].to} /\ call[c].from # call[c].to
      BY <2>1, <2>6
    <3> QED BY <1>3, <2>1, <2>3, <2>6, <3>1
  <2> QED BY <1>2, <2>1, <2>5, <2>6 DEF OneRoomUnlessOverlap
<1>5. CASE \A m \in RoomIds : rooms'[m].members \subseteq rooms[m].members
  <2>1. OneRoomUnlessOverlap'
    BY <1>2, <1>5 DEF OneRoomUnlessOverlap
  <2>2. CASE call'[c].pc = "insertRoom"
    <3>1. FindRoom(c) /\ call'[c] = [call[c] EXCEPT !.pc = "insertRoom"]
      BY <2>2, EntersInsertRoom
    <3>2. /\ \A m \in RoomIds : ~(Pair(c) \subseteq rooms[m].members)
          /\ \A d \in Calls \ {c} : call[d].pc = "insertRoom" => Pair(d) # Pair(c)
      <4>1. Shared(call[c].from, call[c].to) = {}
        BY <3>1, NoRoomFound
      <4>2. Together("room",
              {d \in Calls \ {c} : call[d].pc = "insertRoom" /\ Pair(d) = Pair(c)})
        BY <3>1, NoRoomFound
      <4>3. {d \in Calls \ {c} : call[d].pc = "insertRoom" /\ Pair(d) = Pair(c)} = {}
        BY <4>2 DEF Together
      <4> QED BY <4>1, <4>3 DEF Shared, Pair
    <3>3. Pair(c)' = Pair(c) /\ \A d \in Calls \ {c} : Pair(d)' = Pair(d)
      BY <1>1, <3>1 DEF Locals, Pair
    <3> SUFFICES ASSUME NEW d \in Calls, call'[d].pc = "insertRoom"
                 PROVE  /\ call'[d].from # call'[d].to =>
                             \A m \in RoomIds : ~(Pair(d)' \subseteq rooms'[m].members)
                        /\ \A e \in Calls \ {d} : call'[e].pc = "insertRoom" => Pair(e)' # Pair(d)'
      BY <2>1 DEF RoomDecisions
    <3>4. CASE d = c
      BY <1>1, <1>5, <3>2, <3>3, <3>4
    <3>5. CASE d # c
      <4>1. call'[d] = call[d] /\ Pair(d)' = Pair(d)
        BY <1>1, <3>3, <3>5
      <4>2. call[d].from # call[d].to => \A m \in RoomIds : ~(Pair(d) \subseteq rooms'[m].members)
        BY <1>3, <1>5, <4>1 DEF Pair
      <4>3. ASSUME NEW e \in Calls \ {d}, call'[e].pc = "insertRoom" PROVE Pair(e)' # Pair(d)'
        BY <1>1, <1>3, <3>2, <3>3, <3>5, <4>1, <4>3
      <4> QED BY <4>1, <4>2, <4>3
    <3> QED BY <3>4, <3>5
  <2>3. CASE call'[c].pc # "insertRoom"
    <3> SUFFICES ASSUME NEW d \in Calls, call'[d].pc = "insertRoom"
                 PROVE  /\ call'[d].from # call'[d].to =>
                             \A m \in RoomIds : ~(Pair(d)' \subseteq rooms'[m].members)
                        /\ \A e \in Calls \ {d} : call'[e].pc = "insertRoom" => Pair(e)' # Pair(d)'
      BY <2>1 DEF RoomDecisions
    <3>1. \A e \in Calls : call'[e].pc = "insertRoom" => call'[e] = call[e] /\ Pair(e)' = Pair(e)
      BY <1>1, <2>3 DEF Pair
    <3>2. call[d].from # call[d].to => \A m \in RoomIds : ~(Pair(d) \subseteq rooms'[m].members)
      BY <1>3, <1>5, <3>1 DEF Pair
    <3> QED BY <1>3, <3>1, <3>2
  <2> QED BY <2>2, <2>3
<1>6. CASE Pull(c)
  <2>1. \A m \in RoomIds : rooms'[m].members \subseteq rooms[m].members
    BY <1>1, <1>6 DEF Pull
  <2> QED BY <1>5, <2>1
<1>7. CASE UNCHANGED rooms
  BY <1>5, <1>7
<1> QED BY <1>4, <1>6, <1>7 DEF Step, StartSend, CheckPending, InsertRequest, StartCreate,
        FindRoom, StartAccept, SaveAccepted, Greet, Post, StartReject, SaveRejected, StartLeave,
        Purge, CallFails

(* Only a check that finds nothing puts a call before the insertion of a request. *)
LEMMA EntersInsertRequest ==
    ASSUME TypeOK, NEW c \in Calls, Step(c), call'[c].pc = "insertRequest"
    PROVE  /\ CheckPending(c) /\ call'[c] = [call[c] EXCEPT !.pc = "insertRequest"]
           /\ Pending(call[c].from, call[c].to) = {}
           /\ Together("request",
                {d \in Calls \ {c} : call[d].pc = "insertRequest" /\ Pair(d) = Pair(c)})
<1>1. call \in [Calls -> Locals] /\ call[c] \in Locals
  BY DEF TypeOK
<1>2. ~Done(c)
  BY <1>1 DEF Done, Idle
<1>3. \A pc : Goes(c, pc) => pc = "insertRequest"
  BY <1>1 DEF Goes, Locals
<1>4. ASSUME NEW m \in RoomIds, HasRoom(c, m) PROVE FALSE
  <2>1. call'[c] = IF call[c].op = "accept"
                   THEN [call[c] EXCEPT !.pc = "saveAccepted", !.room = m] ELSE Idle
    BY <1>1, <1>4 DEF HasRoom
  <2>2. [call[c] EXCEPT !.pc = "saveAccepted", !.room = m].pc = "saveAccepted"
    BY <1>1 DEF Locals
  <2> QED BY <2>1, <2>2 DEF Idle
<1>5. ~StartSend(c) /\ ~StartCreate(c) /\ ~StartLeave(c)
  BY <1>1 DEF StartSend, StartCreate, StartLeave, Idle
<1>6. ~StartAccept(c) /\ ~StartReject(c)
  BY <1>1 DEF StartAccept, StartReject, Reads
<1>7. CheckPending(c)
  BY <1>2, <1>3, <1>4, <1>5, <1>6 DEF Step, FindRoom, Shared, InsertRequest, InsertRoom,
     SaveAccepted, Greet, Post, SaveRejected, Purge, Pull, CallFails
<1> QED BY <1>1, <1>2, <1>7 DEF CheckPending, Goes

LEMMA PendingStep ==
    ASSUME TypeOK, CallsConsistent, PendingDecisions, OnePendingUnlessOverlap,
           NEW c \in Calls, Step(c)
    PROVE  PendingDecisions' /\ OnePendingUnlessOverlap'
<1> SUFFICES ASSUME "request" \notin mishaps'
             PROVE  PendingDecisions' /\ OnePendingUnlessOverlap'
  BY DEF PendingDecisions, OnePendingUnlessOverlap
<1> DEFINE Between(k) == {requests[k].from, requests[k].to}
<1>1. /\ requests \in [RequestIds -> ChatRequest] /\ call \in [Calls -> Locals]
      /\ CallConsistent(c) /\ \A d \in Calls \ {c} : call'[d] = call[d]
  BY OwnLocals DEF TypeOK, CallsConsistent
<1>2. "request" \notin mishaps
  BY DEF Together, Step, StartSend, CheckPending, InsertRequest, StartCreate, FindRoom, InsertRoom,
     StartAccept, SaveAccepted, Greet, Post, StartReject, SaveRejected, StartLeave, Purge, Pull,
     CallFails
<1>3. ASSUME NEW d \in Calls, call[d].pc = "insertRequest"
      PROVE  /\ \A k \in RequestIds : requests[k].status = "pending" => Between(k) # Pair(d)
             /\ \A e \in Calls \ {d} : call[e].pc = "insertRequest" => Pair(e) # Pair(d)
  BY <1>2, <1>3 DEF PendingDecisions
<1>4. \A k, l \in RequestIds :
        requests[k].status = "pending" /\ requests[l].status = "pending"
        /\ Between(k) = Between(l) => k = l
  BY <1>2 DEF OnePendingUnlessOverlap
<1>5. SUFFICES
        /\ \A d \in Calls : call'[d].pc = "insertRequest" =>
             /\ \A k \in RequestIds : requests'[k].status = "pending" => Between(k)' # Pair(d)'
             /\ \A e \in Calls \ {d} : call'[e].pc = "insertRequest" => Pair(e)' # Pair(d)'
        /\ \A k, l \in RequestIds :
             requests'[k].status = "pending" /\ requests'[l].status = "pending"
             /\ Between(k)' = Between(l)' => k = l
  BY DEF PendingDecisions, OnePendingUnlessOverlap
<1>6. CASE InsertRequest(c)
  <2> PICK n \in RequestIds :
        /\ requests[n].status = "unused"
        /\ requests' = [requests EXCEPT ![n] = [status |-> "pending", from |-> call[c].from,
                                                to |-> call[c].to, text |-> call[c].text,
                                                room |-> None]]
    BY <1>6 DEF InsertRequest
  <2>1. /\ Between(n)' = Pair(c)
        /\ \A k \in RequestIds \ {n} : requests'[k] = requests[k] /\ Between(k)' = Between(k)
    BY <1>1 DEF Pair
  <2>2. call[c].pc = "insertRequest" /\ call'[c].pc = "idle"
    BY <1>1, <1>6 DEF InsertRequest, Done, Idle
  <2>3. ASSUME NEW d \in Calls, call'[d].pc = "insertRequest"
        PROVE  d # c /\ call[d].pc = "insertRequest" /\ Pair(d)' = Pair(d)
    BY <1>1, <2>2, <2>3 DEF Pair
  <2>4. ASSUME NEW d \in Calls, call'[d].pc = "insertRequest"
        PROVE  /\ \A k \in RequestIds : requests'[k].status = "pending" => Between(k)' # Pair(d)'
               /\ \A e \in Calls \ {d} : call'[e].pc = "insertRequest" => Pair(e)' # Pair(d)'
    <3>1. Pair(d) # Pair(c)
      BY <1>3, <2>2, <2>3, <2>4
    <3>2. Pair(d)' = Pair(d)
      BY <2>3, <2>4
    <3>3. ASSUME NEW k \in RequestIds, requests'[k].status = "pending"
          PROVE  Between(k)' # Pair(d)'
      <4>1. CASE k = n
        BY <2>1, <3>1, <3>2, <4>1
      <4>2. CASE k # n
        BY <1>3, <2>1, <2>3, <2>4, <3>2, <3>3, <4>2
      <4> QED BY <4>1, <4>2
    <3>4. ASSUME NEW e \in Calls \ {d}, call'[e].pc = "insertRequest" PROVE Pair(e)' # Pair(d)'
      BY <1>3, <2>3, <2>4, <3>2, <3>4
    <3> QED BY <3>3, <3>4
  <2>5. ASSUME NEW k \in RequestIds, NEW l \in RequestIds, Between(k)' = Between(l)',
               requests'[k].status = "pending", requests'[l].status = "pending"
        PROVE  k = l
    <3>1. \A j \in RequestIds : j # n /\ requests'[j].status = "pending"
             => requests[j].status = "pending" /\ Between(j)' = Between(j) /\ Between(j) # Pair(c)
      BY <1>3, <2>1, <2>2
    <3>2. CASE k # n /\ l # n
      <4>1. requests[k].status = "pending" /\ requests[l].status = "pending"
        BY <2>5, <3>1, <3>2
      <4>2. Between(k) = Between(l)
        BY <2>5, <3>1, <3>2
      <4> QED BY <1>4, <4>1, <4>2
    <3>3. CASE k = n \/ l = n
      BY <2>1, <2>5, <3>1, <3>3
    <3> QED BY <3>2, <3>3
  <2> QED BY <2>4, <2>5
<1>7. CASE ~InsertRequest(c)
  <2>1. \A k \in RequestIds : requests'[k].status = "pending" =>
          requests[k].status = "pending" /\ Between(k)' = Between(k)
    <3>1. CASE SaveAccepted(c)
      <4>1. call[c].req \in RequestIds
        BY <1>1, <3>1 DEF SaveAccepted, CallConsistent, Locals
      <4> QED BY <1>1, <3>1, <4>1 DEF SaveAccepted, ChatRequest
    <3>2. CASE SaveRejected(c) \/ Purge(c)
      BY <1>1, <3>2 DEF SaveRejected, Purge, ChatRequest
    <3>3. CASE UNCHANGED requests
      BY <3>3
    <3> QED BY <1>7, <3>1, <3>2, <3>3 DEF Step, StartSend, CheckPending, StartCreate, FindRoom,
            InsertRoom, StartAccept, Greet, Post, StartReject, StartLeave, Pull, CallFails
  <2>2. ASSUME NEW k \in RequestIds, NEW l \in RequestIds, Between(k)' = Between(l)',
               requests'[k].status = "pending", requests'[l].status = "pending"
        PROVE  k = l
    BY <1>4, <2>1, <2>2
  <2>3. ASSUME NEW d \in Calls, call'[d].pc = "insertRequest"
        PROVE  /\ Pair(d)' = Pair(d)
               /\ \A k \in RequestIds : requests[k].status = "pending" => Between(k) # Pair(d)
               /\ \A e \in Calls \ {d} : call'[e].pc = "insertRequest" => Pair(e) # Pair(d)
    <3>1. CASE d = c
      <4>1. /\ Pair(c)' = Pair(c)
            /\ Pending(call[c].from, call[c].to) = {}
        BY <1>1, <2>3, <3>1, EntersInsertRequest DEF Pair, Locals
      <4>2. {e \in Calls \ {c} : call[e].pc = "insertRequest" /\ Pair(e) = Pair(c)} = {}
        BY <2>3, <3>1, EntersInsertRequest DEF Together
      <4> QED BY <1>1, <3>1, <4>1, <4>2 DEF Pending, Pair
    <3>2. CASE d # c
      <4>1. call'[d] = call[d] /\ Pair(d)' = Pair(d) /\ call[d].pc = "insertRequest"
        BY <1>1, <2>3, <3>2 DEF Pair
      <4>2. ASSUME NEW e \in Calls \ {d}, call'[e].pc = "insertRequest" PROVE Pair(e) # Pair(d)
        <5>1. CASE e = c
          <6>1. {x \in Calls \ {c} : call[x].pc = "insertRequest" /\ Pair(x) = Pair(c)} = {}
            BY <4>2, <5>1, EntersInsertRequest DEF Together
          <6> QED BY <3>2, <4>1, <5>1, <6>1
        <5>2. CASE e # c
          BY <1>1, <1>3, <4>1, <4>2, <5>2
        <5> QED BY <5>1, <5>2
      <4> QED BY <1>3, <4>1, <4>2
    <3> QED BY <3>1, <3>2
  <2>4. ASSUME NEW d \in Calls, call'[d].pc = "insertRequest"
        PROVE  /\ \A k \in RequestIds : requests'[k].status = "pending" => Between(k)' # Pair(d)'
               /\ \A e \in Calls \ {d} : call'[e].pc = "insertRequest" => Pair(e)' # Pair(d)'
    <3>1. Pair(d)' = Pair(d)
      BY <2>3, <2>4
    <3>2. ASSUME NEW k \in RequestIds, requests'[k].status = "pending"
          PROVE  Between(k)' # Pair(d)'
      <4>1. requests[k].status = "pending" /\ Between(k)' = Between(k)
        BY <2>1, <3>2
      <4>2. Between(k) # Pair(d)
        BY <2>3, <2>4, <4>1
      <4> QED BY <3>1, <4>1, <4>2
    <3>3. ASSUME NEW e \in Calls \ {d}, call'[e].pc = "insertRequest" PROVE Pair(e)' # Pair(d)'
      <4>1. Pair(e) # Pair(d)
        BY <2>3, <2>4, <3>3
      <4>2. Pair(e)' = Pair(e)
        BY <2>3, <3>3
      <4> QED BY <3>1, <4>1, <4>2
    <3> QED BY <3>2, <3>3
  <2> QED BY <2>2, <2>4
<1> QED BY <1>6, <1>7

-----------------------------------------------------------------------------
(* Responses *)

(* What a step does to the requests a response is at work on. *)
LEMMA ResponseStep ==
    ASSUME TypeOK, CallsConsistent, AnsweredOnce, ResponseDecisions, NEW c \in Calls, Step(c)
    PROVE  /\ ResponseDecisions' /\ AnsweredOnce'
           /\ "response" \notin mishaps' =>
                \A k \in RequestIds : requests[k].status \in {"accepted", "rejected"}
                   => requests'[k].status \in {requests[k].status, "deleted"}
<1> SUFFICES ASSUME "response" \notin mishaps'
             PROVE  /\ ResponseDecisions' /\ AnsweredOnce'
                    /\ \A k \in RequestIds : requests[k].status \in {"accepted", "rejected"}
                         => requests'[k].status \in {requests[k].status, "deleted"}
  BY DEF ResponseDecisions, AnsweredOnce
<1> DEFINE Expects(pc) == {IF pc \in {"greet", "post"} THEN "accepted" ELSE "pending", "deleted"}
           Fresh(k) == greetings[k] = 0 /\ requests[k].room = None
<1>1. /\ requests \in [RequestIds -> ChatRequest] /\ call \in [Calls -> Locals]
      /\ greetings \in [RequestIds -> Nat]
      /\ CallConsistent(c) /\ \A d \in Calls \ {c} : call'[d] = call[d]
      /\ call[c] \in Locals /\ (call[c].req # None => call[c].req \in RequestIds)
  BY OwnLocals DEF TypeOK, CallsConsistent, Locals
<1>2. "response" \notin mishaps
  BY DEF Together, Step, StartSend, CheckPending, InsertRequest, StartCreate, FindRoom, InsertRoom,
     StartAccept, SaveAccepted, Greet, Post, StartReject, SaveRejected, StartLeave, Purge, Pull,
     CallFails
<1>3. /\ \A k \in RequestIds : requests[k].status \in {"unused", "pending"} => Fresh(k)
      /\ \A k \in RequestIds : greetings[k] <= 1
      /\ \A k \in RequestIds : requests[k].status = "rejected" => Fresh(k)
      /\ \A d \in Calls : call[d].req # None =>
           /\ \A e \in Calls : call[e].req = call[d].req => e = d
           /\ greetings[call[d].req] = 0
           /\ requests[call[d].req].status \in Expects(call[d].pc)
  BY <1>2 DEF ResponseDecisions, AnsweredOnce
<1>4. ASSUME /\ \A k \in RequestIds : requests'[k].status \in {"unused", "pending", "rejected"}
                  => Fresh(k)'
             /\ \A k \in RequestIds : greetings'[k] <= 1
             /\ \A d \in Calls : call'[d].req # None =>
                  /\ \A e \in Calls : call'[e].req = call'[d].req => e = d
                  /\ greetings'[call'[d].req] = 0
                  /\ requests'[call'[d].req].status \in Expects(call'[d].pc)
      PROVE  ResponseDecisions' /\ AnsweredOnce'
  BY <1>4 DEF ResponseDecisions, AnsweredOnce
<1>5. ASSUME UNCHANGED <<requests, greetings>>, call'[c].req = None
      PROVE  ResponseDecisions' /\ AnsweredOnce'
  <2>1. \A d \in Calls : call'[d].req # None => d # c /\ call'[d] = call[d]
    BY <1>1, <1>5
  <2>2. \A d \in Calls : call'[d].req # None =>
           /\ \A e \in Calls : call'[e].req = call'[d].req => e = d
           /\ greetings'[call'[d].req] = 0
           /\ requests'[call'[d].req].status \in Expects(call'[d].pc)
    BY <1>3, <1>5, <2>1
  <2> QED BY <1>3, <1>4, <1>5, <2>2
<1>6. CASE StartSend(c) \/ StartCreate(c) \/ StartLeave(c)
  <2>1. call'[c].req = None
    BY <1>1, <1>6 DEF StartSend, StartCreate, StartLeave, Idle
  <2> QED BY <1>1, <1>5, <1>6, <2>1 DEF StartSend, StartCreate, StartLeave
<1>7. CASE UNCHANGED <<requests, greetings>> /\ Done(c)
  BY <1>1, <1>5, <1>7 DEF Done, Idle
<1>8. ASSUME UNCHANGED <<requests, greetings>>, NEW pc, Goes(c, pc),
             Expects(pc) = Expects(call[c].pc)
      PROVE  ResponseDecisions' /\ AnsweredOnce'
  <2>1. call'[c].req = call[c].req /\ call'[c].pc = pc
    BY <1>1, <1>8 DEF Goes, Locals
  <2>2. \A d \in Calls : call'[d].req = call[d].req /\ Expects(call'[d].pc) = Expects(call[d].pc)
    BY <1>1, <1>8, <2>1
  <2> QED BY <1>3, <1>4, <1>8, <2>2
<1>9. ASSUME UNCHANGED <<requests, greetings>>, FindRoom(c) \/ InsertRoom(c)
      PROVE  ResponseDecisions' /\ AnsweredOnce'
  <2>1. CASE call'[c] = Idle
    BY <1>5, <1>9, <2>1 DEF Idle
  <2>2. CASE \E pc, m : /\ call'[c] = [call[c] EXCEPT !.pc = pc, !.room = m]
                        /\ Expects(pc) = Expects(call[c].pc)
    <3>1. call'[c].req = call[c].req /\ Expects(call'[c].pc) = Expects(call[c].pc)
      BY <1>1, <2>2 DEF Locals
    <3>2. \A d \in Calls : call'[d].req = call[d].req /\ Expects(call'[d].pc) = Expects(call[d].pc)
      BY <1>1, <3>1
    <3> QED BY <1>3, <1>4, <1>9, <3>2
  <2>3. CASE call'[c] = [call[c] EXCEPT !.pc = "insertRoom"] /\ call[c].pc = "findRoom"
    <3>1. call'[c].req = call[c].req /\ call'[c].pc = "insertRoom"
      BY <1>1, <2>3 DEF Locals
    <3>2. \A d \in Calls : call'[d].req = call[d].req /\ Expects(call'[d].pc) = Expects(call[d].pc)
      BY <1>1, <2>3, <3>1
    <3> QED BY <1>3, <1>4, <1>9, <3>2
  <2>4. Expects("saveAccepted") = Expects("findRoom") /\ Expects("saveAccepted") = Expects("insertRoom")
    OBVIOUS
  <2> QED BY <1>9, <2>1, <2>2, <2>3, <2>4, RoomOfCall DEF FindRoom, InsertRoom
<1>10. CASE StartAccept(c) \/ StartReject(c)
  <2> PICK k \in RequestIds :
        /\ requests[k].status = "pending" /\ requests' = requests /\ greetings' = greetings
        /\ call'[c].req = k /\ call'[c].pc \in {"findRoom", "saveRejected"}
        /\ Together("response", Responding(k, c))
    BY <1>1, <1>10 DEF StartAccept, StartReject, Reads
  <2>1. \A d \in Calls \ {c} : call[d].req # k
    BY DEF Together, Responding
  <2>2. \A d \in Calls : call'[d].req # None =>
           /\ \A e \in Calls : call'[e].req = call'[d].req => e = d
           /\ greetings'[call'[d].req] = 0
           /\ requests'[call'[d].req].status \in Expects(call'[d].pc)
    BY <1>1, <1>3, <2>1
  <2> QED BY <1>3, <1>4, <2>2
<1>11. CASE InsertRequest(c)
  <2> PICK n \in RequestIds :
        /\ requests[n].status = "unused"
        /\ requests' = [requests EXCEPT ![n] = [status |-> "pending", from |-> call[c].from,
                                                to |-> call[c].to, text |-> call[c].text,
                                                room |-> None]]
    BY <1>11 DEF InsertRequest
  <2>1. /\ requests'[n].status = "pending" /\ requests'[n].room = None
        /\ \A k \in RequestIds \ {n} : requests'[k] = requests[k]
        /\ greetings' = greetings /\ call'[c] = Idle
    BY <1>1, <1>11 DEF InsertRequest, Done
  <2>2. \A d \in Calls : call'[d].req # None =>
          d # c /\ call'[d] = call[d] /\ call[d].req # n /\ call[d].req \in RequestIds
    BY <1>1, <2>1 DEF Idle, CallsConsistent, CallConsistent, TypeOK, Locals
  <2>3. \A d \in Calls : call'[d].req # None =>
           /\ \A e \in Calls : call'[e].req = call'[d].req => e = d
           /\ greetings'[call'[d].req] = 0
           /\ requests'[call'[d].req].status \in Expects(call'[d].pc)
    BY <1>3, <2>1, <2>2
  <2>4. \A k \in RequestIds : requests'[k].status \in {"unused", "pending", "rejected"} => Fresh(k)'
    BY <1>3, <2>1
  <2> QED BY <1>3, <1>4, <2>1, <2>3, <2>4
<1>12. ASSUME call[c].pc \in {"saveAccepted", "greet", "post", "saveRejected"}
       PROVE  /\ call[c].req \in RequestIds /\ greetings[call[c].req] = 0
              /\ requests[call[c].req].status \in Expects(call[c].pc)
              /\ \A d \in Calls \ {c} : call[d].req # call[c].req
              /\ \A d \in Calls : call[d].req # None => call[d].req \in RequestIds
  <2>1. call[c].req # None
    BY <1>1, <1>12 DEF CallConsistent
  <2>2. \A d \in Calls : call[d].req # None => call[d].req \in RequestIds
    BY DEF TypeOK, Locals
  <2> QED BY <1>1, <1>3, <2>1, <2>2
<1>13. ASSUME NEW k \in RequestIds, k = call[c].req, NEW l, requests' = [requests EXCEPT ![k] = l],
              call[c].pc \in {"saveAccepted", "saveRejected"}, greetings' = greetings,
              \/ l.status = "accepted" /\ (Goes(c, "greet") \/ Done(c))
              \/ l.status = "rejected" /\ l.room = requests[k].room /\ Done(c),
              requests[k].status = "pending"
       PROVE  /\ ResponseDecisions' /\ AnsweredOnce'
              /\ \A j \in RequestIds : requests[j].status \in {"accepted", "rejected"}
                         => requests'[j].status \in {requests[j].status, "deleted"}
  <2>1. requests'[k] = l /\ \A j \in RequestIds \ {k} : requests'[j] = requests[j]
    BY <1>1, <1>13
  <2>2. Fresh(k)
    BY <1>3, <1>13
  <2>3. \A j \in RequestIds : requests'[j].status \in {"unused", "pending", "rejected"} => Fresh(j)'
    BY <1>3, <1>13, <2>1, <2>2
  <2>4. \A d \in Calls \ {c} : call'[d] = call[d] /\ call[d].req # k
                              /\ (call[d].req # None => call[d].req \in RequestIds)
    BY <1>1, <1>12, <1>13
  <2>5. \/ call'[c].req = None
        \/ call'[c].req = k /\ call'[c].pc = "greet" /\ l.status = "accepted"
    BY <1>1, <1>13 DEF Goes, Done, Idle, Locals
  <2>6. \A d \in Calls : call'[d].req # None =>
           /\ \A e \in Calls : call'[e].req = call'[d].req => e = d
           /\ greetings'[call'[d].req] = 0
           /\ requests'[call'[d].req].status \in Expects(call'[d].pc)
    BY <1>3, <1>13, <2>1, <2>2, <2>4, <2>5
  <2>7. ResponseDecisions' /\ AnsweredOnce'
    BY <1>3, <1>4, <1>13, <2>3, <2>6
  <2> QED BY <1>13, <2>1, <2>7
<1>14. CASE SaveAccepted(c)
  <2> DEFINE k == call[c].req
  <2>1. k \in RequestIds /\ requests[k].status \in {"pending", "deleted"} /\ call[c].pc = "saveAccepted"
    BY <1>12, <1>14 DEF SaveAccepted
  <2>2. CASE requests[k].status = "deleted"
    BY <1>7, <1>14, <2>2 DEF SaveAccepted
  <2>3. CASE requests[k].status = "pending"
    <3> DEFINE l == [requests[k] EXCEPT !.status = "accepted", !.room = call[c].room]
    <3>1. l.status = "accepted"
      BY <1>1, <2>1 DEF ChatRequest
    <3>2. /\ requests' = [requests EXCEPT ![k] = l] /\ greetings' = greetings
          /\ Goes(c, "greet") \/ Done(c)
      BY <1>1, <1>14, <2>1, <2>3 DEF SaveAccepted, ChatRequest
    <3> HIDE DEF l
    <3> QED BY <1>13, <2>1, <2>3, <3>1, <3>2
  <2> QED BY <2>1, <2>2, <2>3
<1>15. CASE SaveRejected(c)
  <2> DEFINE k == call[c].req
  <2>1. k \in RequestIds /\ requests[k].status \in {"pending", "deleted"} /\ call[c].pc = "saveRejected"
    BY <1>12, <1>15 DEF SaveRejected
  <2>2. CASE requests[k].status = "deleted"
    BY <1>7, <1>15, <2>2 DEF SaveRejected
  <2>3. CASE requests[k].status = "pending"
    <3> DEFINE l == [requests[k] EXCEPT !.status = "rejected"]
    <3>1. l.status = "rejected" /\ l.room = requests[k].room
      BY <1>1, <2>1 DEF ChatRequest
    <3>2. requests' = [requests EXCEPT ![k] = l] /\ greetings' = greetings /\ Done(c)
      BY <1>1, <1>15, <2>1, <2>3 DEF SaveRejected, ChatRequest
    <3> HIDE DEF l
    <3> QED BY <1>13, <2>1, <2>3, <3>1, <3>2
  <2> QED BY <2>1, <2>2, <2>3
<1>16. CASE Post(c)
  <2> DEFINE k == call[c].req
  <2>1. /\ k \in RequestIds /\ greetings[k] = 0 /\ requests[k].status \in {"accepted", "deleted"}
        /\ \A d \in Calls \ {c} : call[d].req # k
        /\ \A d \in Calls : call[d].req # None => call[d].req \in RequestIds
    BY <1>12, <1>16 DEF Post
  <2>2. /\ greetings'[k] = 1 /\ \A j \in RequestIds \ {k} : greetings'[j] = greetings[j]
        /\ requests' = requests /\ call'[c].req = None
    BY <1>1, <1>16, <2>1 DEF Post, Done, Idle
  <2>3. \A d \in Calls : call'[d].req # None => d # c /\ call'[d] = call[d]
    BY <1>1, <2>2
  <2>4. \A d \in Calls : call'[d].req # None =>
           /\ \A e \in Calls : call'[e].req = call'[d].req => e = d
           /\ greetings'[call'[d].req] = 0
           /\ requests'[call'[d].req].status \in Expects(call'[d].pc)
    BY <1>3, <2>1, <2>2, <2>3
  <2>5. \A j \in RequestIds : requests'[j].status \in {"unused", "pending", "rejected"} => Fresh(j)'
    BY <1>3, <2>1, <2>2
  <2>6. \A j \in RequestIds : greetings'[j] <= 1
    BY <1>3, <2>2
  <2> QED BY <1>4, <2>2, <2>4, <2>5, <2>6
<1>17. CASE Purge(c)
  <2>1. \A k \in RequestIds : /\ requests'[k].room = requests[k].room
                              /\ requests'[k].status \in {requests[k].status, "deleted"}
    BY <1>1, <1>17 DEF Purge, ChatRequest
  <2>2. greetings' = greetings /\ call'[c].req = None
    BY <1>1, <1>17 DEF Purge, Goes, Locals, CallConsistent
  <2>3. \A d \in Calls : call'[d].req # None =>
          d # c /\ call'[d] = call[d] /\ call[d].req \in RequestIds
    BY <1>1, <2>2 DEF TypeOK, Locals
  <2>4. \A d \in Calls : call'[d].req # None =>
           /\ \A e \in Calls : call'[e].req = call'[d].req => e = d
           /\ greetings'[call'[d].req] = 0
           /\ requests'[call'[d].req].status \in Expects(call'[d].pc)
    BY <1>3, <2>1, <2>2, <2>3
  <2>5. \A j \in RequestIds : requests'[j].status \in {"unused", "pending", "rejected"} => Fresh(j)'
    BY <1>3, <2>1, <2>2
  <2> QED BY <1>3, <1>4, <2>1, <2>2, <2>4, <2>5
<1>18. CASE CheckPending(c)
  <2>1. CASE Goes(c, "insertRequest")
    BY <1>8, <1>18, <2>1 DEF CheckPending
  <2> QED BY <1>7, <1>18, <2>1 DEF CheckPending
<1>19. CASE Greet(c)
  <2>1. CASE Goes(c, "post")
    BY <1>8, <1>19, <2>1 DEF Greet
  <2> QED BY <1>7, <1>19, <2>1 DEF Greet
<1>20. CASE Pull(c) \/ CallFails(c)
  BY <1>7, <1>20 DEF Pull, CallFails
<1>21. CASE FindRoom(c) \/ InsertRoom(c)
  BY <1>9, <1>21 DEF FindRoom, InsertRoom
<1>22. \/ \A k \in RequestIds : requests'[k] = requests[k]
       \/ InsertRequest(c) \/ SaveAccepted(c) \/ SaveRejected(c) \/ Purge(c)
  BY DEF Step, StartSend, CheckPending, StartCreate, FindRoom, InsertRoom, StartAccept, Greet, Post,
     StartReject, StartLeave, Pull, CallFails
<1> QED
  BY <1>1, <1>6, <1>10, <1>11, <1>14, <1>15, <1>16, <1>17, <1>18, <1>19, <1>20, <1>21, <1>22 DEF Step

-----------------------------------------------------------------------------
(* Texts *)

(* What takes a call out of the acceptance that holds the text. *)
LEMMA HolderMoves ==
    ASSUME TypeOK, CallsConsistent, NEW c \in Calls, Step(c), call[c].pc \in {"greet", "post"},
           "failure" \notin mishaps'
    PROVE  Greet(c) \/ Post(c)
<1>1. ~CallFails(c)
  BY DEF CallFails
<1> QED BY <1>1 DEF Step, StartSend, CheckPending, InsertRequest, StartCreate, FindRoom, InsertRoom,
        StartAccept, SaveAccepted, StartReject, SaveRejected, StartLeave, Purge, Pull, Arrives

LEMMA MishapsStay ==
    ASSUME NEW c \in Calls, Step(c) PROVE mishaps \subseteq mishaps'
  BY DEF Together, Step, StartSend, CheckPending, InsertRequest, StartCreate, FindRoom, InsertRoom,
     StartAccept, SaveAccepted, Greet, Post, StartReject, SaveRejected, StartLeave, Purge, Pull,
     CallFails

(* Messages and the memory of a room only grow. *)
LEMMA TracesGrow ==
    ASSUME TypeOK, CallsConsistent, NEW c \in Calls, Step(c)
    PROVE  /\ \A k \in RequestIds : greetings[k] > 0 => greetings'[k] > 0
           /\ \A m \in RoomIds : rooms[m].former \subseteq rooms'[m].former
<1>1. /\ greetings \in [RequestIds -> Nat] /\ rooms \in [RoomIds -> ChatRoom]
      /\ call[c] \in Locals /\ CallConsistent(c)
  BY DEF TypeOK, CallsConsistent
<1>2. \A k \in RequestIds : greetings[k] > 0 => greetings'[k] > 0
  <2>1. CASE Post(c)
    BY <1>1, <2>1 DEF Post
  <2> QED BY <2>1 DEF Step, StartSend, CheckPending, InsertRequest, StartCreate, FindRoom,
          InsertRoom, StartAccept, SaveAccepted, Greet, StartReject, SaveRejected, StartLeave,
          Purge, Pull, CallFails
<1>3. \A m \in RoomIds : rooms[m].former \subseteq rooms'[m].former
  <2>1. CASE InsertRoom(c)
    <3> PICK n \in RoomIds :
          rooms[n] = NoRoom /\ rooms' = [rooms EXCEPT ![n] = [members |-> Pair(c), former |-> {}]]
      BY <2>1 DEF InsertRoom
    <3>1. rooms[n].former = {} /\ \A m \in RoomIds \ {n} : rooms'[m] = rooms[m]
      BY <1>1 DEF NoRoom
    <3> QED BY <3>1
  <2>2. CASE Pull(c)
    BY <1>1, <2>2 DEF Pull, ChatRoom
  <2>3. CASE UNCHANGED rooms
    BY <2>3
  <2> QED BY <2>1, <2>2, <2>3 DEF Step, StartSend, CheckPending, InsertRequest, StartCreate,
          FindRoom, StartAccept, SaveAccepted, Greet, Post, StartReject, SaveRejected, StartLeave,
          Purge, CallFails
<1> QED BY <1>2, <1>3

LEMMA TextsStep ==
    ASSUME TypeOK, CallsConsistent, AcceptedHasRoom, TextsInHand, NEW c \in Calls, Step(c)
    PROVE  TextsInHand'
<1>1. /\ requests \in [RequestIds -> ChatRequest] /\ greetings \in [RequestIds -> Nat]
      /\ call \in [Calls -> Locals] /\ call[c] \in Locals /\ CallConsistent(c)
      /\ \A d \in Calls \ {c} : call'[d] = call[d]
  BY OwnLocals DEF TypeOK, CallsConsistent
<1> SUFFICES ASSUME "failure" \notin mishaps', NEW k \in RequestIds,
                    requests'[k].status = "accepted", requests'[k].text
             PROVE  InHand(k)'
  BY DEF TextsInHand
<1>2. CASE SaveAccepted(c) /\ k = call[c].req /\ requests'[k].room = call[c].room
           /\ requests'[k].text = call[c].text /\ requests[k].status # "deleted"
  <2>1. Goes(c, "greet")
    BY <1>2 DEF SaveAccepted
  <2>2. call'[c].req = k /\ call'[c].pc = "greet" /\ call'[c].room = requests'[k].room
    BY <1>1, <1>2, <2>1 DEF Goes, Locals
  <2> QED BY <2>2 DEF InHand
<1>3. CASE requests[k].status = "accepted" /\ requests'[k] = requests[k]
  <2>1. InHand(k)
    BY <1>3, MishapsStay DEF TextsInHand
  <2>2. requests[k].room \in RoomIds
    BY <1>1, <1>3 DEF AcceptedHasRoom, ChatRequest
  <2>3. CASE greetings[k] > 0 \/ requests[k].from \in rooms[requests[k].room].former
    BY <1>3, <2>2, <2>3, TracesGrow DEF InHand
  <2>4. ASSUME NEW d \in Calls, call[d].req = k, call[d].pc \in {"greet", "post"},
               call[d].room = requests[k].room
        PROVE  InHand(k)'
    <3>1. CASE d # c
      BY <1>1, <1>3, <2>4, <3>1 DEF InHand
    <3>2. CASE d = c /\ Post(c)
      <4>1. greetings'[k] > 0
        BY <1>1, <2>4, <3>2 DEF Post
      <4> QED BY <4>1 DEF InHand
    <3>3. CASE d = c /\ Greet(c)
      <4>1. CASE Goes(c, "post")
        <5>1. call'[c].req = k /\ call'[c].pc = "post" /\ call'[c].room = requests'[k].room
          BY <1>1, <1>3, <2>4, <3>3, <4>1 DEF Goes, Locals
        <5> QED BY <5>1 DEF InHand
      <4>2. CASE call[c].from \notin rooms[call[c].room].members
        <5>1. call[c].from = requests[k].from /\ call[c].room = requests[k].room
          BY <1>1, <2>4, <3>3, IdsAssumption DEF CallConsistent
        <5>2. requests[k].from \in rooms[requests[k].room].former
          BY <1>1, <2>4, <3>3, <4>2, <5>1 DEF CallConsistent, Holds
        <5>3. rooms' = rooms
          BY <3>3 DEF Greet
        <5> QED BY <1>3, <5>2, <5>3 DEF InHand
      <4> QED BY <3>3, <4>1, <4>2 DEF Greet
    <3> QED BY <2>4, <3>1, <3>2, <3>3, HolderMoves
  <2> QED BY <2>1, <2>3, <2>4 DEF InHand
<1> QED BY <1>2, <1>3, AcceptedFrom

-----------------------------------------------------------------------------
LEMMA ChatStep == ChatInv /\ [Next]_vars => ChatInv'
<1> SUFFICES ASSUME ChatInv, [Next]_vars PROVE ChatInv'
  OBVIOUS
<1>1. CASE Next
  <2> PICK c \in Calls : Step(c)
    BY <1>1 DEF Next
  <2> QED BY TypeStep, ConsistentStep, AcceptedStep, RoomStep, PendingStep, ResponseStep, TextsStep
         DEF ChatInv
<1>2. CASE UNCHANGED vars
  <2> USE <1>2 DEF vars
  <2>1. TypeOK' /\ AcceptedHasRoom'
    BY DEF ChatInv, TypeOK, AcceptedHasRoom
  <2>6. OneRoomUnlessOverlap'
    BY DEF ChatInv, OneRoomUnlessOverlap
  <2>7. OnePendingUnlessOverlap'
    BY DEF ChatInv, OnePendingUnlessOverlap
  <2>2. CallsConsistent'
    BY DEF ChatInv, CallsConsistent, CallConsistent, RequestsConsistent, Holds
  <2>3. RoomDecisions'
    BY DEF ChatInv, RoomDecisions, Pair
  <2>4. PendingDecisions'
    BY DEF ChatInv, PendingDecisions, Pair
  <2>5. ResponseDecisions' /\ AnsweredOnce'
    BY DEF ChatInv, ResponseDecisions, AnsweredOnce
  <2>8. TextsInHand'
    BY DEF ChatInv, TextsInHand, InHand
  <2> QED BY <2>1, <2>2, <2>3, <2>4, <2>5, <2>6, <2>7, <2>8 DEF ChatInv
<1> QED BY <1>1, <1>2

(* What holds of every reachable state of the requests and the rooms. *)
THEOREM ChatInvariant == Spec => []ChatInv
  BY InitInv, ChatStep, PTL DEF Spec

(* An accepted request names a room of its two members, however its
   acceptance interleaves with other calls, failures and deletions. *)
THEOREM RoomForAccepted == Spec => []AcceptedHasRoom
<1>1. ChatInv => AcceptedHasRoom
  BY DEF ChatInv
<1> QED BY <1>1, ChatInvariant, PTL

(* One room for two members, unless two searches missed it together. *)
THEOREM OneRoom == Spec => []OneRoomUnlessOverlap
<1>1. ChatInv => OneRoomUnlessOverlap
  BY DEF ChatInv
<1> QED BY <1>1, ChatInvariant, PTL

(* One pending request of two members in either direction, unless two checks
   for one missed it together. *)
THEOREM OnePending == Spec => []OnePendingUnlessOverlap
<1>1. ChatInv => OnePendingUnlessOverlap
  BY DEF ChatInv
<1> QED BY <1>1, ChatInvariant, PTL

(* One answer, one message: unless two responses read the request together. *)
THEOREM OneAnswer == Spec => []AnsweredOnce
<1>1. ChatInv => AnsweredOnce
  BY DEF ChatInv
<1> QED BY <1>1, ChatInvariant, PTL

(* An answer stands, under the same condition. *)
THEOREM AnswerKept == Spec => AnswerStandsUnlessOverlap
<1> DEFINE Stands == \A k \in RequestIds :
             "response" \notin mishaps' /\ requests[k].status \in {"accepted", "rejected"}
               => requests'[k].status \in {requests[k].status, "deleted"}
<1>1. ChatInv /\ [Next]_vars => [Stands]_vars
  <2> SUFFICES ASSUME ChatInv, Next PROVE Stands
    OBVIOUS
  <2> PICK c \in Calls : Step(c)
    BY DEF Next
  <2> QED BY ResponseStep DEF ChatInv
<1> QED BY <1>1, ChatInvariant, PTL DEF Spec, AnswerStandsUnlessOverlap

(* The text of an accepted request is not lost unless the acceptance fails
   after its request is saved. *)
THEOREM GreetingKept == Spec => []GreetingArrivesUnlessFailed
<1>1. ChatInv => GreetingArrivesUnlessFailed
  BY DEF ChatInv, GreetingArrivesUnlessFailed, TextsInHand, InHand, Working
<1> QED BY <1>1, ChatInvariant, PTL

-----------------------------------------------------------------------------
(* The calls implement operations that look and write at once *)

(* The room of an acceptance stays in its request, answered again or deleted. *)
LEMMA RoomStaysNamed ==
    ASSUME TypeOK, CallsConsistent, NEW c \in Calls, Step(c),
           NEW k \in RequestIds, requests[k].status # "unused", requests[k].room # None
    PROVE  requests'[k].room # None
<1>1. /\ requests \in [RequestIds -> ChatRequest] /\ call[c] \in Locals /\ CallConsistent(c)
  BY DEF TypeOK, CallsConsistent
<1>2. CASE InsertRequest(c)
  BY <1>1, <1>2 DEF InsertRequest
<1>3. CASE SaveAccepted(c)
  <2>1. call[c].req \in RequestIds /\ call[c].room # None
    BY <1>1, <1>3 DEF SaveAccepted, CallConsistent, Locals
  <2>2. requests[k] \in ChatRequest
    BY <1>1
  <2> QED BY <1>1, <1>3, <2>1, <2>2 DEF SaveAccepted, ChatRequest
<1>4. CASE SaveRejected(c)
  BY <1>1, <1>4 DEF SaveRejected, ChatRequest
<1>5. CASE Purge(c)
  BY <1>1, <1>5 DEF Purge, ChatRequest
<1>6. CASE UNCHANGED requests
  BY <1>6
<1> QED BY <1>2, <1>3, <1>4, <1>5, <1>6 DEF Step, StartSend, CheckPending, StartCreate, FindRoom,
        InsertRoom, StartAccept, Greet, Post, StartReject, StartLeave, Pull, CallFails

(* Only a saved acceptance brings a call to the greeting. *)
LEMMA EntersGreeting ==
    ASSUME TypeOK, NEW c \in Calls, Step(c), call'[c].pc \in {"greet", "post"}
    PROVE  /\ \/ SaveAccepted(c) /\ call[c].text /\ requests[call[c].req].status # "deleted"
              \/ Greet(c)
           /\ call'[c].text = call[c].text /\ call'[c].req = call[c].req
<1>1. call \in [Calls -> Locals] /\ call[c] \in Locals
  BY DEF TypeOK
<1>2. ~Done(c)
  BY <1>1 DEF Done, Idle
<1>3. \A pc : Goes(c, pc) => /\ pc \in {"greet", "post"}
                             /\ call'[c].text = call[c].text /\ call'[c].req = call[c].req
  BY <1>1 DEF Goes, Locals
<1>4. ASSUME NEW m \in RoomIds, HasRoom(c, m) PROVE FALSE
  <2>1. call'[c] = IF call[c].op = "accept"
                   THEN [call[c] EXCEPT !.pc = "saveAccepted", !.room = m] ELSE Idle
    BY <1>1, <1>4 DEF HasRoom
  <2> QED BY <1>1, <2>1 DEF Idle, Locals
<1>5. CASE SaveAccepted(c)
  BY <1>2, <1>3, <1>5 DEF SaveAccepted
<1>6. CASE Greet(c)
  BY <1>2, <1>3, <1>6 DEF Greet
<1>7. CASE StartSend(c) \/ StartCreate(c) \/ StartLeave(c)
  BY <1>1, <1>7 DEF StartSend, StartCreate, StartLeave, Idle
<1>8. CASE StartAccept(c) \/ StartReject(c)
  BY <1>1, <1>8 DEF StartAccept, StartReject, Reads
<1>9. CASE FindRoom(c) \/ InsertRoom(c)
  BY <1>3, <1>4, <1>9 DEF FindRoom, InsertRoom, Shared
<1>10. CASE CheckPending(c) \/ Purge(c)
  BY <1>2, <1>3, <1>10 DEF CheckPending, Purge
<1> QED BY <1>2, <1>5, <1>6, <1>7, <1>8, <1>9, <1>10 DEF Step, InsertRequest, Post, SaveRejected,
        Pull, CallFails

LEMMA GreetsStep == ChatInv /\ GreetsKnown /\ [Next]_vars => GreetsKnown'
<1> SUFFICES ASSUME ChatInv, GreetsKnown, [Next]_vars PROVE GreetsKnown'
  OBVIOUS
<1>t. TypeOK /\ CallsConsistent
  BY DEF ChatInv
<1>1. CASE Next
  <2> PICK c \in Calls : Step(c)
    BY <1>1 DEF Next
  <2> SUFFICES ASSUME NEW d \in Calls, call'[d].pc \in {"greet", "post"}
               PROVE  call'[d].text /\ requests'[call'[d].req].room # None
    BY DEF GreetsKnown
  <2>1. ASSUME call[d].pc \in {"greet", "post"}, call'[d].req = call[d].req
        PROVE  requests'[call'[d].req].room # None
    <3>1. call[d].req \in RequestIds /\ requests[call[d].req].status # "unused"
      BY <1>t, <2>1 DEF TypeOK, CallsConsistent, CallConsistent, Locals
    <3> QED BY <1>t, <2>1, <3>1, RoomStaysNamed DEF GreetsKnown
  <2>2. CASE d # c
    BY <1>t, <2>1, <2>2, OwnLocals DEF GreetsKnown
  <2>3. CASE d = c /\ Greet(c)
    <3>1. call'[c].text = call[c].text /\ call'[c].req = call[c].req
      BY <1>t, <2>3, EntersGreeting
    <3> QED BY <2>1, <2>3, <3>1 DEF Greet, GreetsKnown
  <2>4. CASE d = c /\ SaveAccepted(c) /\ call[c].text /\ requests[call[c].req].status # "deleted"
    <3>1. call'[c].text = call[c].text /\ call'[c].req = call[c].req
      BY <1>t, <2>4, EntersGreeting
    <3>2. call[c].req \in RequestIds /\ call[c].room # None
      BY <1>t, <2>4 DEF SaveAccepted, TypeOK, CallsConsistent, CallConsistent, Locals
    <3>3. requests'[call[c].req].room = call[c].room
      BY <1>t, <2>4, <3>2 DEF SaveAccepted, TypeOK, ChatRequest
    <3> QED BY <2>4, <3>1, <3>2, <3>3
  <2> QED BY <1>t, <2>2, <2>3, <2>4, EntersGreeting
<1>2. CASE UNCHANGED vars
  BY <1>2 DEF vars, GreetsKnown
<1> QED BY <1>1, <1>2

LEMMA GreetsAlways == Spec => [](ChatInv /\ GreetsKnown)
<1>1. Init => GreetsKnown
  BY DEF Init, GreetsKnown, Idle
<1> QED BY <1>1, GreetsStep, ChatInvariant, PTL DEF Spec

(* Every step is one operation of Introductions, or leaves the documents alone. *)
AtOnceStep == AtOnce!Next \/ UNCHANGED <<requests, rooms, greetings, mishaps>>

LEMMA OverlapMaps ==
    ASSUME UNCHANGED <<requests, rooms, greetings>>, NEW kind \in Mishaps,
           mishaps' \in {mishaps, mishaps \cup {kind}}
    PROVE  AtOnceStep
<1>1. CASE mishaps' = mishaps
  BY <1>1 DEF AtOnceStep
<1>2. CASE mishaps' = mishaps \cup {kind}
  BY <1>2 DEF AtOnceStep, AtOnce!Next, AtOnce!Overlap, Mishaps
<1> QED BY <1>1, <1>2

LEMMA QueriesMap ==
    ASSUME NEW c \in Calls,
           \/ StartSend(c) \/ CheckPending(c) \/ StartCreate(c) \/ FindRoom(c) \/ StartAccept(c)
           \/ Greet(c) \/ StartReject(c) \/ StartLeave(c) \/ CallFails(c)
    PROVE  AtOnceStep
<1>1. CASE StartSend(c) \/ StartCreate(c) \/ Greet(c) \/ StartLeave(c)
  BY <1>1 DEF StartSend, StartCreate, Greet, StartLeave, AtOnceStep
<1>2. CASE CheckPending(c)
  BY <1>2, OverlapMaps DEF CheckPending, Together, Mishaps
<1>3. CASE FindRoom(c)
  BY <1>3, OverlapMaps DEF FindRoom, Together, Mishaps
<1>4. CASE StartAccept(c) \/ StartReject(c)
  BY <1>4, OverlapMaps DEF StartAccept, StartReject, Together, Mishaps
<1>5. CASE CallFails(c)
  BY <1>5, OverlapMaps DEF CallFails, Mishaps
<1> QED BY <1>1, <1>2, <1>3, <1>4, <1>5

LEMMA InsertionsMap ==
    ASSUME ChatInv, NEW c \in Calls, InsertRequest(c) \/ InsertRoom(c)
    PROVE  AtOnceStep
<1>t. /\ call[c] \in Locals /\ CallConsistent(c) /\ call[c].text \in BOOLEAN
      /\ PendingDecisions /\ RoomDecisions
  BY DEF ChatInv, TypeOK, CallsConsistent, Locals
<1>1. CASE InsertRequest(c)
  <2>1. call[c].from \in Users /\ call[c].to \in Users
    BY <1>1, <1>t DEF InsertRequest, CallConsistent
  <2>2. PICK k \in RequestIds :
          /\ requests[k].status = "unused"
          /\ requests' = [requests EXCEPT ![k] = [status |-> "pending", from |-> call[c].from,
                                                  to |-> call[c].to, text |-> call[c].text,
                                                  room |-> None]]
    BY <1>1 DEF InsertRequest
  <2>3. AtOnce!Guards("request", \A l \in RequestIds : requests[l].status = "pending" =>
                          {requests[l].from, requests[l].to} # {call[c].from, call[c].to})
    BY <1>1, <1>t DEF InsertRequest, PendingDecisions, Pair, AtOnce!Guards
  <2>4. AtOnce!Ask(k, call[c].from, call[c].to, call[c].text)
    BY <1>1, <2>2, <2>3 DEF InsertRequest, AtOnce!Ask
  <2> QED BY <1>t, <2>1, <2>4 DEF AtOnceStep, AtOnce!Next
<1>2. CASE InsertRoom(c)
  <2>1. call[c].from \in Users /\ call[c].to \in Users
    BY <1>2, <1>t DEF InsertRoom, CallConsistent
  <2>2. PICK m \in RoomIds :
          /\ rooms[m] = NoRoom
          /\ rooms' = [rooms EXCEPT ![m] = [members |-> Pair(c), former |-> {}]]
    BY <1>2 DEF InsertRoom
  <2>3. AtOnce!Guards("room", call[c].from # call[c].to =>
            \A n \in RoomIds : ~({call[c].from, call[c].to} \subseteq rooms[n].members))
    BY <1>2, <1>t DEF InsertRoom, RoomDecisions, Pair, AtOnce!Guards
  <2>4. AtOnce!Open(m, call[c].from, call[c].to)
    BY <1>2, <2>2, <2>3 DEF InsertRoom, AtOnce!Open, NoRoom, Pair
  <2> QED BY <2>1, <2>4 DEF AtOnceStep, AtOnce!Next
<1> QED BY <1>1, <1>2

LEMMA AnswersMap ==
    ASSUME ChatInv, GreetsKnown, NEW c \in Calls,
           SaveAccepted(c) \/ SaveRejected(c) \/ Post(c)
    PROVE  AtOnceStep
<1> DEFINE k == call[c].req
<1>1. /\ requests \in [RequestIds -> ChatRequest] /\ call[c] \in Locals
      /\ CallConsistent(c) /\ ResponseDecisions
  BY DEF ChatInv, TypeOK, CallsConsistent
<1>2. k \in RequestIds /\ k # None /\ requests[k].status \in Statuses \ {"unused"}
  BY <1>1 DEF SaveAccepted, SaveRejected, Post, CallConsistent, Locals, ChatRequest
<1>3. "response" \notin mishaps =>
        /\ greetings[k] = 0
        /\ requests[k].status \in {IF call[c].pc \in {"greet", "post"} THEN "accepted" ELSE "pending",
                                   "deleted"}
  BY <1>1, <1>2 DEF ResponseDecisions
<1>4. ASSUME call[c].pc \in {"saveAccepted", "saveRejected"}, requests[k].status # "deleted"
      PROVE  AtOnce!Answerable(k)
  BY <1>2, <1>3, <1>4 DEF Statuses, AtOnce!Answerable, AtOnce!Guards
<1>5. CASE (SaveAccepted(c) \/ SaveRejected(c)) /\ requests[k].status = "deleted"
  BY <1>5 DEF SaveAccepted, SaveRejected, AtOnceStep
<1>6. CASE SaveAccepted(c) /\ requests[k].status # "deleted"
  <2>1. call[c].room \in RoomIds /\ Holds(call[c].room, call[c].from, call[c].to)
    BY <1>1, <1>6 DEF SaveAccepted, CallConsistent, Locals
  <2>2. {requests[k].from, requests[k].to} \subseteq
           rooms[call[c].room].members \cup rooms[call[c].room].former
    BY <1>1, <1>2, <2>1 DEF CallConsistent, Holds
  <2>3. AtOnce!Accept(k, call[c].room)
    BY <1>4, <1>6, <2>2 DEF SaveAccepted, AtOnce!Accept
  <2> QED BY <1>2, <2>1, <2>3 DEF AtOnceStep, AtOnce!Next
<1>7. CASE SaveRejected(c) /\ requests[k].status # "deleted"
  <2>1. AtOnce!Reject(k)
    BY <1>4, <1>7 DEF SaveRejected, AtOnce!Reject
  <2> QED BY <1>2, <2>1 DEF AtOnceStep, AtOnce!Next
<1>8. CASE Post(c)
  <2>1. call[c].text /\ requests[k].room # None
    BY <1>8 DEF Post, GreetsKnown
  <2>2. requests[k].text
    BY <1>1, <1>2, <2>1 DEF CallConsistent
  <2>3. AtOnce!Guards("response", greetings[k] = 0 /\ requests[k].status \in {"accepted", "deleted"})
    BY <1>3, <1>8 DEF Post, AtOnce!Guards
  <2>4. AtOnce!Greet(k)
    BY <1>8, <2>1, <2>2, <2>3 DEF Post, AtOnce!Greet
  <2> QED BY <1>2, <2>4 DEF AtOnceStep, AtOnce!Next
<1> QED BY <1>5, <1>6, <1>7, <1>8

LEMMA DeletionMaps ==
    ASSUME ChatInv, NEW c \in Calls, Purge(c) \/ Pull(c)
    PROVE  AtOnceStep
<1>1. call[c].from \in Users
  BY DEF ChatInv, CallsConsistent, CallConsistent, Purge, Pull
<1>2. CASE Purge(c)
  BY <1>1, <1>2 DEF Purge, AtOnceStep, AtOnce!Next, AtOnce!Forget
<1>3. CASE Pull(c)
  BY <1>1, <1>3 DEF Pull, AtOnceStep, AtOnce!Next, AtOnce!Leave
<1> QED BY <1>2, <1>3

(* The chat requests and rooms, worked on by any number of calls at once that
   look and write in separate steps (sendChatRequest, createChatRoom,
   acceptChatRequest, rejectChatRequest, createMessage, deleteAccount), move
   as if every operation looked and wrote at once; only a guard of a kind that
   has overlapped is out of force. *)
THEOREM Implementation == Spec => ImplementsIntroductions
<1>1. Init => AtOnce!Init
  BY DEF Init, AtOnce!Init, NoRequest, NoRoom
<1>2. ChatInv /\ GreetsKnown /\ [Next]_vars => [AtOnce!Next]_(AtOnce!introductionVars)
  <2> SUFFICES ASSUME ChatInv, GreetsKnown, [Next]_vars PROVE AtOnceStep
    BY DEF AtOnceStep, AtOnce!introductionVars
  <2>1. CASE UNCHANGED vars
    BY <2>1 DEF vars, AtOnceStep
  <2>2. CASE Next
    BY <2>2, QueriesMap, InsertionsMap, AnswersMap, DeletionMaps DEF Next, Step
  <2> QED BY <2>1, <2>2
<1> QED BY <1>1, <1>2, GreetsAlways, PTL DEF Spec, ImplementsIntroductions, AtOnce!Spec

=============================================================================
