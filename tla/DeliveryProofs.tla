--------------------------- MODULE DeliveryProofs ---------------------------
(***************************************************************************)
(* DeliveryInv is inductive, for any sockets, messages, devices, tokens,   *)
(* notices and attempts: first the room and its messages, then the pushes, *)
(* then what relates the two.                                              *)
(***************************************************************************)
EXTENDS Delivery, TLAPS

USE MessagesAssumption, PushAssumption, DeliveryAssumption

-----------------------------------------------------------------------------
(* The room and its messages.  The invariant falls into what is about sockets
   and what is about messages; few steps touch both. *)

SocketParts == PresenceCurrent /\ ConnectionsCurrent /\ OnlineHearsUnlessOpening
MessageParts == ReadStaysRead /\ SendsCurrent /\ TouchesApart /\ LastMessageUnlessOverlap

LEMMA MessagesInvParts == MessagesInv <=> MessagesTypeOK /\ SocketParts /\ MessageParts
BY DEF MessagesInv, SocketParts, MessageParts

LEMMA MessagesInvPartsNext == MessagesInv' <=> MessagesTypeOK' /\ SocketParts' /\ MessageParts'
BY DEF MessagesInv, SocketParts, MessageParts

LEMMA NewSocketTyped == NewSocket \in Connection /\ NoMessage \in Message
BY DEF NewSocket, Connection, NoMessage, Message

LEMMA MessagesStart == MessagesInit => MessagesInv
<1> SUFFICES ASSUME MessagesInit PROVE MessagesInv
  OBVIOUS
<1>1. MessagesTypeOK BY NewSocketTyped DEF MessagesInit, MessagesTypeOK
<1>2. \A s \in Sockets : socket[s] = NewSocket /\ ~Connected(s)
  BY DEF MessagesInit, Connected, NewSocket
<1>3. PresenceCurrent BY <1>2 DEF PresenceCurrent, MessagesInit
<1>4. ConnectionsCurrent
  <2>1. ~NewSocket.found BY DEF NewSocket
  <2>2. \A s \in Sockets : ~socket[s].found BY <1>2, <2>1
  <2> QED BY <1>2, <2>2 DEF ConnectionsCurrent
<1>5. OnlineHearsUnlessOpening BY DEF OnlineHearsUnlessOpening, MessagesInit
<1>6. MessageParts
  BY DEF MessageParts, ReadStaysRead, SendsCurrent, TouchesApart, LastMessageUnlessOverlap, SendAt, From,
     Saved, MessagesInit, NoMessage
<1> QED BY <1>1, <1>3, <1>4, <1>5, <1>6, MessagesInvParts DEF SocketParts

(* The other half of the invariant is a matter of what a step leaves alone. *)
LEMMA MessagesUntouched ==
    ASSUME MessageParts, UNCHANGED <<message, send, newest, overlap>>,
           room'.lastMessage = room.lastMessage
    PROVE  MessageParts'
BY DEF MessageParts, ReadStaysRead, SendsCurrent, TouchesApart, LastMessageUnlessOverlap, SendAt, From, Saved

LEMMA SocketsUntouched ==
    ASSUME SocketParts, UNCHANGED <<opening, userSockets, socket, missed>>,
           room'.participants \subseteq room.participants
    PROVE  SocketParts'
BY DEF SocketParts, PresenceCurrent, ConnectionsCurrent, OnlineHearsUnlessOpening, Connected

(* One socket moves on. *)
LEMMA SocketMoves ==
    ASSUME MessagesTypeOK, SocketParts,
           NEW s \in Sockets, NEW k \in Connection, socket' = [socket EXCEPT ![s] = k],
           k.state # "new", k.userId # None,
           k.found => opening # "none",
           UNCHANGED <<opening, room>>,
           missed \subseteq missed',
           opening = "open" /\ k.state = "on" => k.channel # "out" \/ s \in missed',
           \/ /\ Connected(s) /\ k.userId = socket[s].userId
              /\ k.state \in {"find", "join", "on"} /\ userSockets' = userSockets
           \/ /\ Connected(s) /\ k.userId = socket[s].userId /\ k.state = "gone"
              /\ userSockets' = [userSockets EXCEPT ![k.userId] = userSockets[k.userId] \ {s}]
           \/ /\ ~Connected(s) /\ k.state \in {"find", "join", "on"}
              /\ userSockets' = [userSockets EXCEPT ![k.userId] = userSockets[k.userId] \cup {s}]
    PROVE  SocketParts'
<1>1. /\ socket'[s] = k
      /\ \A x \in Sockets : x # s => socket'[x] = socket[x]
  BY DEF MessagesTypeOK
<1>2. k.userId \in Users BY DEF Connection
<1>3. PresenceCurrent'
  <2> SUFFICES ASSUME NEW u \in Users
               PROVE  userSockets'[u] = {x \in Sockets : Connected(x)' /\ socket'[x].userId = u}
    BY DEF PresenceCurrent
  <2>1. userSockets[u] = {x \in Sockets : Connected(x) /\ socket[x].userId = u}
    BY DEF SocketParts, PresenceCurrent
  <2>2. \A x \in Sockets : x # s => (Connected(x)' <=> Connected(x)) /\ socket'[x] = socket[x]
    BY <1>1 DEF Connected
  <2>3. Connected(s)' <=> k.state \in {"find", "join", "on"}
    BY <1>1 DEF Connected
  <2>4. CASE u # k.userId
    <3>1. userSockets'[u] = userSockets[u] BY <2>4, <1>2 DEF MessagesTypeOK
    <3>2. Connected(s) => socket[s].userId # u BY <2>4
    <3> QED BY <3>1, <3>2, <2>1, <2>2, <1>1, <2>4
  <2>5. CASE u = k.userId
    <3>1. CASE Connected(s) /\ k.state \in {"find", "join", "on"} /\ userSockets' = userSockets
               /\ k.userId = socket[s].userId
      BY <3>1, <2>1, <2>2, <2>3, <1>1, <2>5
    <3>2. CASE k.state = "gone" /\ userSockets' = [userSockets EXCEPT ![k.userId] = userSockets[k.userId] \ {s}]
      <4>1. userSockets'[u] = userSockets[u] \ {s} BY <3>2, <2>5, <1>2 DEF MessagesTypeOK
      <4> QED BY <4>1, <3>2, <2>1, <2>2, <2>3, <1>1
    <3>3. CASE k.state \in {"find", "join", "on"}
               /\ userSockets' = [userSockets EXCEPT ![k.userId] = userSockets[k.userId] \cup {s}]
      <4>1. userSockets'[u] = userSockets[u] \cup {s} BY <3>3, <2>5, <1>2 DEF MessagesTypeOK
      <4> QED BY <4>1, <3>3, <2>1, <2>2, <2>3, <1>1, <2>5
    <3> QED BY <3>1, <3>2, <3>3
  <2> QED BY <2>4, <2>5
<1>4. ConnectionsCurrent' BY <1>1 DEF SocketParts, ConnectionsCurrent, Connected
<1>5. OnlineHearsUnlessOpening' BY <1>1 DEF SocketParts, OnlineHearsUnlessOpening
<1> QED BY <1>3, <1>4, <1>5 DEF SocketParts

(* A step of a socket: the invariant of the messages stays as it is. *)
SocketStep(s) ==
    \/ \E u \in Users : Connect(s, u)
    \/ FindRooms(s) \/ JoinRooms(s) \/ Disconnect(s) \/ JoinChatRoom(s) \/ LeaveChatRoom(s)

LEMMA SocketKeeps ==
    ASSUME MessagesInv, NEW s \in Sockets, SocketStep(s)
    PROVE  MessagesInv'
<1>1. MessagesTypeOK /\ SocketParts /\ MessageParts BY MessagesInvParts
<1>2. socket[s] \in Connection BY <1>1 DEF MessagesTypeOK
<1>3. MessagesTypeOK' /\ SocketParts'
  <2>1. CASE \E u \in Users : Connect(s, u)
    <3>1. PICK u \in Users : Connect(s, u) BY <2>1
    <3> DEFINE k == [NewSocket EXCEPT !.userId = u, !.state = "find"]
    <3>2. /\ k \in Connection /\ k.state = "find" /\ k.userId = u /\ ~k.found
      BY DEF NewSocket, Connection
    <3>3. /\ ~Connected(s)
          /\ socket' = [socket EXCEPT ![s] = k]
          /\ userSockets' = [userSockets EXCEPT ![u] = userSockets[u] \cup {s}]
          /\ UNCHANGED <<opening, room, message, send, newest, missed, overlap>>
      BY <3>1 DEF Connect, Connected
    <3> HIDE DEF k
    <3>4. MessagesTypeOK' BY <1>1, <3>2, <3>3 DEF MessagesTypeOK
    <3> QED BY <1>1, <3>2, <3>3, <3>4, SocketMoves
  <2>2. CASE FindRooms(s)
    <3> DEFINE k == [socket[s] EXCEPT !.state = "join",
                        !.found = opening # "none" /\ socket[s].userId \in room.participants]
    <3>1. /\ Connected(s) /\ socket[s].userId # None
      BY <1>1, <2>2 DEF FindRooms, Connected, SocketParts, ConnectionsCurrent
    <3>2. /\ k \in Connection /\ k.state = "join" /\ k.userId = socket[s].userId
          /\ k.found => opening # "none"
      BY <1>2 DEF Connection
    <3>3. /\ socket' = [socket EXCEPT ![s] = k]
          /\ UNCHANGED <<opening, room, message, userSockets, send, newest, missed, overlap>>
      BY <2>2 DEF FindRooms
    <3> HIDE DEF k
    <3>4. MessagesTypeOK' BY <1>1, <3>2, <3>3 DEF MessagesTypeOK
    <3> QED BY <1>1, <3>1, <3>2, <3>3, <3>4, SocketMoves
  <2>3. CASE JoinRooms(s)
    <3> DEFINE k == [socket[s] EXCEPT !.state = "on",
                        !.channel = IF socket[s].found THEN "in" ELSE socket[s].channel]
    <3>1. /\ Connected(s) /\ socket[s].userId # None
          /\ socket[s].found => opening # "none"
      BY <1>1, <2>3 DEF JoinRooms, Connected, SocketParts, ConnectionsCurrent
    <3>2. /\ k \in Connection /\ k.state = "on" /\ k.userId = socket[s].userId
          /\ k.found = socket[s].found
          /\ socket[s].found => k.channel = "in"
      BY <1>2 DEF Connection
    <3>3. /\ socket' = [socket EXCEPT ![s] = k]
          /\ missed' = missed \cup {x \in {s} : ~socket[s].found /\ opening = "open"}
          /\ UNCHANGED <<opening, room, message, userSockets, send, newest, overlap>>
      BY <2>3 DEF JoinRooms
    <3> HIDE DEF k
    <3>4. /\ missed \subseteq missed'
          /\ opening = "open" => k.channel # "out" \/ s \in missed'
      BY <3>2, <3>3
    <3>5. MessagesTypeOK' BY <1>1, <3>2, <3>3 DEF MessagesTypeOK
    <3> QED BY <1>1, <3>1, <3>2, <3>3, <3>4, <3>5, SocketMoves
  <2>4. CASE Disconnect(s)
    <3> DEFINE k == [socket[s] EXCEPT !.state = "gone", !.channel = "out"]
    <3>1. /\ Connected(s) /\ socket[s].userId # None
          /\ socket[s].found => opening # "none"
      BY <1>1, <2>4 DEF Disconnect, SocketParts, ConnectionsCurrent
    <3>2. /\ k \in Connection /\ k.state = "gone" /\ k.userId = socket[s].userId
          /\ k.found = socket[s].found
      BY <1>2 DEF Connection
    <3>3. /\ socket' = [socket EXCEPT ![s] = k]
          /\ userSockets' = [userSockets EXCEPT ![k.userId] = userSockets[k.userId] \ {s}]
          /\ UNCHANGED <<opening, room, message, send, newest, missed, overlap>>
      BY <2>4, <3>2 DEF Disconnect
    <3> HIDE DEF k
    <3>4. MessagesTypeOK' BY <1>1, <3>2, <3>3 DEF MessagesTypeOK
    <3> QED BY <1>1, <3>1, <3>2, <3>3, <3>4, SocketMoves
  <2>5. CASE JoinChatRoom(s) \/ LeaveChatRoom(s)
    <3>1. /\ Connected(s) /\ socket[s].userId # None
          /\ socket[s].found => opening # "none"
      BY <1>1, <2>5 DEF JoinChatRoom, LeaveChatRoom, SocketParts, ConnectionsCurrent
    <3>2. PICK place \in {"in", "left"} : socket' = [socket EXCEPT ![s] = [socket[s] EXCEPT !.channel = place]]
      BY <2>5 DEF JoinChatRoom, LeaveChatRoom
    <3> DEFINE k == [socket[s] EXCEPT !.channel = place]
    <3>3. /\ k \in Connection /\ k.state = socket[s].state /\ k.userId = socket[s].userId
          /\ k.found = socket[s].found /\ k.channel = place
      BY <1>2 DEF Connection
    <3>4. /\ socket' = [socket EXCEPT ![s] = k]
          /\ UNCHANGED <<opening, room, message, userSockets, send, newest, missed, overlap>>
      BY <2>5, <3>2 DEF JoinChatRoom, LeaveChatRoom
    <3>5. k.state \in {"find", "join", "on"} BY <3>1, <3>3 DEF Connected
    <3> HIDE DEF k
    <3>6. MessagesTypeOK' BY <1>1, <3>3, <3>4 DEF MessagesTypeOK
    <3> QED BY <1>1, <3>1, <3>3, <3>4, <3>5, <3>6, SocketMoves
  <2> QED BY <2>1, <2>2, <2>3, <2>4, <2>5 DEF SocketStep
<1>4. UNCHANGED <<room, message, send, newest, overlap>>
  BY DEF SocketStep, Connect, FindRooms, JoinRooms, Disconnect, JoinChatRoom, LeaveChatRoom
<1>5. MessageParts' BY <1>1, <1>4, MessagesUntouched
<1> QED BY <1>3, <1>5, MessagesInvPartsNext

(* A step of the room. *)
RoomStep == OpenRoom \/ OpenQuietly \/ Invite \/ \E u \in Users : RemoveParticipant(u)

LEMMA RoomKeeps ==
    ASSUME MessagesInv, RoomStep
    PROVE  MessagesInv'
<1>1. MessagesTypeOK /\ SocketParts /\ MessageParts BY MessagesInvParts
<1>2. room \in [participants : SUBSET Users, lastMessage : MessageIds \cup {None}] BY <1>1 DEF MessagesTypeOK
<1>3. \A all \in SUBSET Users :
        /\ [room EXCEPT !.participants = all] \in [participants : SUBSET Users, lastMessage : MessageIds \cup {None}]
        /\ [room EXCEPT !.participants = all].participants = all
        /\ [room EXCEPT !.participants = all].lastMessage = room.lastMessage
  BY <1>2
<1>4. MessagesTypeOK' /\ SocketParts' /\ room'.lastMessage = room.lastMessage
  <2>1. CASE OpenRoom
    <3>1. /\ opening' = "accepted" /\ room' = [room EXCEPT !.participants = Users]
          /\ UNCHANGED <<message, userSockets, socket, send, newest, missed, overlap>>
      BY <2>1 DEF OpenRoom
    <3>2. MessagesTypeOK' BY <1>1, <1>3, <3>1 DEF MessagesTypeOK
    <3>3. SocketParts'
      BY <1>1, <3>1 DEF SocketParts, PresenceCurrent, ConnectionsCurrent, OnlineHearsUnlessOpening, Connected
    <3> QED BY <3>1, <3>2, <3>3, <1>3
  <2>2. CASE OpenQuietly
    <3>1. /\ opening' = "open" /\ room' = [room EXCEPT !.participants = Users]
          /\ missed' = missed \cup {s \in Sockets : socket[s].state = "on"}
          /\ UNCHANGED <<message, userSockets, socket, send, newest, overlap>>
      BY <2>2 DEF OpenQuietly
    <3>2. MessagesTypeOK' BY <1>1, <1>3, <3>1 DEF MessagesTypeOK
    <3>3. SocketParts'
      BY <1>1, <3>1 DEF SocketParts, PresenceCurrent, ConnectionsCurrent, OnlineHearsUnlessOpening, Connected
    <3> QED BY <3>1, <3>2, <3>3, <1>3
  <2>3. CASE Invite
    <3>1. /\ opening = "accepted" /\ opening' = "open"
          /\ UNCHANGED <<room, message, userSockets, send, newest, missed, overlap>>
      BY <2>3 DEF Invite
    <3>2. socket' = [s \in Sockets |->
                       IF socket[s].state = "on" /\ socket[s].channel = "out"
                       THEN [socket[s] EXCEPT !.channel = "invited"]
                       ELSE socket[s]]
      BY <2>3 DEF Invite
    <3>3. ASSUME NEW s \in Sockets
          PROVE  /\ socket'[s] \in Connection
                 /\ socket'[s].state = socket[s].state /\ socket'[s].userId = socket[s].userId
                 /\ socket'[s].found = socket[s].found
                 /\ socket[s].state = "new" => socket'[s] = socket[s]
                 /\ socket[s].state = "on" => socket'[s].channel # "out"
      <4>1. socket[s] \in Connection BY <1>1 DEF MessagesTypeOK
      <4>2. CASE socket[s].state = "on" /\ socket[s].channel = "out"
        <5>1. socket'[s] = [socket[s] EXCEPT !.channel = "invited"] BY <3>2, <4>2
        <5> QED BY <4>1, <5>1, <4>2 DEF Connection
      <4>3. CASE ~(socket[s].state = "on" /\ socket[s].channel = "out")
        BY <3>2, <4>1, <4>3
      <4> QED BY <4>2, <4>3
    <3>4. MessagesTypeOK' BY <1>1, <3>1, <3>2, <3>3 DEF MessagesTypeOK
    <3>5. SocketParts'
      BY <1>1, <3>1, <3>3 DEF SocketParts, PresenceCurrent, ConnectionsCurrent, OnlineHearsUnlessOpening, Connected
    <3> QED BY <3>1, <3>4, <3>5
  <2>4. CASE \E u \in Users : RemoveParticipant(u)
    <3>1. PICK u \in Users : RemoveParticipant(u) BY <2>4
    <3>2. room' = [room EXCEPT !.participants = room.participants \ {u}]
          /\ UNCHANGED <<opening, message, userSockets, socket, send, newest, missed, overlap>>
      BY <3>1 DEF RemoveParticipant
    <3>3. room.participants \ {u} \in SUBSET Users BY <1>2
    <3>4. MessagesTypeOK' BY <1>1, <1>3, <3>2, <3>3 DEF MessagesTypeOK
    <3>5. SocketParts' BY <1>1, <1>3, <3>2, <3>3, SocketsUntouched
    <3> QED BY <3>2, <3>3, <3>4, <3>5, <1>3
  <2> QED BY <2>1, <2>2, <2>3, <2>4 DEF RoomStep
<1>5. UNCHANGED <<message, send, newest, overlap>>
  BY DEF RoomStep, OpenRoom, OpenQuietly, Invite, RemoveParticipant
<1>6. MessageParts' BY <1>1, <1>4, <1>5, MessagesUntouched
<1> QED BY <1>4, <1>6, MessagesInvPartsNext

(* One handler moves on: what is written of its message, and where it stands. *)
LEMMA SendMoves ==
    ASSUME MessagesTypeOK, NEW m \in MessageIds,
           NEW pc \in {"none", "save", "touch", "announce", "done", "failed"}, NEW u \in Users \cup {None},
           send' = [send EXCEPT ![m] = <<pc, u>>]
    PROVE  /\ send' \in [MessageIds -> {"none", "save", "touch", "announce", "done", "failed"} \X (Users \cup {None})]
           /\ send'[m] = <<pc, u>> /\ send'[m][1] = pc /\ send'[m][2] = u
           /\ \A k \in MessageIds : k # m => send'[k] = send[k]
BY DEF MessagesTypeOK

SendStep(m) ==
    \/ \E s \in Sockets : StartSend(s, m)
    \/ SaveMessage(m) \/ TouchRoom(m) \/ Announce(m) \/ FailSend(m)

LEMMA SendKeeps ==
    ASSUME MessagesInv, NEW m \in MessageIds, SendStep(m)
    PROVE  MessagesInv'
<1>1. MessagesTypeOK /\ SocketParts /\ MessageParts BY MessagesInvParts
<1>2. room \in [participants : SUBSET Users, lastMessage : MessageIds \cup {None}] BY <1>1 DEF MessagesTypeOK
<1>3. send[m] = <<send[m][1], From(m)>> /\ From(m) \in Users \cup {None}
  BY <1>1 DEF MessagesTypeOK, From
<1>4. MessagesTypeOK' /\ MessageParts'
  <2>1. CASE \E s \in Sockets : StartSend(s, m)
    <3>1. PICK s \in Sockets : StartSend(s, m) BY <2>1
    <3>2. socket[s].userId \in Users BY <1>2, <3>1 DEF StartSend
    <3>3. /\ SendAt(m, "none") /\ send' = [send EXCEPT ![m] = <<"save", socket[s].userId>>]
          /\ UNCHANGED <<opening, room, message, userSockets, socket, newest, missed, overlap>>
      BY <3>1 DEF StartSend
    <3>4. /\ send' \in [MessageIds -> {"none", "save", "touch", "announce", "done", "failed"} \X (Users \cup {None})]
          /\ send'[m][1] = "save" /\ send'[m][2] = socket[s].userId
          /\ \A k \in MessageIds : k # m => send'[k] = send[k]
      BY <1>1, <3>2, <3>3, SendMoves
    <3>5. MessagesTypeOK' BY <1>1, <3>3, <3>4 DEF MessagesTypeOK
    <3>6. MessageParts'
      BY <1>1, <3>2, <3>3, <3>4 DEF MessageParts, ReadStaysRead, SendsCurrent, TouchesApart,
         LastMessageUnlessOverlap, SendAt, From, Saved
    <3> QED BY <3>5, <3>6
  <2>2. CASE SaveMessage(m)
    <3> DEFINE new == [NoMessage EXCEPT !.sender = From(m)]
    <3>1. From(m) \in Users
      BY <1>1, <1>3, <2>2 DEF SaveMessage, MessageParts, SendsCurrent, SendAt
    <3>2. new \in Message /\ new.sender = From(m) /\ new.readBy = {}
      BY <3>1 DEF NoMessage, Message
    <3>3. /\ SendAt(m, "save")
          /\ message' = [message EXCEPT ![m] = new]
          /\ newest' = m
          /\ overlap' = (overlap \/ \E k \in MessageIds : SendAt(k, "touch"))
          /\ send' = [send EXCEPT ![m] = <<"touch", From(m)>>]
          /\ UNCHANGED <<opening, room, userSockets, socket, missed>>
      BY <2>2 DEF SaveMessage
    <3> HIDE DEF new
    <3>4. /\ send' \in [MessageIds -> {"none", "save", "touch", "announce", "done", "failed"} \X (Users \cup {None})]
          /\ send'[m][1] = "touch" /\ send'[m][2] = From(m)
          /\ \A k \in MessageIds : k # m => send'[k] = send[k]
      BY <1>1, <1>3, <3>3, SendMoves
    <3>5. /\ message' \in [MessageIds -> Message] /\ message'[m] = new
          /\ \A k \in MessageIds : k # m => message'[k] = message[k]
      BY <1>1, <3>2, <3>3 DEF MessagesTypeOK
    <3>6. overlap' \in BOOLEAN BY <1>1, <3>3 DEF MessagesTypeOK
    <3>7. MessagesTypeOK' BY <1>1, <3>3, <3>4, <3>5, <3>6 DEF MessagesTypeOK
    <3>8. ReadStaysRead' BY <1>1, <3>2, <3>5 DEF MessageParts, ReadStaysRead
    <3>9. SendsCurrent'
      BY <1>1, <3>1, <3>2, <3>3, <3>4, <3>5 DEF MessageParts, SendsCurrent, SendAt, From, Saved
    <3>10. TouchesApart' BY <1>1, <3>3, <3>4 DEF TouchesApart, SendAt
    <3>11. LastMessageUnlessOverlap' BY <3>3, <3>4 DEF LastMessageUnlessOverlap
    <3> QED BY <3>7, <3>8, <3>9, <3>10, <3>11 DEF MessageParts
  <2>3. CASE TouchRoom(m)
    <3>1. /\ SendAt(m, "touch") /\ room' = [room EXCEPT !.lastMessage = m]
          /\ send' = [send EXCEPT ![m] = <<"announce", From(m)>>]
          /\ UNCHANGED <<opening, message, userSockets, socket, newest, missed, overlap>>
      BY <2>3 DEF TouchRoom
    <3>2. /\ room' \in [participants : SUBSET Users, lastMessage : MessageIds \cup {None}]
          /\ room'.lastMessage = m /\ room'.participants = room.participants
      BY <1>2, <3>1
    <3>3. /\ send' \in [MessageIds -> {"none", "save", "touch", "announce", "done", "failed"} \X (Users \cup {None})]
          /\ send'[m][1] = "announce" /\ send'[m][2] = From(m)
          /\ \A k \in MessageIds : k # m => send'[k] = send[k]
      BY <1>1, <1>3, <3>1, SendMoves
    <3>4. MessagesTypeOK' BY <1>1, <3>1, <3>2, <3>3 DEF MessagesTypeOK
    <3>5. ReadStaysRead' BY <1>1, <3>1 DEF MessageParts, ReadStaysRead
    <3>6. SendsCurrent'
      BY <1>1, <3>1, <3>2, <3>3 DEF MessageParts, SendsCurrent, SendAt, From, Saved
    <3>7. TouchesApart' BY <1>1, <3>1, <3>3 DEF MessageParts, TouchesApart, SendAt
    <3>8. LastMessageUnlessOverlap'
      BY <1>1, <3>1, <3>2 DEF MessageParts, TouchesApart, LastMessageUnlessOverlap, SendAt
    <3> QED BY <3>4, <3>5, <3>6, <3>7, <3>8 DEF MessageParts
  <2>4. CASE Announce(m)
    <3>1. OnlineRecipients(m) = {} BY DEF OnlineRecipients, ParticipantKey
    <3>2. /\ SendAt(m, "announce") /\ message' = message
          /\ send' = [send EXCEPT ![m] = <<"done", From(m)>>]
          /\ UNCHANGED <<opening, room, userSockets, socket, newest, missed, overlap>>
      BY <2>4, <3>1 DEF Announce, MarkDelivered
    <3>3. /\ send' \in [MessageIds -> {"none", "save", "touch", "announce", "done", "failed"} \X (Users \cup {None})]
          /\ send'[m][1] = "done" /\ send'[m][2] = From(m)
          /\ \A k \in MessageIds : k # m => send'[k] = send[k]
      BY <1>1, <1>3, <3>2, SendMoves
    <3>4. MessagesTypeOK' BY <1>1, <3>2, <3>3 DEF MessagesTypeOK
    <3>5. MessageParts'
      BY <1>1, <3>2, <3>3 DEF MessageParts, ReadStaysRead, SendsCurrent, TouchesApart,
         LastMessageUnlessOverlap, SendAt, From, Saved
    <3> QED BY <3>4, <3>5
  <2>5. CASE FailSend(m)
    <3>1. /\ send[m][1] \in {"save", "touch", "announce"}
          /\ send' = [send EXCEPT ![m] = <<"failed", From(m)>>]
          /\ UNCHANGED <<opening, room, message, userSockets, socket, newest, missed, overlap>>
      BY <2>5 DEF FailSend
    <3>2. /\ send' \in [MessageIds -> {"none", "save", "touch", "announce", "done", "failed"} \X (Users \cup {None})]
          /\ send'[m][1] = "failed" /\ send'[m][2] = From(m)
          /\ \A k \in MessageIds : k # m => send'[k] = send[k]
      BY <1>1, <1>3, <3>1, SendMoves
    <3>3. MessagesTypeOK' BY <1>1, <3>1, <3>2 DEF MessagesTypeOK
    <3>4. MessageParts'
      BY <1>1, <3>1, <3>2 DEF MessageParts, ReadStaysRead, SendsCurrent, TouchesApart,
         LastMessageUnlessOverlap, SendAt, From, Saved
    <3> QED BY <3>3, <3>4
  <2> QED BY <2>1, <2>2, <2>3, <2>4, <2>5 DEF SendStep
<1>5. UNCHANGED <<opening, userSockets, socket, missed>>
  BY DEF SendStep, StartSend, SaveMessage, TouchRoom, Announce, FailSend
<1>6. room'.participants = room.participants
  BY <1>2 DEF SendStep, StartSend, SaveMessage, TouchRoom, Announce, FailSend
<1>7. SocketParts' BY <1>1, <1>5, <1>6, SocketsUntouched
<1> QED BY <1>4, <1>7, MessagesInvPartsNext

(* A message that is there is marked as read or deleted, or a reader goes. *)
MessageStep ==
    \/ \E s \in Sockets, m \in MessageIds : MarkAsRead(s, m)
    \/ \E m \in MessageIds : DeleteMessage(m)
    \/ \E u \in Users : RemoveReader(u)

LEMMA MessageKeeps ==
    ASSUME MessagesInv, MessageStep
    PROVE  MessagesInv'
<1>1. MessagesTypeOK /\ SocketParts /\ MessageParts BY MessagesInvParts
<1>2. UNCHANGED <<opening, room, userSockets, socket, send, newest, missed, overlap>>
  BY DEF MessageStep, MarkAsRead, DeleteMessage, RemoveReader
<1>3. ASSUME NEW m \in MessageIds
      PROVE  /\ message'[m] \in Message /\ message'[m].sender = message[m].sender
             /\ ~Saved(m) => message'[m] = message[m]
             /\ message'[m].readBy # {} => message'[m].status = "read"
  <2>1. message[m] \in Message /\ message[m].readBy \subseteq Users
    BY <1>1 DEF MessagesTypeOK, Message
  <2>2. message[m].readBy # {} => message[m].status = "read" BY <1>1 DEF MessageParts, ReadStaysRead
  <2>3. CASE message'[m] = message[m] BY <2>1, <2>2, <2>3
  <2>4. CASE \E s \in Sockets, k \in MessageIds : MarkAsRead(s, k)
    <3>1. PICK s \in Sockets, k \in MessageIds : MarkAsRead(s, k) BY <2>4
    <3>2. /\ Saved(k) /\ socket[s].userId \in Users
          /\ message' = [message EXCEPT ![k] = [message[k] EXCEPT
                !.status = "read", !.readBy = message[k].readBy \cup {socket[s].userId}]]
      BY <1>1, <3>1 DEF MarkAsRead, MessagesTypeOK, Connection, SocketParts, ConnectionsCurrent
    <3>3. CASE m # k BY <1>1, <3>2, <3>3, <2>1, <2>2 DEF MessagesTypeOK
    <3>4. CASE m = k
      <4>1. message'[m] = [message[m] EXCEPT !.status = "read",
                             !.readBy = message[m].readBy \cup {socket[s].userId}]
        BY <1>1, <3>2, <3>4 DEF MessagesTypeOK
      <4>2. message[m].readBy \cup {socket[s].userId} \in SUBSET Users BY <2>1, <3>2
      <4>3. message'[m] \in Message /\ message'[m].sender = message[m].sender /\ message'[m].status = "read"
        BY <2>1, <4>1, <4>2 DEF Message
      <4> QED BY <3>2, <3>4, <4>3
    <3> QED BY <3>3, <3>4
  <2>5. CASE \E k \in MessageIds : DeleteMessage(k)
    <3>1. PICK k \in MessageIds : DeleteMessage(k) BY <2>5
    <3>2. Saved(k) /\ message' = [message EXCEPT ![k] = [message[k] EXCEPT !.isDeleted = TRUE]]
      BY <3>1 DEF DeleteMessage
    <3>3. CASE m # k BY <1>1, <3>2, <3>3, <2>1, <2>2 DEF MessagesTypeOK
    <3>4. CASE m = k
      <4>1. message'[m] = [message[m] EXCEPT !.isDeleted = TRUE] BY <1>1, <3>2, <3>4 DEF MessagesTypeOK
      <4>2. /\ message'[m] \in Message /\ message'[m].sender = message[m].sender
            /\ message'[m].status = message[m].status /\ message'[m].readBy = message[m].readBy
        BY <2>1, <4>1 DEF Message
      <4> QED BY <2>2, <3>2, <3>4, <4>2
    <3> QED BY <3>3, <3>4
  <2>6. CASE \E u \in Users : RemoveReader(u)
    <3>1. PICK u \in Users : RemoveReader(u) BY <2>6
    <3>2. message'[m] = [message[m] EXCEPT !.readBy = message[m].readBy \ {u}] BY <3>1 DEF RemoveReader
    <3>3. /\ message'[m] \in Message /\ message'[m].sender = message[m].sender
          /\ message'[m].status = message[m].status /\ message'[m].readBy = message[m].readBy \ {u}
          /\ message'[m].isDeleted = message[m].isDeleted
      BY <2>1, <3>2 DEF Message
    <3>4. ~Saved(m) => message'[m] = message[m]
      <4> SUFFICES ASSUME ~Saved(m) PROVE message'[m] = message[m]
        OBVIOUS
      <4>1. message[m].readBy = {}
        BY <1>1 DEF MessageParts, SendsCurrent, NoMessage
      <4>2. message[m].readBy \ {u} = message[m].readBy BY <4>1
      <4> QED BY <2>1, <3>2, <4>2 DEF Message
    <3> QED BY <2>2, <3>3, <3>4
  <2> QED BY <2>4, <2>5, <2>6 DEF MessageStep
<1>4. MessagesTypeOK'
  <2>1. message' \in [MessageIds -> Message]
    <3>1. message \in [MessageIds -> Message] BY <1>1 DEF MessagesTypeOK
    <3>2. CASE \E u \in Users : RemoveReader(u) BY <1>3, <3>2 DEF RemoveReader
    <3>3. CASE \E s \in Sockets, k \in MessageIds : MarkAsRead(s, k)
      <4>1. PICK k \in MessageIds : \E new : message' = [message EXCEPT ![k] = new] BY <3>3 DEF MarkAsRead
      <4> QED BY <1>3, <3>1, <4>1
    <3>4. CASE \E k \in MessageIds : DeleteMessage(k)
      <4>1. PICK k \in MessageIds : \E new : message' = [message EXCEPT ![k] = new] BY <3>4 DEF DeleteMessage
      <4> QED BY <1>3, <3>1, <4>1
    <3> QED BY <3>2, <3>3, <3>4 DEF MessageStep
  <2> QED BY <1>1, <1>2, <2>1 DEF MessagesTypeOK
<1>5. MessageParts'
  BY <1>1, <1>2, <1>3 DEF MessageParts, ReadStaysRead, SendsCurrent, TouchesApart,
     LastMessageUnlessOverlap, SendAt, From, Saved
<1>6. SocketParts' BY <1>1, <1>2, SocketsUntouched
<1> QED BY <1>4, <1>5, <1>6, MessagesInvPartsNext

(* A restart: no socket is connected, and every handler has ended. *)
LEMMA StopKeeps == ASSUME MessagesInv, MessagesStop PROVE MessagesInv'
<1>1. MessagesTypeOK /\ SocketParts /\ MessageParts BY MessagesInvParts
<1>2. /\ opening' = (IF opening = "accepted" THEN "open" ELSE opening)
      /\ userSockets' = [u \in Users |-> {}]
      /\ UNCHANGED <<room, message, newest, missed, overlap>>
  BY DEF MessagesStop
<1>3. ASSUME NEW s \in Sockets
      PROVE  /\ socket'[s] \in Connection
             /\ socket'[s].state \in {"new", "gone"}
             /\ socket'[s].found = socket[s].found
             /\ socket'[s].state = "new" => socket'[s] = socket[s]
  <2>1. socket[s] \in Connection BY <1>1 DEF MessagesTypeOK
  <2>2. CASE Connected(s)
    <3>1. socket'[s] = [socket[s] EXCEPT !.state = "gone", !.channel = "out"] BY <2>2 DEF MessagesStop
    <3> QED BY <2>1, <3>1 DEF Connection
  <2>3. CASE ~Connected(s)
    <3>1. socket'[s] = socket[s] BY <2>3 DEF MessagesStop
    <3> QED BY <2>1, <2>3, <3>1 DEF Connection, Connected
  <2> QED BY <2>2, <2>3
<1>4. ASSUME NEW m \in MessageIds
      PROVE  /\ send'[m] \in {"none", "save", "touch", "announce", "done", "failed"} \X (Users \cup {None})
             /\ send'[m][2] = send[m][2]
             /\ send'[m][1] = IF send[m][1] \in {"save", "touch", "announce"} THEN "failed" ELSE send[m][1]
  <2>1. send[m] \in {"none", "save", "touch", "announce", "done", "failed"} \X (Users \cup {None})
    BY <1>1 DEF MessagesTypeOK
  <2>2. CASE send[m][1] \in {"save", "touch", "announce"}
    <3>1. send'[m] = <<"failed", send[m][2]>> BY <2>2 DEF MessagesStop, From
    <3> QED BY <2>1, <2>2, <3>1
  <2>3. CASE send[m][1] \notin {"save", "touch", "announce"}
    <3>1. send'[m] = send[m] BY <2>3 DEF MessagesStop
    <3> QED BY <2>1, <2>3, <3>1
  <2> QED BY <2>2, <2>3
<1>5. MessagesTypeOK'
  <2>1. socket' \in [Sockets -> Connection] BY <1>3 DEF MessagesStop
  <2>2. send' \in [MessageIds -> {"none", "save", "touch", "announce", "done", "failed"} \X (Users \cup {None})]
    BY <1>4 DEF MessagesStop
  <2> QED BY <1>1, <1>2, <2>1, <2>2 DEF MessagesTypeOK
<1>6. SocketParts'
  <2>1. \A s \in Sockets : ~Connected(s)' BY <1>3 DEF Connected
  <2>2. PresenceCurrent' BY <1>2, <2>1 DEF PresenceCurrent
  <2>3. ConnectionsCurrent' BY <1>1, <1>2, <1>3, <2>1 DEF SocketParts, ConnectionsCurrent
  <2>4. OnlineHearsUnlessOpening' BY <1>3 DEF OnlineHearsUnlessOpening
  <2> QED BY <2>2, <2>3, <2>4 DEF SocketParts
<1>7. ReadStaysRead' BY <1>1, <1>2 DEF MessageParts, ReadStaysRead
<1>8. \A m \in MessageIds : message'[m] = message[m] /\ (Saved(m)' <=> Saved(m)) /\ From(m)' = From(m)
  BY <1>2, <1>4 DEF Saved, From
<1>9. SendsCurrent'
  <2> SUFFICES ASSUME NEW m \in MessageIds
               PROVE  /\ (SendAt(m, "none")' <=> From(m)' = None)
                      /\ send'[m][1] \in {"none", "save"} => ~Saved(m)'
                      /\ send'[m][1] \in {"touch", "announce", "done"} => Saved(m)'
                      /\ Saved(m)' => message'[m].sender = From(m)'
                      /\ ~Saved(m)' => message'[m] = NoMessage /\ room'.lastMessage # m /\ newest' # m
    BY DEF SendsCurrent
  <2>1. /\ (SendAt(m, "none") <=> From(m) = None)
        /\ send[m][1] \in {"none", "save"} => ~Saved(m)
        /\ send[m][1] \in {"touch", "announce", "done"} => Saved(m)
        /\ Saved(m) => message[m].sender = From(m)
        /\ ~Saved(m) => message[m] = NoMessage /\ room.lastMessage # m /\ newest # m
    BY <1>1 DEF MessageParts, SendsCurrent
  <2> QED BY <1>2, <1>4, <1>8, <2>1 DEF SendAt
<1>10. TouchesApart' BY <1>1, <1>2, <1>4 DEF MessageParts, TouchesApart, SendAt
<1>11. LastMessageUnlessOverlap'
  <2>1. newest \in MessageIds \cup {None} BY <1>1 DEF MessagesTypeOK
  <2> QED BY <1>1, <1>2, <1>4, <2>1 DEF MessageParts, LastMessageUnlessOverlap
<1> QED BY <1>5, <1>6, <1>7, <1>9, <1>10, <1>11, MessagesInvPartsNext DEF MessageParts

LEMMA MessagesKeep ==
    ASSUME MessagesInv,
           MessagesNext \/ (\E m \in MessageIds : Announce(m)) \/ MessagesStop \/ UNCHANGED messageVars
    PROVE  MessagesInv'
<1>1. CASE UNCHANGED messageVars
  <2>1. MessagesTypeOK /\ SocketParts /\ MessageParts BY MessagesInvParts
  <2>2. MessagesTypeOK' BY <1>1, <2>1 DEF messageVars, MessagesTypeOK
  <2>3. SocketParts' /\ MessageParts' BY <1>1, <2>1, SocketsUntouched, MessagesUntouched DEF messageVars
  <2> QED BY <2>2, <2>3, MessagesInvPartsNext
<1>2. CASE MessagesNext
  BY <1>2, SocketKeeps, RoomKeeps, SendKeeps, MessageKeeps
     DEF MessagesNext, SocketStep, RoomStep, SendStep, MessageStep, ConnectionSteps, SendSteps
<1> QED BY <1>1, <1>2, SendKeeps, StopKeeps DEF SendStep

-----------------------------------------------------------------------------
(* Devices, events and jobs *)

PushParts == TokensUnique /\ OneAtATime /\ JobsCurrent /\ PushesCurrent /\ EventsCurrent /\ PushedOnceUnlessUnanswered

LEMMA PushInvParts == PushInv <=> PushTypeOK /\ PushParts
BY DEF PushInv, PushParts

LEMMA PushInvPartsNext == PushInv' <=> PushTypeOK' /\ PushParts'
BY DEF PushInv, PushParts

LEMMA PushStart == PushInit => PushInv
<1> SUFFICES ASSUME PushInit PROVE PushInv
  OBVIOUS
<1>1. NoJob \in Job /\ NoEvent \in Event /\ NoJob.state = "none" /\ NoEvent.pc = "none" /\ NoEvent.to = Nobody
      /\ NoEvent.tokens = {}
  BY DEF NoJob, Job, NoEvent, Event
<1>2. PushTypeOK BY <1>1 DEF PushTypeOK, PushInit
<1>3. PushParts
  BY <1>1 DEF PushParts, PushInit, TokensUnique, OneAtATime, JobsCurrent, PushesCurrent, EventsCurrent,
     PushedOnceUnlessUnanswered, Working, Refused, JobIds
<1> QED BY <1>2, <1>3, PushInvParts

(* A job moves on, and its device may go. *)
LEMMA JobMoves ==
    ASSUME PushInv, NEW j \in JobIds, NEW k \in Job, NEW n \in 0..2,
           job' = [job EXCEPT ![j] = k], pushed' = [pushed EXCEPT ![j] = n],
           UNCHANGED <<valid, event>>,
           unanswered \subseteq unanswered', unanswered' \subseteq unanswered \cup {j},
           \A i \in Installations : device'[i] \in {device[i], NoDevice},
           device' \in [Installations -> Device \cup {NoDevice}],
           job[j].state # "none", k.state # "none",
           k.state \in {"active", "sent", "refused", "invalid"} => Working(j) \/ \A i \in JobIds : ~Working(i),
           k.state = "refused" => j[2] \notin valid,
           k.state \in {"waiting", "active", "sent", "refused", "invalid"} => k.made < Attempts /\ k.stalled < 2,
           k.state \in {"waiting", "active", "refused", "invalid"} => n = 0 \/ j \in unanswered',
           k.state = "sent" => n # 0,
           n = 2 => j \in unanswered'
    PROVE  PushInv'
<1>1. PushTypeOK /\ PushParts BY PushInvParts
<1>2. /\ job'[j] = k /\ pushed'[j] = n
      /\ \A i \in JobIds : i # j => job'[i] = job[i] /\ pushed'[i] = pushed[i]
                                    /\ (i \in unanswered' <=> i \in unanswered)
  BY <1>1 DEF PushTypeOK
<1>3. PushTypeOK' BY <1>1 DEF PushTypeOK
<1>4. TokensUnique' BY <1>1 DEF PushParts, TokensUnique, PushTypeOK, Device, NoDevice
<1>5. OneAtATime'
  <2>1. \A i \in JobIds : i # j => (Working(i)' <=> Working(i)) BY <1>2 DEF Working, Refused
  <2>2. Working(j)' => Working(j) \/ \A i \in JobIds : ~Working(i) BY <1>2 DEF Working, Refused
  <2> QED BY <1>1, <2>1, <2>2 DEF PushParts, OneAtATime
<1>6. JobsCurrent' BY <1>1, <1>2 DEF PushParts, JobsCurrent
<1>7. PushesCurrent' BY <1>1, <1>2 DEF PushParts, PushesCurrent
<1>8. EventsCurrent' BY <1>1 DEF PushParts, EventsCurrent
<1>9. PushedOnceUnlessUnanswered' BY <1>1, <1>2 DEF PushParts, PushedOnceUnlessUnanswered
<1> QED BY <1>3, <1>4, <1>5, <1>6, <1>7, <1>8, <1>9, PushInvPartsNext DEF PushParts

(* What a job at work is known to be. *)
LEMMA JobAtWork ==
    ASSUME PushInv, NEW j \in JobIds, job[j].state \in {"waiting", "active", "sent", "refused", "invalid"}
    PROVE  /\ job[j] \in Job /\ pushed[j] \in 0..2
           /\ job[j].made < Attempts /\ job[j].stalled < 2
           /\ job[j].state \in {"waiting", "active", "refused", "invalid"} => pushed[j] = 0 \/ j \in unanswered
           /\ job[j].state = "sent" => pushed[j] # 0
           /\ pushed[j] = 2 => j \in unanswered
BY DEF PushInv, PushTypeOK, JobsCurrent, PushesCurrent, PushedOnceUnlessUnanswered

LEMMA JobBecomes ==
    ASSUME NEW k \in Job, NEW state \in {"none", "waiting", "active", "sent", "refused", "invalid", "done", "failed"}
    PROVE  /\ [k EXCEPT !.state = state] \in Job
           /\ [k EXCEPT !.state = state].state = state
           /\ [k EXCEPT !.state = state].made = k.made
           /\ [k EXCEPT !.state = state].stalled = k.stalled
BY DEF Job

(* The same count and no device touched. *)
LEMMA PushedSame == ASSUME PushInv, NEW j \in JobIds PROVE pushed = [pushed EXCEPT ![j] = pushed[j]]
BY DEF PushInv, PushTypeOK

LEMMA DevicesSame ==
    ASSUME PushInv, UNCHANGED device
    PROVE  /\ \A i \in Installations : device'[i] \in {device[i], NoDevice}
           /\ device' \in [Installations -> Device \cup {NoDevice}]
BY DEF PushInv, PushTypeOK

LEMMA RetryMoves ==
    ASSUME PushInv, NEW j \in JobIds, Working(j), Retry(j)
    PROVE  \E k \in Job : /\ job' = [job EXCEPT ![j] = k]
                          /\ k.state \in {"waiting", "failed"}
                          /\ k.state = "waiting" => k.made < Attempts /\ k.stalled < 2
<1> DEFINE k == [job[j] EXCEPT !.made = job[j].made + 1,
                               !.state = IF job[j].made + 1 < Attempts THEN "waiting" ELSE "failed"]
<1>1. job[j] \in Job /\ job[j].made < Attempts /\ job[j].stalled < 2 BY JobAtWork DEF Working, Refused
<1>2. job[j].made + 1 \in 0..Attempts BY <1>1 DEF Job
<1>3. k \in Job /\ k.made = job[j].made + 1 /\ k.stalled = job[j].stalled
      /\ k.state = IF job[j].made + 1 < Attempts THEN "waiting" ELSE "failed"
  BY <1>1, <1>2 DEF Job
<1>4. job' = [job EXCEPT ![j] = k] BY DEF Retry
<1> HIDE DEF k
<1> QED BY <1>1, <1>3, <1>4

LEMMA WorkerKeeps == ASSUME PushInv, NEW j \in JobIds, WorkerSteps(j) PROVE PushInv'
<1>1. PushTypeOK /\ PushParts BY PushInvParts
<1> DEFINE To(state) == [job[j] EXCEPT !.state = state]
<1>2. CASE TakeJob(j)
  <2>1. /\ job[j].state = "waiting" /\ \A k \in JobIds : ~Working(k)
        /\ job' = [job EXCEPT ![j] = To("active")]
        /\ UNCHANGED <<device, valid, event, pushed, unanswered>>
    BY <1>2 DEF TakeJob, Becomes
  <2>2. To("active") \in Job /\ To("active").state = "active" /\ To("active").made = job[j].made
        /\ To("active").stalled = job[j].stalled
    BY <2>1, JobAtWork, JobBecomes
  <2> HIDE DEF To
  <2> QED BY <2>1, <2>2, JobAtWork, JobMoves, PushedSame, DevicesSame
<1>3. CASE SendAccepted(j)
  <2> DEFINE n == IF pushed[j] = 0 THEN 1 ELSE 2
  <2>1. /\ job[j].state = "active"
        /\ pushed' = [pushed EXCEPT ![j] = n]
        /\ job' = [job EXCEPT ![j] = To("sent")]
        /\ UNCHANGED <<device, valid, event, unanswered>>
    BY <1>3 DEF SendAccepted, Becomes
  <2>2. To("sent") \in Job /\ To("sent").state = "sent" /\ To("sent").made = job[j].made
        /\ To("sent").stalled = job[j].stalled
    BY <2>1, JobAtWork, JobBecomes
  <2>3. n \in 0..2 /\ n # 0 /\ (n = 2 => j \in unanswered) BY <2>1, JobAtWork
  <2>4. Working(j) BY <2>1 DEF Working, Refused
  <2> HIDE DEF To, n
  <2> QED BY <2>1, <2>2, <2>3, <2>4, JobAtWork, JobMoves, DevicesSame
<1>4. CASE SendRefused(j)
  <2>1. /\ job[j].state = "active" /\ j[2] \notin valid
        /\ job' = [job EXCEPT ![j] = To("refused")]
        /\ UNCHANGED <<device, valid, event, pushed, unanswered>>
    BY <1>4 DEF SendRefused, Becomes
  <2>2. To("refused") \in Job /\ To("refused").state = "refused" /\ To("refused").made = job[j].made
        /\ To("refused").stalled = job[j].stalled
    BY <2>1, JobAtWork, JobBecomes
  <2>3. Working(j) BY <2>1 DEF Working, Refused
  <2> HIDE DEF To
  <2> QED BY <2>1, <2>2, <2>3, JobAtWork, JobMoves, PushedSame, DevicesSame
<1>8. CASE SendInvalid(j)
  <2>1. /\ job[j].state = "active"
        /\ job' = [job EXCEPT ![j] = To("invalid")]
        /\ UNCHANGED <<device, valid, event, pushed, unanswered>>
    BY <1>8 DEF SendInvalid, Becomes
  <2>2. To("invalid") \in Job /\ To("invalid").state = "invalid" /\ To("invalid").made = job[j].made
        /\ To("invalid").stalled = job[j].stalled
    BY <2>1, JobAtWork, JobBecomes
  <2>3. Working(j) BY <2>1 DEF Working, Refused
  <2> HIDE DEF To
  <2> QED BY <2>1, <2>2, <2>3, JobAtWork, JobMoves, PushedSame, DevicesSame
<1>5. CASE SendFails(j)
  <2>1. /\ job[j].state = "active" /\ Retry(j) /\ UNCHANGED <<device, valid, event, pushed, unanswered>>
    BY <1>5 DEF SendFails
  <2>2. Working(j) BY <2>1 DEF Working, Refused
  <2>3. PICK k \in Job : /\ job' = [job EXCEPT ![j] = k]
                         /\ k.state \in {"waiting", "failed"}
                         /\ k.state = "waiting" => k.made < Attempts /\ k.stalled < 2
    BY <2>1, <2>2, RetryMoves
  <2> QED BY <2>1, <2>3, JobAtWork, JobMoves, PushedSame, DevicesSame
<1>6. CASE AnswerLost(j)
  <2>1. /\ job[j].state = "sent" /\ Retry(j) /\ unanswered' = unanswered \cup {j}
        /\ UNCHANGED <<device, valid, event, pushed>>
    BY <1>6 DEF AnswerLost
  <2>2. Working(j) BY <2>1 DEF Working, Refused
  <2>3. PICK k \in Job : /\ job' = [job EXCEPT ![j] = k]
                         /\ k.state \in {"waiting", "failed"}
                         /\ k.state = "waiting" => k.made < Attempts /\ k.stalled < 2
    BY <2>1, <2>2, RetryMoves
  <2> QED BY <2>1, <2>3, JobAtWork, JobMoves, PushedSame, DevicesSame
<1>7. CASE Complete(j) \/ Prune(j) \/ PruneFails(j)
  <2>1. /\ job[j].state \in {"sent", "refused", "invalid"}
        /\ job' = [job EXCEPT ![j] = To("done")]
        /\ UNCHANGED <<valid, event, pushed, unanswered>>
        /\ \/ device' = device
           \/ device' = [i \in Installations |-> IF device[i].fcmToken = j[2] THEN NoDevice ELSE device[i]]
    BY <1>7 DEF Complete, Prune, PruneFails, Refused, Becomes
  <2>2. To("done") \in Job /\ To("done").state = "done" BY <2>1, JobAtWork, JobBecomes
  <2>3. /\ \A i \in Installations : device'[i] \in {device[i], NoDevice}
        /\ device' \in [Installations -> Device \cup {NoDevice}]
    BY <1>1, <2>1 DEF PushTypeOK
  <2> HIDE DEF To
  <2> QED BY <2>1, <2>2, <2>3, JobAtWork, JobMoves, PushedSame
<1> QED BY <1>2, <1>3, <1>4, <1>5, <1>6, <1>7, <1>8 DEF WorkerSteps

(* A dispatch moves on: its jobs come only with the last look at its tokens. *)
LEMMA EventMoves ==
    ASSUME PushInv, NEW e \in Events, NEW d \in Event, event' = [event EXCEPT ![e] = d],
           UNCHANGED <<device, valid, job, pushed, unanswered>>,
           d.pc # "none", d.to # Nobody,
           d.pc = "find" => d.tokens = {}, d.pc = "mail" => e \in MemberEvents,
           \/ event[e].pc \in {"none", "find", "enqueue"}
           \/ d.tokens = event[e].tokens /\ d.pc \in {"mail", "done"}
    PROVE  PushInv'
<1>1. PushTypeOK /\ PushParts BY PushInvParts
<1>2. event'[e] = d /\ \A x \in Events : x # e => event'[x] = event[x] BY <1>1 DEF PushTypeOK
<1>3. PushTypeOK' BY <1>1 DEF PushTypeOK
<1>4. \A j \in JobIds : j[1] \in Events BY DEF JobIds
<1>5. JobsCurrent'
  <2> SUFFICES ASSUME NEW j \in JobIds, job[j].state # "none"
               PROVE  j[2] \in event'[j[1]].tokens /\ event'[j[1]].pc \in {"mail", "done"}
    BY <1>1 DEF PushParts, JobsCurrent
  <2>1. j[2] \in event[j[1]].tokens /\ event[j[1]].pc \in {"mail", "done"}
    BY <1>1 DEF PushParts, JobsCurrent
  <2> QED BY <1>2, <1>4, <2>1
<1>6. EventsCurrent' BY <1>1, <1>2 DEF PushParts, EventsCurrent
<1>7. /\ TokensUnique' /\ OneAtATime' /\ PushesCurrent' /\ PushedOnceUnlessUnanswered'
  BY <1>1 DEF PushParts, TokensUnique, OneAtATime, PushesCurrent, PushedOnceUnlessUnanswered, Working, Refused
<1> QED BY <1>3, <1>5, <1>6, <1>7, PushInvPartsNext DEF PushParts

LEMMA NotifyKeeps ==
    ASSUME PushInv, NEW e \in Events, NEW u \in Owners, Notify(e, u)
    PROVE  PushInv'
<1>1. Begun(e, u) \in Event /\ Begun(e, u).pc = "find" /\ Begun(e, u).to = u /\ Begun(e, u).tokens = {}
  BY DEF Begun, NoEvent, Event
<1>2. /\ event[e].pc = "none" /\ event' = [event EXCEPT ![e] = Begun(e, u)]
      /\ UNCHANGED <<device, valid, job, pushed, unanswered>>
  BY DEF Notify, NoEvent
<1> QED BY <1>1, <1>2, EventMoves

LEMMA AfterPushPlace ==
    ASSUME NEW e \in Events
    PROVE  AfterPush(e) \in {"mail", "done"} /\ (AfterPush(e) = "mail" => e \in MemberEvents)
BY DEF AfterPush

LEMMA DispatchKeeps ==
    ASSUME PushInv, NEW e \in Events, LoseEvent(e) \/ FindDevices(e) \/ SendEmail(e)
    PROVE  PushInv'
<1>1. PushTypeOK /\ PushParts BY PushInvParts
<1>2. event[e] \in Event BY <1>1 DEF PushTypeOK
<1>3. event[e].pc # "none" => event[e].to \in Owners BY <1>1, <1>2 DEF PushParts, EventsCurrent, Event
<1>4. CASE LoseEvent(e)
  <2> DEFINE d == [event[e] EXCEPT !.pc = AfterPush(e)]
  <2>1. /\ event[e].pc \in {"find", "enqueue"} /\ event' = [event EXCEPT ![e] = d]
        /\ UNCHANGED <<device, valid, job, pushed, unanswered>>
    BY <1>4 DEF LoseEvent
  <2>2. d \in Event /\ d.pc = AfterPush(e) /\ d.to = event[e].to BY <1>2, AfterPushPlace DEF Event
  <2> HIDE DEF d
  <2> QED BY <1>3, <2>1, <2>2, AfterPushPlace, EventMoves
<1>5. CASE FindDevices(e)
  <2> DEFINE tokens == {device[i].fcmToken : i \in {k \in Installations : device[k].userId = event[e].to}}
             d == [event[e] EXCEPT !.tokens = tokens, !.pc = IF tokens = {} THEN AfterPush(e) ELSE "enqueue"]
  <2>1. /\ event[e].pc = "find" /\ event' = [event EXCEPT ![e] = d]
        /\ UNCHANGED <<device, valid, job, pushed, unanswered>>
    BY <1>5 DEF FindDevices
  <2>2. tokens \subseteq Tokens
    BY <1>1, <1>3, <2>1 DEF PushTypeOK, Device, NoDevice
  <2> HIDE DEF tokens
  <2>3. /\ d \in Event /\ d.to = event[e].to
        /\ d.pc = IF tokens = {} THEN AfterPush(e) ELSE "enqueue"
    BY <1>2, <2>2, AfterPushPlace DEF Event
  <2> HIDE DEF d
  <2> QED BY <1>3, <2>1, <2>3, AfterPushPlace, EventMoves
<1>6. CASE SendEmail(e)
  <2> DEFINE d == [event[e] EXCEPT !.pc = "done"]
  <2>1. /\ event[e].pc = "mail" /\ event' = [event EXCEPT ![e] = d]
        /\ UNCHANGED <<device, valid, job, pushed, unanswered>>
    BY <1>6 DEF SendEmail
  <2>2. d \in Event /\ d.pc = "done" /\ d.to = event[e].to /\ d.tokens = event[e].tokens
    BY <1>2 DEF Event
  <2> HIDE DEF d
  <2> QED BY <1>3, <2>1, <2>2, EventMoves
<1> QED BY <1>4, <1>5, <1>6

(* The jobs of an event are all made at once, and none was there before. *)
LEMMA EnqueueKeeps == ASSUME PushInv, NEW e \in Events, Enqueue(e) PROVE PushInv'
<1>1. PushTypeOK /\ PushParts BY PushInvParts
<1>2. /\ event[e].pc = "enqueue"
      /\ job' = [j \in JobIds |-> IF Queued(j, e) THEN [NoJob EXCEPT !.state = "waiting"] ELSE job[j]]
      /\ event' = [event EXCEPT ![e] = [event[e] EXCEPT !.pc = AfterPush(e)]]
      /\ UNCHANGED <<device, valid, pushed, unanswered>>
  BY DEF Enqueue
<1>3. event[e] \in Event BY <1>1 DEF PushTypeOK
<1>4. /\ [event[e] EXCEPT !.pc = AfterPush(e)] \in Event
      /\ event'[e].pc = AfterPush(e) /\ event'[e].to = event[e].to /\ event'[e].tokens = event[e].tokens
      /\ \A x \in Events : x # e => event'[x] = event[x]
  BY <1>1, <1>2, <1>3, AfterPushPlace DEF PushTypeOK, Event
<1>5. [NoJob EXCEPT !.state = "waiting"] \in Job /\ [NoJob EXCEPT !.state = "waiting"].state = "waiting"
      /\ [NoJob EXCEPT !.state = "waiting"].made = 0 /\ [NoJob EXCEPT !.state = "waiting"].stalled = 0
  BY DEF NoJob, Job
<1>6. ASSUME NEW j \in JobIds, Queued(j, e)
      PROVE  /\ job'[j] \in Job /\ job'[j].state = "waiting" /\ job'[j].made = 0 /\ job'[j].stalled = 0
             /\ job[j].state = "none" /\ pushed[j] = 0 /\ j \notin unanswered
             /\ j[1] = e /\ j[2] \in event[e].tokens
  <2>1. j[1] = e /\ j[2] \in event[e].tokens BY <1>6 DEF Queued
  <2>2. job[j].state = "none" BY <1>1, <1>2, <2>1 DEF PushParts, JobsCurrent
  <2>3. pushed[j] = 0 /\ j \notin unanswered BY <1>1, <2>2 DEF PushParts, JobsCurrent
  <2> QED BY <1>2, <1>5, <1>6, <2>1, <2>2, <2>3
<1>7. \A j \in JobIds : ~Queued(j, e) => job'[j] = job[j] BY <1>2
<1>8. PushTypeOK'
  <2>1. job' \in [JobIds -> Job] BY <1>1, <1>2, <1>5 DEF PushTypeOK
  <2> QED BY <1>1, <1>2, <1>4, <2>1 DEF PushTypeOK
<1>9. OneAtATime'
  <2>1. \A j \in JobIds : Working(j)' => Working(j) BY <1>6, <1>7 DEF Working, Refused
  <2> QED BY <1>1, <2>1 DEF PushParts, OneAtATime
<1>10. JobsCurrent'
  <2> SUFFICES ASSUME NEW j \in JobIds
               PROVE  /\ job'[j].state = "refused" => j[2] \notin valid'
                      /\ job'[j].state \in {"waiting", "active", "sent", "refused", "invalid"} => job'[j].made < Attempts /\ job'[j].stalled < 2
                      /\ job'[j].state = "none" => job'[j] = NoJob /\ pushed'[j] = 0 /\ j \notin unanswered'
                      /\ job'[j].state # "none" => j[2] \in event'[j[1]].tokens /\ event'[j[1]].pc \in {"mail", "done"}
    BY DEF JobsCurrent
  <2>1. CASE Queued(j, e) BY <1>2, <1>4, <1>6, <2>1, AfterPushPlace
  <2>2. CASE ~Queued(j, e)
    <3>1. /\ job[j].state = "refused" => j[2] \notin valid
          /\ job[j].state \in {"waiting", "active", "sent", "refused", "invalid"} => job[j].made < Attempts /\ job[j].stalled < 2
          /\ job[j].state = "none" => job[j] = NoJob /\ pushed[j] = 0 /\ j \notin unanswered
          /\ job[j].state # "none" => j[2] \in event[j[1]].tokens /\ event[j[1]].pc \in {"mail", "done"}
      BY <1>1 DEF PushParts, JobsCurrent
    <3>2. j[1] \in Events BY DEF JobIds
    <3> QED BY <1>2, <1>4, <1>7, <2>2, <3>1, <3>2
  <2> QED BY <2>1, <2>2
<1>11. PushesCurrent' BY <1>1, <1>2, <1>6, <1>7 DEF PushParts, PushesCurrent
<1>12. EventsCurrent' BY <1>1, <1>2, <1>4, AfterPushPlace DEF PushParts, EventsCurrent
<1>13. TokensUnique' /\ PushedOnceUnlessUnanswered'
  BY <1>1, <1>2 DEF PushParts, TokensUnique, PushedOnceUnlessUnanswered
<1> QED BY <1>8, <1>9, <1>10, <1>11, <1>12, <1>13, PushInvPartsNext DEF PushParts

(* Registrations come, change and go under the two unique keys. *)
DeviceStep ==
    \/ \E i \in Installations, t \in Tokens, u \in Owners \cup {Nobody} : Register(i, t, u) \/ UpdateDevice(i, t, u)
    \/ \E i \in Installations : ExpireDevice(i)
    \/ \E u \in Owners : RemoveDevices(u)
    \/ \E t \in Tokens : TokenDies(t)

LEMMA DeviceKeeps == ASSUME PushInv, DeviceStep PROVE PushInv'
<1>1. PushTypeOK /\ PushParts BY PushInvParts
<1>2. UNCHANGED <<event, job, pushed, unanswered>> /\ valid' \subseteq valid
  BY DEF DeviceStep, Register, UpdateDevice, ExpireDevice, RemoveDevices, TokenDies
<1>3. device' \in [Installations -> Device \cup {NoDevice}] /\ TokensUnique'
  <2>1. CASE \E i \in Installations, t \in Tokens, u \in Owners \cup {Nobody} : Register(i, t, u) \/ UpdateDevice(i, t, u)
    <3>1. PICK i \in Installations, t \in Tokens, u \in Owners \cup {Nobody} : Register(i, t, u) \/ UpdateDevice(i, t, u)
      BY <2>1
    <3> DEFINE d == [userId |-> u, fcmToken |-> t]
    <3>2. ~TokenTaken(t, i) /\ device' = [device EXCEPT ![i] = d] BY <3>1 DEF Register, UpdateDevice
    <3>3. d \in Device /\ d.fcmToken = t BY DEF Device
    <3> HIDE DEF d
    <3>4. device'[i] = d /\ \A k \in Installations : k # i => device'[k] = device[k]
      BY <1>1, <3>2 DEF PushTypeOK
    <3> QED BY <1>1, <3>2, <3>3, <3>4 DEF PushTypeOK, PushParts, TokensUnique, TokenTaken
  <2>2. CASE ~\E i \in Installations, t \in Tokens, u \in Owners \cup {Nobody} : Register(i, t, u) \/ UpdateDevice(i, t, u)
    <3>1. /\ device' \in [Installations -> Device \cup {NoDevice}]
          /\ \A i \in Installations : device'[i] \in {device[i], NoDevice}
      BY <1>1, <2>2 DEF DeviceStep, ExpireDevice, RemoveDevices, TokenDies, PushTypeOK
    <3> QED BY <1>1, <3>1 DEF PushParts, TokensUnique, PushTypeOK, Device, NoDevice
  <2> QED BY <2>1, <2>2
<1>4. PushTypeOK' BY <1>1, <1>2, <1>3 DEF PushTypeOK
<1>5. OneAtATime' /\ PushesCurrent' /\ EventsCurrent' /\ PushedOnceUnlessUnanswered'
  BY <1>1, <1>2 DEF PushParts, OneAtATime, PushesCurrent, EventsCurrent, PushedOnceUnlessUnanswered, Working, Refused
<1>6. JobsCurrent' BY <1>1, <1>2 DEF PushParts, JobsCurrent
<1> QED BY <1>3, <1>4, <1>5, <1>6, PushInvPartsNext DEF PushParts

(* A restart: a job at work waits again, or has stalled twice and fails. *)
LEMMA StallMoves ==
    ASSUME NEW k \in Job, k.stalled < 2
    PROVE  /\ Stall(k) \in Job /\ Stall(k).made = k.made
           /\ Stall(k).state \in {"waiting", "failed"}
           /\ Stall(k).state = "waiting" => Stall(k).stalled < 2
<1>1. CASE k.stalled = 0
  <2>1. Stall(k) = [k EXCEPT !.stalled = 1, !.state = "waiting"] BY <1>1 DEF Stall
  <2>2. Stall(k).state = "waiting" /\ Stall(k).stalled = 1 /\ Stall(k).made = k.made BY <2>1 DEF Job
  <2>3. Stall(k) \in Job
    <3> DEFINE r == [k EXCEPT !.stalled = 1]
    <3>1. r \in Job BY DEF Job
    <3>2. Stall(k) = [r EXCEPT !.state = "waiting"] BY <2>1
    <3> HIDE DEF r
    <3>3. [r EXCEPT !.state = "waiting"] \in Job BY <3>1, JobBecomes
    <3> QED BY <3>2, <3>3
  <2> QED BY <2>2, <2>3
<1>2. CASE k.stalled # 0
  <2>1. Stall(k) = [k EXCEPT !.stalled = 2, !.state = "failed"] BY <1>2 DEF Stall
  <2>2. Stall(k).state = "failed" /\ Stall(k).stalled = 2 /\ Stall(k).made = k.made BY <2>1 DEF Job
  <2>3. Stall(k) \in Job
    <3> DEFINE r == [k EXCEPT !.stalled = 2]
    <3>1. r \in Job BY DEF Job
    <3>2. Stall(k) = [r EXCEPT !.state = "failed"] BY <2>1
    <3> HIDE DEF r
    <3>3. [r EXCEPT !.state = "failed"] \in Job BY <3>1, JobBecomes
    <3> QED BY <3>2, <3>3
  <2> QED BY <2>2, <2>3
<1> QED BY <1>1, <1>2

LEMMA PushStopKeeps == ASSUME PushInv, PushStop PROVE PushInv'
<1>1. PushTypeOK /\ PushParts BY PushInvParts
<1>2. /\ job' = [j \in JobIds |-> IF Working(j) THEN Stall(job[j]) ELSE job[j]]
      /\ unanswered' = unanswered \cup {j \in JobIds : job[j].state = "sent"}
      /\ event' = [e \in Events |->
                      IF event[e].pc = "none" THEN event[e] ELSE [event[e] EXCEPT !.pc = "done"]]
      /\ UNCHANGED <<device, valid, pushed>>
  BY DEF PushStop
<1>3. ASSUME NEW e \in Events
      PROVE  /\ event'[e] \in Event /\ event'[e].to = event[e].to /\ event'[e].tokens = event[e].tokens
             /\ event'[e].pc = IF event[e].pc = "none" THEN "none" ELSE "done"
  <2>1. event[e] \in Event BY <1>1 DEF PushTypeOK
  <2>2. CASE event[e].pc = "none" BY <1>2, <2>1, <2>2
  <2>3. CASE event[e].pc # "none"
    <3>1. event'[e] = [event[e] EXCEPT !.pc = "done"] BY <1>2, <2>3
    <3> QED BY <2>1, <2>3, <3>1 DEF Event
  <2> QED BY <2>2, <2>3
<1>4. ASSUME NEW j \in JobIds, Working(j)
      PROVE  /\ job'[j] \in Job /\ job'[j].state \in {"waiting", "failed"}
             /\ job'[j].state = "waiting" => job'[j].made < Attempts /\ job'[j].stalled < 2
             /\ pushed[j] = 0 \/ j \in unanswered'
             /\ job[j].state # "none"
  <2>1. job[j].state \in {"active", "sent", "refused", "invalid"} BY <1>4 DEF Working, Refused
  <2>2. /\ job[j] \in Job /\ job[j].made < Attempts /\ job[j].stalled < 2
        /\ job[j].state \in {"active", "refused", "invalid"} => pushed[j] = 0 \/ j \in unanswered
    BY <2>1, JobAtWork
  <2>3. job'[j] = Stall(job[j]) BY <1>2, <1>4
  <2> QED BY <1>2, <2>1, <2>2, <2>3, StallMoves
<1>5. \A j \in JobIds : ~Working(j) => job'[j] = job[j] BY <1>2
<1>6. PushTypeOK'
  <2>1. job' \in [JobIds -> Job] BY <1>1, <1>2, <1>4, <1>5 DEF PushTypeOK
  <2>2. event' \in [Events -> Event] BY <1>2, <1>3
  <2>3. unanswered' \subseteq JobIds BY <1>1, <1>2 DEF PushTypeOK
  <2> QED BY <1>1, <1>2, <2>1, <2>2, <2>3 DEF PushTypeOK
<1>7. OneAtATime'
  <2>1. \A j \in JobIds : ~Working(j)' BY <1>4, <1>5 DEF Working, Refused
  <2> QED BY <2>1 DEF OneAtATime
<1>8. JobsCurrent'
  <2> SUFFICES ASSUME NEW j \in JobIds
               PROVE  /\ job'[j].state = "refused" => j[2] \notin valid'
                      /\ job'[j].state \in {"waiting", "active", "sent", "refused", "invalid"} => job'[j].made < Attempts /\ job'[j].stalled < 2
                      /\ job'[j].state = "none" => job'[j] = NoJob /\ pushed'[j] = 0 /\ j \notin unanswered'
                      /\ job'[j].state # "none" => j[2] \in event'[j[1]].tokens /\ event'[j[1]].pc \in {"mail", "done"}
    BY DEF JobsCurrent
  <2>1. /\ job[j].state = "refused" => j[2] \notin valid
        /\ job[j].state \in {"waiting", "active", "sent", "refused", "invalid"} => job[j].made < Attempts /\ job[j].stalled < 2
        /\ job[j].state = "none" => job[j] = NoJob /\ pushed[j] = 0 /\ j \notin unanswered
        /\ job[j].state # "none" => j[2] \in event[j[1]].tokens /\ event[j[1]].pc \in {"mail", "done"}
    BY <1>1 DEF PushParts, JobsCurrent
  <2>2. j[1] \in Events BY DEF JobIds
  <2>3. CASE Working(j) BY <1>3, <1>4, <2>1, <2>2, <2>3
  <2>4. CASE ~Working(j)
    <3>1. job'[j] = job[j] BY <1>5, <2>4
    <3> QED BY <1>2, <1>3, <2>1, <2>2, <2>4, <3>1
  <2> QED BY <2>3, <2>4
<1>9. PushesCurrent' BY <1>1, <1>2, <1>4, <1>5 DEF PushParts, PushesCurrent, Working, Refused
<1>10. EventsCurrent' BY <1>1, <1>3 DEF PushParts, EventsCurrent
<1>11. TokensUnique' /\ PushedOnceUnlessUnanswered'
  BY <1>1, <1>2 DEF PushParts, TokensUnique, PushedOnceUnlessUnanswered
<1> QED BY <1>6, <1>7, <1>8, <1>9, <1>10, <1>11, PushInvPartsNext DEF PushParts

LEMMA PushUntouched == ASSUME PushInv, UNCHANGED pushVars PROVE PushInv'
<1>1. PushTypeOK /\ PushParts BY PushInvParts
<1>2. PushTypeOK' BY <1>1 DEF pushVars, PushTypeOK
<1>3. PushParts'
  BY <1>1 DEF pushVars, PushParts, TokensUnique, OneAtATime, JobsCurrent, PushesCurrent, EventsCurrent,
     PushedOnceUnlessUnanswered, Working, Refused
<1> QED BY <1>2, <1>3, PushInvPartsNext

LEMMA PushKeep ==
    ASSUME PushInv, PushNext \/ PushStop \/ UNCHANGED pushVars
    PROVE  PushInv'
<1>1. CASE PushNext
  <2>1. CASE DeviceStep BY <2>1, DeviceKeeps
  <2>2. CASE \E e \in Events : LoseEvent(e) \/ EventSteps(e)
    BY <2>2, DispatchKeeps, EnqueueKeeps DEF EventSteps
  <2>3. CASE \E e \in Events : \E u \in Owners : NotifyMember(e, u)
    BY <2>3, NotifyKeeps DEF NotifyMember
  <2>4. CASE \E j \in JobIds : WorkerSteps(j) BY <2>4, WorkerKeeps
  <2> QED BY <1>1, <2>1, <2>2, <2>3, <2>4 DEF PushNext, DeviceStep
<1> QED BY <1>1, PushStopKeeps, PushUntouched

-----------------------------------------------------------------------------
(* The two together *)

(* A handler that is done stays done, and a saved message keeps its sender. *)
LEMMA DoneStays ==
    ASSUME MessagesInv,
           MessagesNext \/ (\E k \in MessageIds : Announce(k)) \/ MessagesStop \/ UNCHANGED messageVars,
           NEW m \in MessageIds, SendAt(m, "done")
    PROVE  SendAt(m, "done")' /\ message'[m].sender = message[m].sender
<1>1. MessagesTypeOK /\ SendsCurrent BY DEF MessagesInv
<1>2. message \in [MessageIds -> Message] /\ message[m] \in Message BY <1>1 DEF MessagesTypeOK
<1>3. CASE \E k \in MessageIds : SendStep(k)
  <2>1. PICK k \in MessageIds : SendStep(k) BY <1>3
  <2>2. send[k][1] # "done"
    BY <2>1 DEF SendStep, StartSend, SaveMessage, TouchRoom, Announce, FailSend, SendAt
  <2>3. k # m BY <2>2 DEF SendAt
  <2>4. PICK new : send' = [send EXCEPT ![k] = new]
    BY <2>1 DEF SendStep, StartSend, SaveMessage, TouchRoom, Announce, FailSend
  <2>5. send'[m] = send[m] BY <1>1, <2>3, <2>4 DEF MessagesTypeOK
  <2>6. message' = message \/ \E put : message' = [message EXCEPT ![k] = put]
    BY <2>1 DEF SendStep, StartSend, SaveMessage, TouchRoom, Announce, FailSend, MarkDelivered
  <2>7. message'[m] = message[m] BY <1>2, <2>3, <2>6
  <2> QED BY <2>5, <2>7 DEF SendAt
<1>4. CASE MessageStep
  <2>1. send' = send BY <1>4 DEF MessageStep, MarkAsRead, DeleteMessage, RemoveReader
  <2>2. CASE \E s \in Sockets, k \in MessageIds : MarkAsRead(s, k)
    <3>1. PICK s \in Sockets, k \in MessageIds : MarkAsRead(s, k) BY <2>2
    <3>2. message' = [message EXCEPT ![k] = [message[k] EXCEPT
             !.status = "read", !.readBy = message[k].readBy \cup {socket[s].userId}]]
      BY <3>1 DEF MarkAsRead
    <3>3. message'[m].sender = message[m].sender
      <4>1. CASE m = k
        <5>1. message'[m] = [message[m] EXCEPT !.status = "read",
                               !.readBy = message[m].readBy \cup {socket[s].userId}]
          BY <1>2, <3>2, <4>1
        <5> QED BY <1>2, <5>1 DEF Message
      <4>2. CASE m # k BY <1>2, <3>2, <4>2
      <4> QED BY <4>1, <4>2
    <3> QED BY <2>1, <3>3 DEF SendAt
  <2>3. CASE \E k \in MessageIds : DeleteMessage(k)
    <3>1. PICK k \in MessageIds : message' = [message EXCEPT ![k] = [message[k] EXCEPT !.isDeleted = TRUE]]
      BY <2>3 DEF DeleteMessage
    <3>2. message'[m].sender = message[m].sender
      <4>1. CASE m = k
        <5>1. message'[m] = [message[m] EXCEPT !.isDeleted = TRUE] BY <1>2, <3>1, <4>1
        <5> QED BY <1>2, <5>1 DEF Message
      <4>2. CASE m # k BY <1>2, <3>1, <4>2
      <4> QED BY <4>1, <4>2
    <3> QED BY <2>1, <3>2 DEF SendAt
  <2>4. CASE \E u \in Users : RemoveReader(u)
    <3>1. PICK u \in Users : RemoveReader(u) BY <2>4
    <3>2. message'[m] = [message[m] EXCEPT !.readBy = message[m].readBy \ {u}] BY <3>1 DEF RemoveReader
    <3>3. message'[m].sender = message[m].sender BY <1>2, <3>2 DEF Message
    <3> QED BY <2>1, <3>3 DEF SendAt
  <2> QED BY <1>4, <2>2, <2>3, <2>4 DEF MessageStep
<1>5. CASE (\E s \in Sockets : SocketStep(s)) \/ RoomStep \/ UNCHANGED messageVars
  <2>1. UNCHANGED <<send, message>>
    BY <1>5 DEF SocketStep, Connect, FindRooms, JoinRooms, Disconnect, JoinChatRoom, LeaveChatRoom,
       RoomStep, OpenRoom, OpenQuietly, Invite, RemoveParticipant, messageVars
  <2> QED BY <2>1 DEF SendAt
<1>6. CASE MessagesStop
  <2>1. message' = message /\ send'[m] = send[m] BY <1>6 DEF MessagesStop, SendAt
  <2> QED BY <2>1 DEF SendAt
<1>7. MessagesNext => \/ \E s \in Sockets : SocketStep(s)
                      \/ RoomStep \/ MessageStep \/ \E k \in MessageIds : SendStep(k)
  BY DEF MessagesNext, SocketStep, RoomStep, SendStep, MessageStep, ConnectionSteps, SendSteps
<1> QED BY <1>3, <1>4, <1>5, <1>6, <1>7 DEF SendStep

(* A dispatch that has begun keeps whom it is for, and only a notice or an
   announcement begins one. *)
LEMMA EventsKept ==
    ASSUME PushInv, PushNext \/ PushStop \/ UNCHANGED pushVars, NEW m \in ChatEvents
    PROVE  event'[m].to = event[m].to /\ (event'[m].pc # "none" => event[m].pc # "none")
<1>1. PushTypeOK BY DEF PushInv
<1>2. m \in Events /\ m \notin MemberEvents BY DEF Events
<1>3. event[m] \in Event BY <1>1, <1>2 DEF PushTypeOK
<1>4. CASE DeviceStep \/ (\E j \in JobIds : WorkerSteps(j)) \/ UNCHANGED pushVars
  <2>1. event' = event
    BY <1>4 DEF DeviceStep, Register, UpdateDevice, ExpireDevice, RemoveDevices, TokenDies, pushVars,
       WorkerSteps, TakeJob, SendAccepted, SendRefused, SendInvalid, SendFails, Complete, AnswerLost, Prune, PruneFails
  <2> QED BY <2>1
<1>5. CASE \E e \in Events : LoseEvent(e) \/ EventSteps(e)
  <2>1. PICK e \in Events : LoseEvent(e) \/ EventSteps(e) BY <1>5
  <2>2. event[e].pc # "none"
    BY <2>1 DEF LoseEvent, EventSteps, FindDevices, Enqueue, SendEmail
  <2>3. \/ \E pc : event' = [event EXCEPT ![e] = [event[e] EXCEPT !.pc = pc]]
        \/ \E pc, tokens : event' = [event EXCEPT ![e] = [event[e] EXCEPT !.tokens = tokens, !.pc = pc]]
    BY <2>1 DEF LoseEvent, EventSteps, FindDevices, Enqueue, SendEmail
  <2>4. CASE m # e
    <3>1. event'[m] = event[m] BY <1>1, <1>2, <2>3, <2>4 DEF PushTypeOK
    <3> QED BY <3>1
  <2>5. CASE m = e
    <3>1. \/ \E pc : event'[m] = [event[m] EXCEPT !.pc = pc]
          \/ \E pc, tokens : event'[m] = [event[m] EXCEPT !.tokens = tokens, !.pc = pc]
      BY <1>1, <1>2, <2>3, <2>5 DEF PushTypeOK
    <3>2. event'[m].to = event[m].to BY <1>3, <3>1 DEF Event
    <3> QED BY <2>2, <2>5, <3>2
  <2> QED BY <2>4, <2>5
<1>6. CASE \E e \in Events : \E u \in Owners : NotifyMember(e, u)
  <2>1. PICK e \in MemberEvents : \E new : event' = [event EXCEPT ![e] = new]
    BY <1>6 DEF NotifyMember, Notify
  <2>2. event'[m] = event[m] BY <1>1, <1>2, <2>1 DEF PushTypeOK
  <2> QED BY <2>2
<1>7. CASE PushStop
  <2>1. event'[m] = IF event[m].pc = "none" THEN event[m] ELSE [event[m] EXCEPT !.pc = "done"]
    BY <1>2, <1>7 DEF PushStop
  <2>2. CASE event[m].pc = "none" BY <2>1, <2>2
  <2>3. CASE event[m].pc # "none"
    <3>1. event'[m] = [event[m] EXCEPT !.pc = "done"] BY <2>1, <2>3
    <3> QED BY <1>3, <2>3, <3>1 DEF Event
  <2> QED BY <2>2, <2>3
<1> QED BY <1>4, <1>5, <1>6, <1>7 DEF PushNext, DeviceStep

LEMMA DeliveryStart == Init => DeliveryInv
<1> SUFFICES ASSUME Init PROVE DeliveryInv
  OBVIOUS
<1>1. NoEvent.pc = "none" BY DEF NoEvent
<1>2. EventsOfMessages BY <1>1 DEF Init, PushInit, EventsOfMessages, Events
<1> QED BY <1>2, MessagesStart, PushStart DEF Init, DeliveryInv

(* The steps of the two halves, apart or in a restart. *)
LEMMA HalvesKeep ==
    ASSUME DeliveryInv,
           MessagesNext \/ MessagesStop \/ UNCHANGED messageVars,
           PushNext \/ PushStop \/ UNCHANGED pushVars
    PROVE  DeliveryInv'
<1>1. MessagesInv /\ PushInv /\ EventsOfMessages BY DEF DeliveryInv
<1>2. MessagesInv' /\ PushInv' BY <1>1, MessagesKeep, PushKeep
<1>3. EventsOfMessages'
  <2> SUFFICES ASSUME NEW m \in MessageIds, event'[m].pc # "none"
               PROVE  SendAt(m, "done")' /\ event'[m].to # message'[m].sender
    BY DEF EventsOfMessages
  <2>1. event'[m].to = event[m].to /\ event[m].pc # "none" BY <1>1, EventsKept
  <2>2. SendAt(m, "done") /\ event[m].to # message[m].sender BY <1>1, <2>1 DEF EventsOfMessages
  <2> QED BY <1>1, <2>1, <2>2, DoneStays
<1> QED BY <1>2, <1>3 DEF DeliveryInv

(* The announced message goes to the other member, whose dispatch begins. *)
LEMMA AnnounceKeeps ==
    ASSUME DeliveryInv, NEW m \in MessageIds, AnnounceMessage(m)
    PROVE  DeliveryInv'
<1>1. MessagesInv /\ PushInv /\ EventsOfMessages BY DEF DeliveryInv
<1>2. /\ Announce(m) /\ UNCHANGED <<device, valid, job, pushed, unanswered>>
      /\ event' = [event EXCEPT ![m] =
                      IF Recipients(m) = {} THEN event[m] ELSE Begun(m, CHOOSE u \in Recipients(m) : TRUE)]
  BY DEF AnnounceMessage
<1>3. m \in Events /\ event \in [Events -> Event] /\ event[m] \in Event
  BY <1>1 DEF PushInv, PushTypeOK, Events
<1>4. MessagesInv' BY <1>1, <1>2, MessagesKeep
<1>5. SendAt(m, "announce") BY <1>2 DEF Announce
<1>6. event[m].pc = "none" BY <1>1, <1>5 DEF EventsOfMessages, SendAt
<1>7. event[m] = NoEvent
  <2>1. event[m].to = Nobody /\ event[m].tokens = {} BY <1>1, <1>3, <1>6 DEF PushInv, EventsCurrent
  <2> QED BY <1>3, <1>6, <2>1 DEF Event, NoEvent
<1>8. message[m].sender = From(m) BY <1>1, <1>5 DEF MessagesInv, SendsCurrent, SendAt
<1>9. SendAt(m, "done")' /\ message'[m].sender = From(m)
  <2>1. OnlineRecipients(m) = {} BY DEF OnlineRecipients, ParticipantKey
  <2>2. message' = message /\ send' = [send EXCEPT ![m] = <<"done", From(m)>>]
    BY <1>2, <2>1 DEF Announce, MarkDelivered
  <2>3. send'[m] = <<"done", From(m)>> BY <1>1, <2>2 DEF MessagesInv, MessagesTypeOK
  <2> QED BY <1>8, <2>2, <2>3 DEF SendAt
<1>10. PushInv' /\ (event'[m].pc # "none" => event'[m].to # From(m))
  <2>1. CASE Recipients(m) = {}
    <3>1. event' = event BY <1>2, <1>3, <2>1
    <3>2. UNCHANGED pushVars BY <1>2, <3>1 DEF pushVars
    <3> QED BY <1>1, <1>6, <3>1, <3>2, PushUntouched
  <2>2. CASE Recipients(m) # {}
    <3> DEFINE u == CHOOSE x \in Recipients(m) : TRUE
    <3>1. u \in Recipients(m) BY <2>2
    <3>2. event' = [event EXCEPT ![m] = Begun(m, u)] BY <1>2, <2>2
    <3> HIDE DEF u
    <3>3. u \in Owners /\ u # From(m)
      BY <1>1, <3>1 DEF MessagesInv, MessagesTypeOK, Recipients
    <3>4. Notify(m, u) BY <1>2, <1>7, <3>2 DEF Notify
    <3>5. event'[m] = Begun(m, u) /\ Begun(m, u).to = u BY <1>3, <3>2 DEF Begun, NoEvent
    <3> QED BY <1>1, <1>3, <3>3, <3>4, <3>5, NotifyKeeps
  <2> QED BY <2>1, <2>2
<1>11. EventsOfMessages'
  <2> SUFFICES ASSUME NEW k \in MessageIds, event'[k].pc # "none"
               PROVE  SendAt(k, "done")' /\ event'[k].to # message'[k].sender
    BY DEF EventsOfMessages
  <2>1. CASE k = m BY <1>9, <1>10, <2>1
  <2>2. CASE k # m
    <3>1. event'[k] = event[k] BY <1>2, <1>3, <2>2 DEF Events
    <3>2. SendAt(k, "done") /\ event[k].to # message[k].sender BY <1>1, <3>1 DEF EventsOfMessages
    <3> QED BY <1>1, <1>2, <3>1, <3>2, DoneStays
  <2> QED BY <2>1, <2>2
<1> QED BY <1>4, <1>10, <1>11 DEF DeliveryInv

LEMMA RequestKeeps ==
    ASSUME DeliveryInv, NEW e \in ChatEvents \ MessageIds, NEW u \in Users,
           NotifyRequest(e, u), UNCHANGED messageVars
    PROVE  DeliveryInv'
<1>1. MessagesInv /\ PushInv /\ EventsOfMessages BY DEF DeliveryInv
<1>2. MessagesInv' /\ PushInv'
  BY <1>1, MessagesKeep, NotifyKeeps DEF NotifyRequest, Events
<1>3. \A m \in MessageIds : event'[m] = event[m]
  <2>1. event' = [event EXCEPT ![e] = Begun(e, u)] BY DEF NotifyRequest, Notify
  <2> QED BY <1>1, <2>1 DEF PushInv, PushTypeOK, Events
<1>4. EventsOfMessages' BY <1>1, <1>3 DEF EventsOfMessages, SendAt, messageVars
<1> QED BY <1>2, <1>4 DEF DeliveryInv

LEMMA DeliveryStep == DeliveryInv /\ [Next]_vars => DeliveryInv'
<1> SUFFICES ASSUME DeliveryInv, [Next]_vars PROVE DeliveryInv'
  OBVIOUS
<1>1. UNCHANGED vars => UNCHANGED messageVars /\ UNCHANGED pushVars BY DEF vars, messageVars, pushVars
<1> QED BY <1>1, HalvesKeep, AnnounceKeeps, RequestKeeps DEF Next, Restart

-----------------------------------------------------------------------------
(* Theorems *)

(* Whatever the sockets, handlers, dispatches and jobs do, and through every
   restart: userSockets is exact, what was read stays read, a push is only for
   the other member and of a message that is there, one job is worked on at a
   time, and no two devices share a token. *)
THEOREM DeliveryHolds == Spec => []DeliveryInv
<1>1. Init => DeliveryInv BY DeliveryStart
<1>2. DeliveryInv /\ [Next]_vars => DeliveryInv' BY DeliveryStep
<1> QED BY <1>1, <1>2, PTL DEF Spec

(* A participant's socket that is set up hears the room, was told to join it,
   or left it, unless it was connected as the room opened. *)
THEOREM OnlineHears == Spec => []OnlineHearsUnlessOpening
<1>1. DeliveryInv => OnlineHearsUnlessOpening BY DEF DeliveryInv, MessagesInv
<1> QED BY <1>1, DeliveryHolds, PTL

(* The room names the message that was inserted last, unless two messages were
   between their two calls at once, or the last one's handler ended there. *)
THEOREM LastMessageKept == Spec => []LastMessageUnlessOverlap
<1>1. DeliveryInv => LastMessageUnlessOverlap BY DEF DeliveryInv, MessagesInv
<1> QED BY <1>1, DeliveryHolds, PTL

(* Firebase takes the push of a job once, unless one it took was not seen to
   succeed: whatever the retries, the stalls and the restarts. *)
THEOREM PushedOnce == Spec => []PushedOnceUnlessUnanswered
<1>1. DeliveryInv => PushedOnceUnlessUnanswered BY DEF DeliveryInv, PushInv
<1> QED BY <1>1, DeliveryHolds, PTL

(* A job at work changes either no device, or is not what changed. *)
LEMMA OnlyPruneTakes ==
    PushNext \/ PushStop \/ UNCHANGED pushVars =>
        UNCHANGED device \/ UNCHANGED job \/ \E j \in JobIds : Prune(j)
BY DEF PushNext, PushStop, pushVars, Register, UpdateDevice, ExpireDevice, RemoveDevices, TokenDies,
   LoseEvent, EventSteps, FindDevices, Enqueue, SendEmail, NotifyMember, Notify,
   WorkerSteps, TakeJob, SendAccepted, SendRefused, SendInvalid, SendFails, Complete, AnswerLost, PruneFails

LEMMA PruneTakesItsToken ==
    ASSUME PushInv, NEW k \in JobIds, Prune(k),
           NEW j \in JobIds, Refused(j), job'[j].state = "done",
           NEW i \in Installations, device'[i] # device[i]
    PROVE  device[i].fcmToken = j[2] /\ (j[2] \in valid => job[j].state = "invalid")
<1>1. job' = [job EXCEPT ![k] = [job[k] EXCEPT !.state = "done"]] BY DEF Prune, Becomes
<1>2. j = k BY <1>1 DEF PushInv, PushTypeOK, Refused
<1>3. j[2] \in valid => job[j].state # "refused" BY DEF PushInv, JobsCurrent
<1>4. device[i].fcmToken = k[2] BY DEF Prune
<1> QED BY <1>2, <1>3, <1>4 DEF Refused

(* The worker that deletes a device by the token its job was made with takes,
   however late it comes, no other device, and this one only if the token is
   dead or Firebase called that job's message invalid. *)
THEOREM OnlyDeadPruned == Spec => OnlyDeadTokensPrunedUnlessInvalid
<1> DEFINE A == \A j \in JobIds : Refused(j) /\ job'[j].state = "done" =>
                  \A i \in Installations : device'[i] # device[i] =>
                      device[i].fcmToken = j[2] /\ (j[2] \in valid => job[j].state = "invalid")
<1>1. DeliveryInv /\ [Next]_vars => [A]_pushVars
  <2> SUFFICES ASSUME DeliveryInv, [Next]_vars PROVE A \/ UNCHANGED pushVars
    OBVIOUS
  <2>1. PushInv BY DEF DeliveryInv
  <2>2. UNCHANGED device \/ UNCHANGED job \/ \E j \in JobIds : Prune(j)
    <3>1. PushNext \/ PushStop \/ UNCHANGED pushVars \/ UNCHANGED device
      BY DEF Next, Restart, AnnounceMessage, NotifyRequest, Notify, vars, pushVars
    <3> QED BY <3>1, OnlyPruneTakes
  <2>3. CASE UNCHANGED device BY <2>3
  <2>4. CASE UNCHANGED job BY <2>4 DEF Refused
  <2>5. CASE \E j \in JobIds : Prune(j) BY <2>1, <2>5, PruneTakesItsToken
  <2> QED BY <2>2, <2>3, <2>4, <2>5
<1> QED BY <1>1, DeliveryHolds, PTL DEF Spec, OnlyDeadTokensPrunedUnlessInvalid

-----------------------------------------------------------------------------
(* The server's work counts down.  First the places, then each half. *)

LEMMA PlacesNatural ==
    /\ \A x : SendPlace(x) \in Nat /\ SocketPlace(x) \in Nat /\ RoomPlace(x) \in Nat /\ EventPlace(x) \in Nat
    /\ \A k \in Job : JobPlace(k) \in Nat
<1>1. \A x : SendPlace(x) \in Nat /\ SocketPlace(x) \in Nat /\ RoomPlace(x) \in Nat /\ EventPlace(x) \in Nat
  BY DEF SendPlace, SocketPlace, RoomPlace, EventPlace
<1>2. ASSUME NEW k \in Job PROVE JobPlace(k) \in Nat
  <2>1. Attempts - k.made \in Nat /\ 2 - k.stalled \in Nat BY DEF Job
  <2> QED BY <2>1 DEF JobPlace
<1> QED BY <1>1, <1>2

SendsDown == \A m \in MessageIds : SendPlace(send'[m][1]) <= SendPlace(send[m][1])
SocketsDown == \A s \in Sockets : SocketPlace(socket'[s].state) <= SocketPlace(socket[s].state)
EventsDown == \A e \in Events : EventPlace(event'[e].pc) <= EventPlace(event[e].pc)
JobsDown == \A j \in JobIds : JobPlace(job'[j]) <= JobPlace(job[j])

LEMMA SendDown ==
    ASSUME MessagesTypeOK, NEW m \in MessageIds, NEW p, send' = [send EXCEPT ![m] = p],
           SendPlace(p[1]) < SendPlace(send[m][1])
    PROVE  SendsDown /\ SendPlace(send'[m][1]) < SendPlace(send[m][1])
<1>1. send'[m] = p /\ \A k \in MessageIds \ {m} : send'[k] = send[k] BY DEF MessagesTypeOK
<1>2. \A k \in MessageIds : SendPlace(send[k][1]) \in Nat BY PlacesNatural
<1>3. SendPlace(p[1]) \in Nat BY PlacesNatural
<1> QED BY <1>1, <1>2, <1>3 DEF SendsDown

LEMMA SocketDown ==
    ASSUME MessagesTypeOK, NEW s \in Sockets, NEW k, socket' = [socket EXCEPT ![s] = k],
           SocketPlace(k.state) <= SocketPlace(socket[s].state)
    PROVE  SocketsDown /\ SocketPlace(socket'[s].state) = SocketPlace(k.state)
<1>1. socket'[s] = k /\ \A x \in Sockets \ {s} : socket'[x] = socket[x] BY DEF MessagesTypeOK
<1>2. \A x \in Sockets : SocketPlace(socket[x].state) \in Nat BY PlacesNatural
<1> QED BY <1>1, <1>2 DEF SocketsDown

LEMMA MessagesStand ==
    /\ UNCHANGED send => SendsDown
    /\ UNCHANGED socket => SocketsDown
    /\ UNCHANGED opening => RoomPlace(opening') <= RoomPlace(opening)
  BY PlacesNatural DEF SendsDown, SocketsDown

(* The two calls that set a connection up, and what else moves a socket. *)
LEMMA ConnectionsGoOn ==
    ASSUME MessagesInv, NEW s \in Sockets, ConnectionSteps(s)
    PROVE  SocketsDown /\ SocketPlace(socket'[s].state) < SocketPlace(socket[s].state)
<1>1. MessagesTypeOK /\ socket[s] \in Connection BY DEF MessagesInv, MessagesTypeOK
<1>2. CASE FindRooms(s)
  <2>1. PICK found : socket' = [socket EXCEPT ![s] = [socket[s] EXCEPT !.state = "join", !.found = found]]
    BY <1>2 DEF FindRooms
  <2>2. [socket[s] EXCEPT !.state = "join", !.found = found].state = "join" BY <1>1 DEF Connection
  <2>3. SocketPlace("join") = 2 /\ SocketPlace(socket[s].state) = 3 BY <1>2 DEF FindRooms, SocketPlace
  <2>4. SocketPlace([socket[s] EXCEPT !.state = "join", !.found = found].state) = 2
    BY <2>2, <2>3
  <2>5. SocketPlace([socket[s] EXCEPT !.state = "join", !.found = found].state) <= SocketPlace(socket[s].state)
    BY <2>3, <2>4
  <2>6. SocketsDown /\ SocketPlace(socket'[s].state) = 2 BY <1>1, <2>1, <2>4, <2>5, SocketDown
  <2> QED BY <2>3, <2>6
<1>3. CASE JoinRooms(s)
  <2>1. PICK channel : socket' = [socket EXCEPT ![s] = [socket[s] EXCEPT !.state = "on", !.channel = channel]]
    BY <1>3 DEF JoinRooms
  <2>2. [socket[s] EXCEPT !.state = "on", !.channel = channel].state = "on" BY <1>1 DEF Connection
  <2>3. SocketPlace("on") = 1 /\ SocketPlace(socket[s].state) = 2 BY <1>3 DEF JoinRooms, SocketPlace
  <2>4. SocketPlace([socket[s] EXCEPT !.state = "on", !.channel = channel].state) = 1
    BY <2>2, <2>3
  <2>5. SocketPlace([socket[s] EXCEPT !.state = "on", !.channel = channel].state) <= SocketPlace(socket[s].state)
    BY <2>3, <2>4
  <2>6. SocketsDown /\ SocketPlace(socket'[s].state) = 1 BY <1>1, <2>1, <2>4, <2>5, SocketDown
  <2> QED BY <2>3, <2>6
<1> QED BY <1>2, <1>3 DEF ConnectionSteps

LEMMA SocketSteps ==
    ASSUME MessagesInv, NEW s \in Sockets, NEW u \in Users,
           Connect(s, u) \/ Disconnect(s) \/ JoinChatRoom(s) \/ LeaveChatRoom(s)
    PROVE  SocketsDown
<1>1. MessagesTypeOK /\ socket[s] \in Connection BY DEF MessagesInv, MessagesTypeOK
<1>2. CASE Connect(s, u)
  <2> DEFINE k == [NewSocket EXCEPT !.userId = u, !.state = "find"]
  <2>1. k.state = "find" BY DEF NewSocket
  <2>2. SocketPlace(k.state) <= SocketPlace(socket[s].state)
    BY <1>2, <2>1 DEF Connect, SocketPlace
  <2>3. socket' = [socket EXCEPT ![s] = k] BY <1>2 DEF Connect
  <2> QED BY <1>1, <2>2, <2>3, SocketDown
<1>3. CASE Disconnect(s)
  <2> DEFINE k == [socket[s] EXCEPT !.state = "gone", !.channel = "out"]
  <2>1. k.state = "gone" BY <1>1 DEF Connection
  <2>2. SocketPlace(k.state) <= SocketPlace(socket[s].state)
    BY <2>1 DEF SocketPlace
  <2>3. socket' = [socket EXCEPT ![s] = k] BY <1>3 DEF Disconnect
  <2> QED BY <1>1, <2>2, <2>3, SocketDown
<1>4. CASE JoinChatRoom(s) \/ LeaveChatRoom(s)
  <2>1. PICK channel : socket' = [socket EXCEPT ![s] = [socket[s] EXCEPT !.channel = channel]]
    BY <1>4 DEF JoinChatRoom, LeaveChatRoom
  <2>2. [socket[s] EXCEPT !.channel = channel].state = socket[s].state BY <1>1 DEF Connection
  <2>3. SocketPlace(socket[s].state) <= SocketPlace(socket[s].state) BY PlacesNatural
  <2> QED BY <1>1, <2>1, <2>2, <2>3, SocketDown
<1> QED BY <1>2, <1>3, <1>4

LEMMA InviteGoesOn ==
    ASSUME MessagesInv, Invite
    PROVE  SocketsDown /\ RoomPlace(opening') < RoomPlace(opening)
<1>1. ASSUME NEW s \in Sockets PROVE socket'[s].state = socket[s].state
  <2>1. socket[s] \in Connection BY DEF MessagesInv, MessagesTypeOK
  <2>2. socket'[s] = [socket[s] EXCEPT !.channel = "invited"] \/ socket'[s] = socket[s]
    BY DEF Invite
  <2> QED BY <2>1, <2>2 DEF Connection
<1> QED BY <1>1, PlacesNatural DEF SocketsDown, Invite, RoomPlace

LEMMA SendsGoOn ==
    ASSUME MessagesInv, NEW m \in MessageIds,
           SendSteps(m) \/ Announce(m) \/ FailSend(m) \/ \E s \in Sockets : StartSend(s, m)
    PROVE  SendsDown /\ SendPlace(send'[m][1]) < SendPlace(send[m][1])
<1>1. PICK pc \in {"save", "touch", "announce", "done", "failed"} :
        /\ \E u : send' = [send EXCEPT ![m] = <<pc, u>>]
        /\ SendPlace(pc) < SendPlace(send[m][1])
  BY DEF SendSteps, SaveMessage, TouchRoom, Announce, FailSend, StartSend, SendAt, SendPlace
<1>2. PICK u : send' = [send EXCEPT ![m] = <<pc, u>>] BY <1>1
<1>3. <<pc, u>>[1] = pc OBVIOUS
<1> QED BY <1>1, <1>2, <1>3, SendDown DEF MessagesInv

LEMMA StopDown ==
    ASSUME MessagesInv, MessagesStop
    PROVE  SendsDown /\ SocketsDown /\ RoomPlace(opening') <= RoomPlace(opening)
<1>1. ASSUME NEW m \in MessageIds PROVE SendPlace(send'[m][1]) <= SendPlace(send[m][1])
  <2>1. send'[m] = <<"failed", From(m)>> \/ send'[m] = send[m] BY DEF MessagesStop
  <2>2. SendPlace("failed") = 0 BY DEF SendPlace
  <2> QED BY <2>1, <2>2, PlacesNatural
<1>2. ASSUME NEW s \in Sockets PROVE SocketPlace(socket'[s].state) <= SocketPlace(socket[s].state)
  <2>1. socket[s] \in Connection BY DEF MessagesInv, MessagesTypeOK
  <2>2. socket'[s] = [socket[s] EXCEPT !.state = "gone", !.channel = "out"] \/ socket'[s] = socket[s]
    BY DEF MessagesStop
  <2>3. socket'[s].state \in {"gone", socket[s].state} BY <2>1, <2>2 DEF Connection
  <2>4. SocketPlace("gone") = 0 BY DEF SocketPlace
  <2> QED BY <2>3, <2>4, PlacesNatural
<1>3. RoomPlace(opening') <= RoomPlace(opening)
  <2>1. opening' = opening \/ (opening = "accepted" /\ opening' = "open") BY DEF MessagesStop
  <2>2. RoomPlace("accepted") = 1 /\ RoomPlace("open") = 0 BY DEF RoomPlace
  <2> QED BY <2>1, <2>2, PlacesNatural
<1> QED BY <1>1, <1>2, <1>3 DEF SendsDown, SocketsDown

LEMMA MessagesDown ==
    ASSUME MessagesInv,
           \/ MessagesNext \/ MessagesStop \/ UNCHANGED messageVars
           \/ \E m \in MessageIds : Announce(m)
    PROVE  SendsDown /\ SocketsDown /\ RoomPlace(opening') <= RoomPlace(opening)
<1>1. CASE MessagesStop BY <1>1, StopDown
<1>2. CASE \E s \in Sockets : \/ \E u \in Users : Connect(s, u)
                              \/ ConnectionSteps(s) \/ Disconnect(s) \/ JoinChatRoom(s) \/ LeaveChatRoom(s)
  <2>1. SocketsDown
    <3>1. PICK s \in Sockets : \/ \E u \in Users : Connect(s, u)
                               \/ ConnectionSteps(s) \/ Disconnect(s) \/ JoinChatRoom(s) \/ LeaveChatRoom(s)
      BY <1>2
    <3>2. CASE ConnectionSteps(s) BY <3>2, ConnectionsGoOn
    <3>3. CASE ~ConnectionSteps(s)
      <4>1. CASE \E u \in Users : Connect(s, u) BY <4>1, SocketSteps
      <4>2. CASE Disconnect(s) \/ JoinChatRoom(s) \/ LeaveChatRoom(s)
        <5>1. socket[s].userId \in Users
          BY <4>2 DEF MessagesInv, ConnectionsCurrent, MessagesTypeOK, Connection, Disconnect,
             JoinChatRoom, LeaveChatRoom
        <5> QED BY <4>2, <5>1, SocketSteps
      <4> QED BY <3>1, <3>3, <4>1, <4>2
    <3> QED BY <3>2, <3>3
  <2>2. UNCHANGED <<send, opening>>
    BY <1>2 DEF Connect, ConnectionSteps, FindRooms, JoinRooms, Disconnect, JoinChatRoom, LeaveChatRoom
  <2> QED BY <2>1, <2>2, MessagesStand
<1>3. CASE Invite
  <2>1. UNCHANGED send BY <1>3 DEF Invite
  <2>2. RoomPlace(opening') <= RoomPlace(opening) BY <1>3 DEF Invite, RoomPlace
  <2> QED BY <1>3, <2>1, <2>2, InviteGoesOn, MessagesStand
<1>4. CASE OpenRoom \/ OpenQuietly
  <2>1. UNCHANGED <<send, socket>> BY <1>4 DEF OpenRoom, OpenQuietly
  <2>2. RoomPlace(opening') <= RoomPlace(opening) BY <1>4 DEF OpenRoom, OpenQuietly, RoomPlace
  <2> QED BY <2>1, <2>2, MessagesStand
<1>5. CASE \E m \in MessageIds :
             SendSteps(m) \/ Announce(m) \/ FailSend(m) \/ \E s \in Sockets : StartSend(s, m)
  <2>1. SendsDown BY <1>5, SendsGoOn
  <2>2. UNCHANGED <<socket, opening>>
    BY <1>5 DEF SendSteps, SaveMessage, TouchRoom, Announce, FailSend, StartSend
  <2> QED BY <2>1, <2>2, MessagesStand
<1>6. CASE \/ \E m \in MessageIds : DeleteMessage(m) \/ \E s \in Sockets : MarkAsRead(s, m)
           \/ \E u \in Users : RemoveParticipant(u) \/ RemoveReader(u)
           \/ UNCHANGED messageVars
  <2>1. UNCHANGED <<send, socket, opening>>
    BY <1>6 DEF DeleteMessage, MarkAsRead, RemoveParticipant, RemoveReader, messageVars
  <2> QED BY <2>1, MessagesStand
<1> QED BY <1>1, <1>2, <1>3, <1>4, <1>5, <1>6 DEF MessagesNext

LEMMA EventDown ==
    ASSUME PushTypeOK, NEW e \in Events, NEW d, event' = [event EXCEPT ![e] = d],
           EventPlace(d.pc) < EventPlace(event[e].pc)
    PROVE  EventsDown /\ EventPlace(event'[e].pc) < EventPlace(event[e].pc)
<1>1. event'[e] = d /\ \A x \in Events \ {e} : event'[x] = event[x] BY DEF PushTypeOK
<1>2. \A x \in Events : EventPlace(event[x].pc) \in Nat BY PlacesNatural
<1>3. EventPlace(d.pc) \in Nat BY PlacesNatural
<1> QED BY <1>1, <1>2, <1>3 DEF EventsDown

LEMMA JobDown ==
    ASSUME PushTypeOK, NEW j \in JobIds, NEW k \in Job, job' = [job EXCEPT ![j] = k],
           JobPlace(k) < JobPlace(job[j])
    PROVE  JobsDown /\ JobPlace(job'[j]) < JobPlace(job[j])
<1>1. job'[j] = k /\ \A x \in JobIds \ {j} : job'[x] = job[x] BY DEF PushTypeOK
<1>2. \A x \in JobIds : JobPlace(job[x]) \in Nat BY PlacesNatural DEF PushTypeOK
<1>3. JobPlace(k) \in Nat BY PlacesNatural
<1> QED BY <1>1, <1>2, <1>3 DEF JobsDown

LEMMA PushStand ==
    ASSUME PushTypeOK
    PROVE  (UNCHANGED event => EventsDown) /\ (UNCHANGED job => JobsDown)
<1>1. \A x \in Events : EventPlace(event[x].pc) \in Nat BY PlacesNatural
<1>2. \A x \in JobIds : JobPlace(job[x]) \in Nat BY PlacesNatural DEF PushTypeOK
<1> QED BY <1>1, <1>2 DEF EventsDown, JobsDown

(* A dispatch begins, goes on, or is given up. *)
LEMMA EventsGoOn ==
    ASSUME PushInv, NEW e \in Events,
           EventSteps(e) \/ LoseEvent(e) \/ \E u \in Owners : Notify(e, u)
    PROVE  EventsDown /\ EventPlace(event'[e].pc) < EventPlace(event[e].pc)
<1>1. PushTypeOK /\ event[e] \in Event BY DEF PushInv, PushTypeOK
<1>2. AfterPush(e) \in {"mail", "done"} BY AfterPushPlace
<1>3. CASE \E u \in Owners : Notify(e, u)
  <2>1. PICK u \in Owners : event' = [event EXCEPT ![e] = Begun(e, u)] BY <1>3 DEF Notify
  <2>2. Begun(e, u).pc = "find" /\ event[e].pc = "none"
    <3>1. event[e] = NoEvent BY <1>3 DEF Notify
    <3> QED BY <3>1 DEF Begun, NoEvent
  <2>3. EventPlace("find") < EventPlace("none") BY DEF EventPlace
  <2> QED BY <1>1, <2>1, <2>2, <2>3, EventDown
<1>4. CASE EventSteps(e) \/ LoseEvent(e)
  <2>1. PICK pc : \/ event' = [event EXCEPT ![e] = [event[e] EXCEPT !.pc = pc]] /\ EventPlace(pc) < EventPlace(event[e].pc)
                  \/ \E tokens : event' = [event EXCEPT ![e] = [event[e] EXCEPT !.tokens = tokens, !.pc = pc]]
                                 /\ EventPlace(pc) < EventPlace(event[e].pc)
    <3>1. CASE FindDevices(e)
      <4>1. PICK tokens : event' = [event EXCEPT ![e] = [event[e] EXCEPT
                             !.tokens = tokens, !.pc = IF tokens = {} THEN AfterPush(e) ELSE "enqueue"]]
        BY <3>1 DEF FindDevices
      <4>2. EventPlace(IF tokens = {} THEN AfterPush(e) ELSE "enqueue") < EventPlace(event[e].pc)
        BY <1>2, <3>1 DEF FindDevices, EventPlace
      <4> QED BY <4>1, <4>2
    <3>2. CASE Enqueue(e) \/ LoseEvent(e)
      <4>1. event' = [event EXCEPT ![e] = [event[e] EXCEPT !.pc = AfterPush(e)]]
        BY <3>2 DEF Enqueue, LoseEvent
      <4>2. EventPlace(AfterPush(e)) < EventPlace(event[e].pc)
        BY <1>2, <3>2 DEF Enqueue, LoseEvent, EventPlace
      <4> QED BY <4>1, <4>2
    <3>3. CASE SendEmail(e)
      <4>1. event' = [event EXCEPT ![e] = [event[e] EXCEPT !.pc = "done"]] BY <3>3 DEF SendEmail
      <4>2. EventPlace("done") < EventPlace(event[e].pc) BY <3>3 DEF SendEmail, EventPlace
      <4> QED BY <4>1, <4>2
    <3> QED BY <1>4, <3>1, <3>2, <3>3 DEF EventSteps
  <2>2. PICK d : event' = [event EXCEPT ![e] = d] /\ d.pc = pc
    <3>1. CASE event' = [event EXCEPT ![e] = [event[e] EXCEPT !.pc = pc]]
      <4>1. [event[e] EXCEPT !.pc = pc].pc = pc BY <1>1 DEF Event
      <4> QED BY <3>1, <4>1
    <3>2. ASSUME NEW tokens, event' = [event EXCEPT ![e] = [event[e] EXCEPT !.tokens = tokens, !.pc = pc]]
          PROVE  \E d : event' = [event EXCEPT ![e] = d] /\ d.pc = pc
      <4>1. [event[e] EXCEPT !.tokens = tokens, !.pc = pc].pc = pc BY <1>1 DEF Event
      <4> QED BY <3>2, <4>1
    <3> QED BY <2>1, <3>1, <3>2
  <2> QED BY <1>1, <2>1, <2>2, EventDown
<1> QED BY <1>3, <1>4

(* A retry is an attempt fewer, a stalled job a stall fewer. *)
LEMMA RetryDown ==
    ASSUME PushTypeOK, NEW j \in JobIds, job[j].state \in {"active", "sent"}, job[j].made < Attempts, Retry(j)
    PROVE  JobsDown /\ JobPlace(job'[j]) < JobPlace(job[j])
<1>1. job[j] \in Job BY DEF PushTypeOK
<1>2. job[j].made \in Nat /\ job[j].made + 1 \in 0..Attempts /\ job[j].stalled \in 0..2 BY <1>1 DEF Job
<1> DEFINE r == [job[j] EXCEPT !.made = job[j].made + 1]
           k == [r EXCEPT !.state = IF job[j].made + 1 < Attempts THEN "waiting" ELSE "failed"]
<1>3. r \in Job /\ r.made = job[j].made + 1 /\ r.stalled = job[j].stalled BY <1>1, <1>2 DEF Job
<1>4. job' = [job EXCEPT ![j] = k] BY <1>1 DEF Retry, Job
<1>5. /\ k \in Job /\ k.made = job[j].made + 1 /\ k.stalled = job[j].stalled
      /\ k.state \in {"waiting", "failed"}
  BY <1>3 DEF Job
<1> HIDE DEF k
<1>6. JobPlace(job[j]) >= 4 * (Attempts - job[j].made) + 4 * (2 - job[j].stalled) + 1
  BY <1>2 DEF JobPlace
<1>7. JobPlace(k) <= 4 * (Attempts - (job[j].made + 1)) + 4 * (2 - job[j].stalled) + 3
  BY <1>2, <1>5 DEF JobPlace
<1>8. JobPlace(k) < JobPlace(job[j])
  BY <1>1, <1>2, <1>5, <1>6, <1>7, PlacesNatural
<1> QED BY <1>4, <1>5, <1>8, JobDown

LEMMA BecomesDown ==
    ASSUME PushTypeOK, NEW j \in JobIds, NEW state \in {"active", "sent", "refused", "invalid", "done"}, Becomes(j, state),
           \/ job[j].state = "waiting" /\ state = "active"
           \/ job[j].state = "active" /\ state \in {"sent", "refused", "invalid"}
           \/ job[j].state \in {"sent", "refused", "invalid"} /\ state = "done"
    PROVE  JobsDown /\ JobPlace(job'[j]) < JobPlace(job[j])
<1>1. job[j] \in Job BY DEF PushTypeOK
<1> DEFINE k == [job[j] EXCEPT !.state = state]
<1>2. job' = [job EXCEPT ![j] = k] BY DEF Becomes
<1>3. k \in Job /\ k.state = state /\ k.made = job[j].made /\ k.stalled = job[j].stalled BY <1>1 DEF Job
<1> HIDE DEF k
<1>4. Attempts - job[j].made \in Nat /\ 2 - job[j].stalled \in Nat BY <1>1 DEF Job
<1>5. JobPlace(k) < JobPlace(job[j]) BY <1>3, <1>4 DEF JobPlace
<1> QED BY <1>2, <1>3, <1>5, JobDown

LEMMA WorkerGoesOn ==
    ASSUME PushInv, NEW j \in JobIds, WorkerSteps(j)
    PROVE  JobsDown /\ JobPlace(job'[j]) < JobPlace(job[j])
<1>1. PushTypeOK BY DEF PushInv
<1>2. CASE SendFails(j) \/ AnswerLost(j)
  <2>1. job[j].state \in {"active", "sent"} /\ Retry(j) BY <1>2 DEF SendFails, AnswerLost
  <2>2. job[j].made < Attempts BY <2>1 DEF PushInv, JobsCurrent
  <2> QED BY <1>1, <2>1, <2>2, RetryDown
<1>3. CASE TakeJob(j) BY <1>1, <1>3, BecomesDown DEF TakeJob
<1>4. CASE SendAccepted(j) BY <1>1, <1>4, BecomesDown DEF SendAccepted
<1>5. CASE SendRefused(j) \/ SendInvalid(j)
  BY <1>1, <1>5, BecomesDown DEF SendRefused, SendInvalid
<1>6. CASE Complete(j) \/ Prune(j) \/ PruneFails(j)
  BY <1>1, <1>6, BecomesDown DEF Complete, Prune, PruneFails, Refused
<1> QED BY <1>2, <1>3, <1>4, <1>5, <1>6 DEF WorkerSteps

LEMMA EnqueueDown == ASSUME PushInv, NEW e \in Events, Enqueue(e) PROVE JobsDown
<1>1. PushTypeOK BY DEF PushInv
<1> SUFFICES ASSUME NEW j \in JobIds PROVE JobPlace(job'[j]) <= JobPlace(job[j])
  BY DEF JobsDown
<1>2. job[j] \in Job BY <1>1 DEF PushTypeOK
<1>3. CASE Queued(j, e)
  <2>1. job[j] = NoJob
    BY <1>3 DEF Queued, Enqueue, PushInv, JobsCurrent
  <2>2. job'[j] = [NoJob EXCEPT !.state = "waiting"] BY <1>3 DEF Enqueue
  <2>3. /\ job'[j].state = "waiting" /\ job'[j].made = 0 /\ job'[j].stalled = 0
        /\ job[j].state = "none" /\ job[j].made = 0 /\ job[j].stalled = 0
    BY <2>1, <2>2 DEF NoJob
  <2> QED BY <2>3 DEF JobPlace
<1>4. CASE ~Queued(j, e)
  <2>1. job'[j] = job[j] BY <1>4 DEF Enqueue
  <2>2. JobPlace(job[j]) \in Nat BY <1>2, PlacesNatural
  <2> QED BY <2>1, <2>2
<1> QED BY <1>3, <1>4

LEMMA PushStopDown == ASSUME PushInv, PushStop PROVE EventsDown /\ JobsDown
<1>1. PushTypeOK BY DEF PushInv
<1>2. ASSUME NEW e \in Events PROVE EventPlace(event'[e].pc) <= EventPlace(event[e].pc)
  <2>1. event[e] \in Event BY <1>1 DEF PushTypeOK
  <2>2. event'[e] = event[e] \/ event'[e] = [event[e] EXCEPT !.pc = "done"] BY DEF PushStop
  <2>3. event'[e].pc \in {event[e].pc, "done"} BY <2>1, <2>2 DEF Event
  <2>4. EventPlace("done") = 0 BY DEF EventPlace
  <2> QED BY <2>3, <2>4, PlacesNatural
<1>3. ASSUME NEW j \in JobIds PROVE JobPlace(job'[j]) <= JobPlace(job[j])
  <2>1. job[j] \in Job BY <1>1 DEF PushTypeOK
  <2>2. JobPlace(job[j]) \in Nat BY <2>1, PlacesNatural
  <2>3. CASE ~Working(j)
    <3>1. job'[j] = job[j] BY <2>3 DEF PushStop
    <3> QED BY <2>2, <3>1
  <2>4. CASE Working(j)
    <3>1. job[j].made < Attempts /\ job[j].stalled < 2 BY <2>4 DEF Working, Refused, PushInv, JobsCurrent
    <3>2. job'[j] = Stall(job[j]) BY <2>4 DEF PushStop
    <3>3. CASE job[j].stalled = 0
      <4>1. job'[j] = [job[j] EXCEPT !.stalled = 1, !.state = "waiting"] BY <3>2, <3>3 DEF Stall
      <4>2. job'[j].stalled = 1 /\ job'[j].state = "waiting" /\ job'[j].made = job[j].made
        BY <2>1, <4>1 DEF Job
      <4>3. job[j].made \in Nat BY <2>1 DEF Job
      <4> QED BY <2>4, <3>3, <4>2, <4>3 DEF Working, Refused, JobPlace
    <3>4. CASE job[j].stalled # 0
      <4>1. job'[j] = [job[j] EXCEPT !.stalled = 2, !.state = "failed"] BY <3>2, <3>4 DEF Stall
      <4>2. job'[j].state = "failed" BY <2>1, <4>1 DEF Job
      <4>3. JobPlace(job'[j]) = 0 BY <4>2 DEF JobPlace
      <4> QED BY <2>2, <4>3
    <3> QED BY <3>3, <3>4
  <2> QED BY <2>3, <2>4
<1> QED BY <1>2, <1>3 DEF EventsDown, JobsDown

LEMMA PushDown ==
    ASSUME PushInv,
           \/ PushNext \/ PushStop \/ UNCHANGED pushVars
           \/ \E e \in Events, u \in Owners : Notify(e, u)
    PROVE  EventsDown /\ JobsDown
<1>1. PushTypeOK BY DEF PushInv
<1>2. CASE PushStop BY <1>2, PushStopDown
<1>3. CASE DeviceStep \/ UNCHANGED pushVars
  <2>1. UNCHANGED <<event, job>>
    BY <1>3 DEF DeviceStep, Register, UpdateDevice, ExpireDevice, RemoveDevices, TokenDies, pushVars
  <2> QED BY <1>1, <2>1, PushStand
<1>4. CASE \E e \in Events : LoseEvent(e) \/ EventSteps(e) \/ \E u \in Owners : Notify(e, u)
  <2>1. PICK e \in Events : LoseEvent(e) \/ EventSteps(e) \/ \E u \in Owners : Notify(e, u) BY <1>4
  <2>2. EventsDown BY <2>1, EventsGoOn
  <2>3. JobsDown
    <3>1. CASE Enqueue(e) BY <3>1, EnqueueDown
    <3>2. CASE ~Enqueue(e)
      <4>1. UNCHANGED job BY <2>1, <3>2 DEF LoseEvent, EventSteps, FindDevices, SendEmail, Notify
      <4> QED BY <1>1, <4>1, PushStand
    <3> QED BY <3>1, <3>2
  <2> QED BY <2>2, <2>3
<1>5. CASE \E j \in JobIds : WorkerSteps(j)
  <2>1. JobsDown BY <1>5, WorkerGoesOn
  <2>2. UNCHANGED event
    BY <1>5 DEF WorkerSteps, TakeJob, SendAccepted, SendRefused, SendInvalid, SendFails, Complete, AnswerLost, Prune, PruneFails
  <2> QED BY <1>1, <2>1, <2>2, PushStand
<1> QED BY <1>2, <1>3, <1>4, <1>5 DEF PushNext, DeviceStep, NotifyMember

(* An announcement begins a dispatch, or nobody is left to tell. *)
LEMMA AnnounceDown ==
    ASSUME PushInv, MessagesInv, EventsOfMessages, NEW m \in MessageIds, AnnounceMessage(m)
    PROVE  EventsDown /\ JobsDown
<1>1. PushTypeOK /\ m \in Events /\ UNCHANGED job /\ event[m] \in Event
  BY DEF PushInv, PushTypeOK, Events, AnnounceMessage
<1>2. SendAt(m, "announce") BY DEF AnnounceMessage, Announce
<1>3. event[m].pc = "none" BY <1>2 DEF EventsOfMessages, SendAt
<1>4. EventsDown
  <2>1. CASE Recipients(m) = {}
    <3>1. UNCHANGED event BY <1>1, <2>1 DEF AnnounceMessage, PushTypeOK
    <3> QED BY <1>1, <3>1, PushStand
  <2>2. CASE Recipients(m) # {}
    <3>1. PICK u : event' = [event EXCEPT ![m] = Begun(m, u)] BY <2>2 DEF AnnounceMessage
    <3>2. Begun(m, u).pc = "find" BY DEF Begun, NoEvent
    <3>3. EventPlace("find") < EventPlace("none") BY DEF EventPlace
    <3> QED BY <1>1, <1>3, <3>1, <3>2, <3>3, EventDown
  <2> QED BY <2>1, <2>2
<1> QED BY <1>1, <1>4, PushStand

(* Retries, stalls, restarts and lost answers included, nothing the server
   works on goes back, and each of its steps brings something nearer to its
   end.  What is left of WorkSettles is that a step can be taken while
   something is unfinished, and that finite numbers do not fall for ever. *)
THEOREM CountsDown == Spec => WorkCountsDown
<1>1. DeliveryInv /\ [Next]_vars => [NothingGoesBack /\ (ServerSteps => SomethingGoesOn)]_vars
  <2> SUFFICES ASSUME DeliveryInv, Next PROVE NothingGoesBack /\ (ServerSteps => SomethingGoesOn)
    OBVIOUS
  <2>1. MessagesInv /\ PushInv /\ EventsOfMessages BY DEF DeliveryInv
  <2>2. SendsDown /\ SocketsDown /\ RoomPlace(opening') <= RoomPlace(opening)
    BY <2>1, MessagesDown DEF Next, AnnounceMessage, Restart
  <2>3. EventsDown /\ JobsDown
    <3>1. CASE \E m \in MessageIds : AnnounceMessage(m) BY <2>1, <3>1, AnnounceDown
    <3>2. CASE \E e \in ChatEvents \ MessageIds, u \in Users : NotifyRequest(e, u)
      <4>1. \E e \in Events, u \in Owners : Notify(e, u) BY <3>2 DEF NotifyRequest, Events
      <4> QED BY <2>1, <4>1, PushDown
    <3> QED BY <2>1, <3>1, <3>2, PushDown DEF Next, Restart
  <2>4. ServerSteps => SomethingGoesOn
    BY <2>1, ConnectionsGoOn, InviteGoesOn, SendsGoOn, EventsGoOn, WorkerGoesOn
       DEF ServerSteps, SomethingGoesOn, AnnounceMessage
  <2> QED BY <2>2, <2>3, <2>4 DEF NothingGoesBack, SendsDown, SocketsDown, EventsDown, JobsDown
<1> QED BY <1>1, DeliveryHolds, PTL DEF Spec, WorkCountsDown

=============================================================================
