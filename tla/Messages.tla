------------------------------ MODULE Messages ------------------------------
(***************************************************************************)
(* One chat room of two members, the sockets connected to the gateway      *)
(* (src/chat-room/chat.gateway.ts) and the messages they exchange          *)
(* (src/chat-room/chat.service.ts, src/message).  userSockets, the joined  *)
(* channels and the handlers in progress are memory of the one process;    *)
(* the room and the messages are documents.  One step is one awaited call  *)
(* with the synchronous code after it.                                     *)
(***************************************************************************)
EXTENDS FiniteSets

CONSTANTS
    Users,       \* the two whose chat request was accepted
    Sockets,     \* connections to the gateway; a reconnection is another one
    MessageIds,
    None

ASSUME MessagesAssumption ==
    /\ None \notin Users
    /\ None \notin MessageIds

VARIABLES
    opening,   \* the room: "none", "accepted" and about to be announced, "open"
    room,      \* its document: [participants, lastMessage]
    message,   \* message[m]: its document
    userSockets,
    socket,    \* socket[s]: whose it is, how far handleConnection got, the room's channel
    send,      \* send[m]: the handleMessage that creates m
    newest,    \* history: the message inserted last
    missed,    \* history: sockets that connected, or were connected, as the room opened
    overlap    \* history: a message was inserted while another was being recorded as the last

messageVars == <<opening, room, message, userSockets, socket, send, newest, missed, overlap>>

Message == [sender : Users \cup {None},   \* None: not inserted
            status : {"sent", "delivered", "read"},
            readBy : SUBSET Users,
            isDeleted : BOOLEAN]

NoMessage == [sender |-> None, status |-> "sent", readBy |-> {}, isDeleted |-> FALSE]

Connection == [userId : Users \cup {None},
               state : {"new", "find", "join", "on", "gone"},
               found : BOOLEAN,                             \* getUserChatRooms had the room
               channel : {"out", "invited", "in", "left"}]  \* of the room

NewSocket == [userId |-> None, state |-> "new", found |-> FALSE, channel |-> "out"]

MessagesTypeOK ==
    /\ opening \in {"none", "accepted", "open"}
    /\ room \in [participants : SUBSET Users, lastMessage : MessageIds \cup {None}]
    /\ message \in [MessageIds -> Message]
    /\ userSockets \in [Users -> SUBSET Sockets]
    /\ socket \in [Sockets -> Connection]
    /\ send \in [MessageIds -> {"none", "save", "touch", "announce", "done", "failed"} \X (Users \cup {None})]
    /\ newest \in MessageIds \cup {None}
    /\ missed \subseteq Sockets
    /\ overlap \in BOOLEAN

MessagesInit ==
    /\ opening = "none"
    /\ room = [participants |-> {}, lastMessage |-> None]
    /\ message = [m \in MessageIds |-> NoMessage]
    /\ userSockets = [u \in Users |-> {}]
    /\ socket = [s \in Sockets |-> NewSocket]
    /\ send = [m \in MessageIds |-> <<"none", None>>]
    /\ newest = None
    /\ missed = {}
    /\ overlap = FALSE

Connected(s) == socket[s].state \in {"find", "join", "on"}
Saved(m) == message[m].sender # None
SendAt(m, pc) == send[m][1] = pc
From(m) == send[m][2]

-----------------------------------------------------------------------------
(* handleConnection and handleDisconnect *)

(* verifyToken does not wait, so nothing comes between the token and the map. *)
Connect(s, u) ==
    /\ socket[s].state = "new"
    /\ socket' = [socket EXCEPT ![s] = [NewSocket EXCEPT !.userId = u, !.state = "find"]]
    /\ userSockets' = [userSockets EXCEPT ![u] = @ \cup {s}]
    /\ UNCHANGED <<opening, room, message, send, newest, missed, overlap>>

FindRooms(s) ==
    /\ socket[s].state = "find"
    /\ socket' = [socket EXCEPT ![s] = [@ EXCEPT
                     !.state = "join",
                     !.found = opening # "none" /\ socket[s].userId \in room.participants]]
    /\ UNCHANGED <<opening, room, message, userSockets, send, newest, missed, overlap>>

(* Mistake: a socket waits for the client to ask for its rooms. *)
JoinOwnChannel(s) ==
    /\ socket[s].state = "join"
    /\ socket' = [socket EXCEPT ![s] = [@ EXCEPT !.state = "on"]]
    /\ missed' = missed \cup {x \in {s} : ~socket[s].found /\ opening = "open"}
    /\ UNCHANGED <<opening, room, message, userSockets, send, newest, overlap>>

(* From here on the socket is in user_<id>, where invitations are sent. *)
JoinRooms(s) ==
    /\ socket[s].state = "join"
    /\ socket' = [socket EXCEPT ![s] = [@ EXCEPT
                     !.state = "on",
                     !.channel = IF socket[s].found THEN "in" ELSE socket[s].channel]]
    /\ missed' = missed \cup {x \in {s} : ~socket[s].found /\ opening = "open"}
    /\ UNCHANGED <<opening, room, message, userSockets, send, newest, overlap>>

(* A connection that is being set up goes on after this, to no effect. *)
Disconnect(s) ==
    /\ Connected(s)
    /\ socket' = [socket EXCEPT ![s] = [@ EXCEPT !.state = "gone", !.channel = "out"]]
    /\ userSockets' = [userSockets EXCEPT ![socket[s].userId] = @ \ {s}]
    /\ UNCHANGED <<opening, room, message, send, newest, missed, overlap>>

-----------------------------------------------------------------------------
(* The room and its channel *)

(* acceptChatRequest over the socket: the room is saved, the request next. *)
OpenRoom ==
    /\ opening = "none"
    /\ opening' = "accepted"
    /\ room' = [room EXCEPT !.participants = Users]
    /\ UNCHANGED <<message, userSockets, socket, send, newest, missed, overlap>>

(* Over HTTP a request is accepted, or a room created, and nobody is told. *)
OpenQuietly ==
    /\ opening = "none"
    /\ opening' = "open"
    /\ room' = [room EXCEPT !.participants = Users]
    /\ missed' = missed \cup {s \in Sockets : socket[s].state = "on"}
    /\ UNCHANGED <<message, userSockets, socket, send, newest, overlap>>

(* chatRequestAccepted goes to both members' own channels. *)
Invite ==
    /\ opening = "accepted"
    /\ opening' = "open"
    /\ socket' = [s \in Sockets |->
                     IF socket[s].state = "on" /\ socket[s].channel = "out"
                     THEN [socket[s] EXCEPT !.channel = "invited"]
                     ELSE socket[s]]
    /\ UNCHANGED <<room, message, userSockets, send, newest, missed, overlap>>

(* No look at the room: whoever knows its id may join its channel. *)
JoinChatRoom(s) ==
    /\ Connected(s)
    /\ opening # "none"
    /\ socket[s].channel # "in"
    /\ socket' = [socket EXCEPT ![s] = [@ EXCEPT !.channel = "in"]]
    /\ UNCHANGED <<opening, room, message, userSockets, send, newest, missed, overlap>>

LeaveChatRoom(s) ==
    /\ Connected(s)
    /\ socket[s].channel = "in"
    /\ socket' = [socket EXCEPT ![s] = [@ EXCEPT !.channel = "left"]]
    /\ UNCHANGED <<opening, room, message, userSockets, send, newest, missed, overlap>>

-----------------------------------------------------------------------------
(* handleMessage *)

StartSend(s, m) ==
    /\ Connected(s)
    /\ SendAt(m, "none")
    /\ socket[s].userId \in room.participants
    /\ send' = [send EXCEPT ![m] = <<"save", socket[s].userId>>]
    /\ UNCHANGED <<opening, room, message, userSockets, socket, newest, missed, overlap>>

SaveMessage(m) ==
    /\ SendAt(m, "save")
    /\ message' = [message EXCEPT ![m] = [NoMessage EXCEPT !.sender = From(m)]]
    /\ newest' = m
    /\ overlap' = (overlap \/ \E k \in MessageIds : SendAt(k, "touch"))
    /\ send' = [send EXCEPT ![m] = <<"touch", From(m)>>]
    /\ UNCHANGED <<opening, room, userSockets, socket, missed>>

(* Mistake: a room that has a last message keeps it. *)
TouchEmptyRoom(m) ==
    /\ SendAt(m, "touch")
    /\ room' = [room EXCEPT !.lastMessage = IF room.lastMessage = None THEN m ELSE room.lastMessage]
    /\ send' = [send EXCEPT ![m] = <<"announce", From(m)>>]
    /\ UNCHANGED <<opening, message, userSockets, socket, newest, missed, overlap>>

(* The message is then read again, and emitted to the channel. *)
TouchRoom(m) ==
    /\ SendAt(m, "touch")
    /\ room' = [room EXCEPT !.lastMessage = m]
    /\ send' = [send EXCEPT ![m] = <<"announce", From(m)>>]
    /\ UNCHANGED <<opening, message, userSockets, socket, newest, missed, overlap>>

Recipients(m) == room.participants \ {From(m)}

(* Mistake: the participant's id. *)
OwnKey(u) == u

(* The key the delivery loop asks userSockets for is the text of the whole
   participant record, which is nobody's id. *)
ParticipantKey(u) == None

OnlineRecipients(m) ==
    {u \in Recipients(m) : ParticipantKey(u) \in Users /\ userSockets[ParticipantKey(u)] # {}}

(* markMessageAsDelivered does not look at the status it replaces. *)
MarkDelivered(m) ==
    message' = IF OnlineRecipients(m) # {}
               THEN [message EXCEPT ![m] = [@ EXCEPT !.status = "delivered"]]
               ELSE message

(* The participants are read; the others are notified, without waiting. *)
Announce(m) ==
    /\ SendAt(m, "announce")
    /\ MarkDelivered(m)
    /\ send' = [send EXCEPT ![m] = <<"done", From(m)>>]
    /\ UNCHANGED <<opening, room, userSockets, socket, newest, missed, overlap>>

(* A call to the database throws: the sender gets an error. *)
FailSend(m) ==
    /\ send[m][1] \in {"save", "touch", "announce"}
    /\ send' = [send EXCEPT ![m] = <<"failed", From(m)>>]
    /\ UNCHANGED <<opening, room, message, userSockets, socket, newest, missed, overlap>>

-----------------------------------------------------------------------------
(* Reading and deleting messages *)

(* No look at the participants; the sender may mark it too. *)
MarkAsRead(s, m) ==
    /\ Connected(s)
    /\ Saved(m)
    /\ socket[s].userId \notin message[m].readBy
    /\ message' = [message EXCEPT ![m] = [@ EXCEPT
                      !.status = "read",
                      !.readBy = message[m].readBy \cup {socket[s].userId}]]
    /\ UNCHANGED <<opening, room, userSockets, socket, send, newest, missed, overlap>>

(* Only its sender may; the room goes on naming it as the last. *)
DeleteMessage(m) ==
    /\ Saved(m)
    /\ message' = [message EXCEPT ![m] = [@ EXCEPT !.isDeleted = TRUE]]
    /\ UNCHANGED <<opening, room, userSockets, socket, send, newest, missed, overlap>>

(* deleteAccount: out of the rooms, later out of the readers.  The sockets of
   the account stay connected. *)
RemoveParticipant(u) ==
    /\ u \in room.participants
    /\ room' = [room EXCEPT !.participants = room.participants \ {u}]
    /\ UNCHANGED <<opening, message, userSockets, socket, send, newest, missed, overlap>>

RemoveReader(u) ==
    /\ opening # "none" /\ u \notin room.participants
    /\ message' = [m \in MessageIds |-> [message[m] EXCEPT !.readBy = message[m].readBy \ {u}]]
    /\ UNCHANGED <<opening, room, userSockets, socket, send, newest, missed, overlap>>

(* The process stops: its sockets are gone and its handlers end where they
   are.  A room whose members were not told is open all the same. *)
MessagesStop ==
    /\ userSockets' = [u \in Users |-> {}]
    /\ socket' = [s \in Sockets |->
                     IF Connected(s) THEN [socket[s] EXCEPT !.state = "gone", !.channel = "out"] ELSE socket[s]]
    /\ send' = [m \in MessageIds |->
                   IF send[m][1] \in {"save", "touch", "announce"} THEN <<"failed", From(m)>> ELSE send[m]]
    /\ opening' = IF opening = "accepted" THEN "open" ELSE opening
    /\ UNCHANGED <<room, message, newest, missed, overlap>>

-----------------------------------------------------------------------------
(* What the server does by itself once asked; Announce is left to Delivery. *)
ConnectionSteps(s) == FindRooms(s) \/ JoinRooms(s)
SendSteps(m) == SaveMessage(m) \/ TouchRoom(m)

MessagesNext ==
    \/ \E s \in Sockets :
         \/ \E u \in Users : Connect(s, u)
         \/ ConnectionSteps(s) \/ Disconnect(s) \/ JoinChatRoom(s) \/ LeaveChatRoom(s)
         \/ \E m \in MessageIds : StartSend(s, m) \/ MarkAsRead(s, m)
    \/ OpenRoom \/ OpenQuietly \/ Invite
    \/ \E m \in MessageIds : SendSteps(m) \/ FailSend(m) \/ DeleteMessage(m)
    \/ \E u \in Users : RemoveParticipant(u) \/ RemoveReader(u)

-----------------------------------------------------------------------------
(* Properties *)

(* A connection is set up in two awaited calls, and a room opens in two: the
   document, then the event that makes clients join.  However they interleave
   with a restart, a participant's socket that is set up either hears the
   room's channel, or was told to join it, or left it, unless it was connected
   as the room opened: the window handleConnection leaves between its query
   and its joins, and a request accepted over HTTP. *)
OnlineHearsUnlessOpening ==
    \A s \in Sockets :
        opening = "open" /\ socket[s].state = "on" /\ socket[s].userId \in room.participants
            => socket[s].channel # "out" \/ s \in missed

(* createMessage inserts the message and then records it as the room's last:
   the room names the newest one unless two were in between at once, or the
   newest one's handler still is or failed there. *)
LastMessageUnlessOverlap ==
    newest = None \/ room.lastMessage = newest \/ overlap \/ send[newest][1] \in {"touch", "failed"}

(* userSockets holds exactly the connected sockets, by user, with every
   disconnection and restart. *)
PresenceCurrent ==
    \A u \in Users : userSockets[u] = {s \in Sockets : Connected(s) /\ socket[s].userId = u}

(* A message somebody has read is marked as read: nothing puts it back. *)
ReadStaysRead == \A m \in MessageIds : message[m].readBy # {} => message[m].status = "read"

(* A handler knows its sender, and what it has written is there. *)
SendsCurrent ==
    \A m \in MessageIds :
        /\ (SendAt(m, "none") <=> From(m) = None)
        /\ send[m][1] \in {"none", "save"} => ~Saved(m)
        /\ send[m][1] \in {"touch", "announce", "done"} => Saved(m)
        /\ Saved(m) => message[m].sender = From(m)
        /\ ~Saved(m) => message[m] = NoMessage /\ room.lastMessage # m /\ newest # m

(* The connections a room's opening may have passed by. *)
ConnectionsCurrent ==
    \A s \in Sockets :
        /\ (socket[s].state = "new" => socket[s] = NewSocket)
        /\ (Connected(s) => socket[s].userId # None)
        /\ (socket[s].found => opening # "none")

(* While one message is between its two calls it is the newest, or another has come. *)
TouchesApart ==
    overlap \/ \A m \in MessageIds : SendAt(m, "touch") => newest = m

MessagesInv ==
    /\ MessagesTypeOK
    /\ PresenceCurrent /\ ReadStaysRead /\ SendsCurrent /\ ConnectionsCurrent /\ TouchesApart
    /\ OnlineHearsUnlessOpening /\ LastMessageUnlessOverlap

=============================================================================
