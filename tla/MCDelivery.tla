----------------------------- MODULE MCDelivery -----------------------------
(* Instances of Delivery for TLC. *)
EXTENDS Delivery

CONSTANTS u1, u2, s1, s2, m1, m2, q1, n1, i1, i2, t1, t2

TwoUsers == {u1, u2}
TwoSockets == {s1, s2}
TwoMessages == {m1, m2}
TwoMessagesOneRequest == {m1, m2, q1}
OneNotice == {n1}
TwoInstallations == {i1, i2}
TwoTokens == {t1, t2}

(* A behaviour is about one of three subjects. *)
NoPushes ==
    /\ device = [i \in Installations |-> NoDevice] /\ valid = Tokens
    /\ \A e \in Events : event[e].tokens = {} /\ (e \notin MessageIds => event[e] = NoEvent)

(* A message each between members with a socket each in the room's channel;
   u1 sends the first and may be deleted. *)
TwoSends ==
    /\ NoPushes
    /\ missed = {} /\ opening # "accepted"
    /\ \A s \in Sockets :
         /\ socket[s] # NewSocket => opening = "open" /\ socket[s].userId = (IF s = s1 THEN u1 ELSE u2)
         /\ socket[s].state = "on" => socket[s].channel = "in" /\ socket[s].found
         /\ Connected(s) /\ socket[s].state # "on" => socket[s].channel = "out"
    /\ From(m1) \in {u1, None} /\ From(m2) \in {u2, None}
    /\ u2 \in room.participants \/ opening = "none"
    /\ message[m1].readBy \subseteq {u2} /\ ~message[m1].isDeleted
    /\ message[m2].readBy \subseteq {u1} /\ (message[m2].isDeleted => SendAt(m1, "none"))
    /\ socket[s2].state = "gone" => socket[s1].state = "gone"

(* Two sockets that come and go while the room opens. *)
TwoConnections == NoPushes /\ \A m \in MessageIds : SendAt(m, "none")

(* A message from u1, or a notice, and the devices of u2. *)
Pushes ==
    /\ socket[s1].userId \in {u1, None} /\ socket[s1].channel = "out" /\ ~socket[s1].found
    /\ socket[s2] = NewSocket /\ missed = {}
    /\ opening # "accepted" /\ (opening = "open" => u2 \in room.participants)
    /\ SendAt(m2, "none") /\ ~message[m1].isDeleted /\ message[m1].status = "sent"
    /\ event[m1] # NoEvent => ~Connected(s1)
    /\ \A e \in Events \ MessageIds : event[e] # NoEvent =>
         /\ event[e].to = u2 /\ event[e].tokens \subseteq {t1} /\ opening = "none" /\ socket[s1] = NewSocket
         /\ \A d \in Events \ {e} : event[d] = NoEvent
    /\ \A i \in Installations : device[i].userId \in {u2, Nobody}
    /\ event[m1] # NoEvent => room.participants = Users
    /\ t1 \in valid
    /\ device # [i \in Installations |-> NoDevice] \/ valid # Tokens
         => SendAt(m1, "done") \/ event[n1] # NoEvent \/ event[q1] # NoEvent

Subjects == TwoSends \/ TwoConnections \/ Pushes

=============================================================================
