------------------------------ MODULE Delivery ------------------------------
(***************************************************************************)
(* From a message to the phone: the chat room and its messages composed    *)
(* with the push notifications.  The gateway announces a message to the    *)
(* dispatcher; deleteAccount ends in both; the process that holds the      *)
(* sockets, the handlers, the dispatcher and the worker stops and starts   *)
(* again, while the documents and the queue in Redis remain.               *)
(***************************************************************************)
EXTENDS Messages, PushDelivery

ASSUME DeliveryAssumption ==
    /\ Owners = Users
    /\ MessageIds \subseteq ChatEvents
    /\ IsFiniteSet(Users) /\ Cardinality(Users) <= 2

vars == <<messageVars, pushVars>>

Init == MessagesInit /\ PushInit

(* handleMessage ends in one notifyNewMessage to each other participant, of
   whom there is one, or none if that account was deleted.  The unread count
   that is read before the devices only words the text. *)
AnnounceMessage(m) ==
    /\ Announce(m)
    /\ event' = [event EXCEPT ![m] =
                    IF Recipients(m) = {} THEN event[m] ELSE Begun(m, CHOOSE u \in Recipients(m) : TRUE)]
    /\ UNCHANGED <<device, valid, job, pushed, unanswered>>

Restart == MessagesStop /\ PushStop

Next ==
    \/ MessagesNext /\ UNCHANGED pushVars
    \/ PushNext /\ UNCHANGED messageVars
    \/ \E m \in MessageIds : AnnounceMessage(m)
    \/ \E e \in ChatEvents \ MessageIds, u \in Users : NotifyRequest(e, u) /\ UNCHANGED messageVars
    \/ Restart

(* What the process does by itself: the event loop returns to a handler whose
   call was answered, and the worker takes the next job. *)
ServerSteps ==
    \/ \E s \in Sockets : ConnectionSteps(s) /\ UNCHANGED pushVars
    \/ Invite /\ UNCHANGED pushVars
    \/ \E m \in MessageIds : (SendSteps(m) /\ UNCHANGED pushVars) \/ AnnounceMessage(m)
    \/ \E e \in Events : EventSteps(e) /\ UNCHANGED messageVars
    \/ \E j \in JobIds : WorkerSteps(j) /\ UNCHANGED messageVars

(* Node.js goes on as long as something is ready, and MongoDB, Redis and
   Firebase answer or time out. *)
Fairness == WF_vars(ServerSteps)

Spec == Init /\ [][Next]_vars /\ Fairness

-----------------------------------------------------------------------------
(* Properties *)

(* A push goes to the other member, and only of a message that is there. *)
EventsOfMessages ==
    \A m \in MessageIds : event[m].pc # "none" =>
        /\ SendAt(m, "done")
        /\ event[m].to # message[m].sender

(* Both halves and what relates them.  Among it: userSockets holds exactly the
   connected sockets, and a message that was read stays marked as read,
   although the handler of a message runs on after its readers have it. *)
DeliveryInv == MessagesInv /\ PushInv /\ EventsOfMessages

(* Something the server has begun by itself to finish. *)
Unfinished ==
    \/ \E m \in MessageIds : send[m][1] \in {"save", "touch", "announce"}
    \/ \E e \in Events : event[e].pc \in {"find", "enqueue", "mail"}
    \/ \E j \in JobIds : job[j].state = "waiting" \/ Working(j)

(* Handlers, dispatches and jobs come to an end, through lost answers, an
   unreachable Firebase, payloads that can never be sent and restarts: with no
   more messages to come, the server comes to rest. *)
WorkSettles == Unfinished ~> ~Unfinished

-----------------------------------------------------------------------------
(* Why it settles.  How far each thing the server works on is from its end;
   nothing ever takes one of them back. *)

SendPlace(pc) ==
    IF pc = "none" THEN 4 ELSE IF pc = "save" THEN 3 ELSE IF pc = "touch" THEN 2
    ELSE IF pc = "announce" THEN 1 ELSE 0

SocketPlace(state) ==
    IF state = "new" THEN 4 ELSE IF state = "find" THEN 3 ELSE IF state = "join" THEN 2
    ELSE IF state = "on" THEN 1 ELSE 0

RoomPlace(where) == IF where = "none" THEN 2 ELSE IF where = "accepted" THEN 1 ELSE 0

EventPlace(pc) ==
    IF pc = "none" THEN 4 ELSE IF pc = "find" THEN 3 ELSE IF pc = "enqueue" THEN 2
    ELSE IF pc = "mail" THEN 1 ELSE 0

(* A job may be tried again Attempts times and found stalled twice. *)
JobPlace(k) ==
    IF k.state \in {"done", "failed"} THEN 0
    ELSE 4 * (Attempts - k.made) + 4 * (2 - k.stalled)
         + (IF k.state = "none" THEN 4 ELSE IF k.state = "waiting" THEN 3
            ELSE IF k.state = "active" THEN 2 ELSE 1)

NothingGoesBack ==
    /\ \A m \in MessageIds : SendPlace(send'[m][1]) <= SendPlace(send[m][1])
    /\ \A s \in Sockets : SocketPlace(socket'[s].state) <= SocketPlace(socket[s].state)
    /\ RoomPlace(opening') <= RoomPlace(opening)
    /\ \A e \in Events : EventPlace(event'[e].pc) <= EventPlace(event[e].pc)
    /\ \A j \in JobIds : JobPlace(job'[j]) <= JobPlace(job[j])

SomethingGoesOn ==
    \/ \E m \in MessageIds : SendPlace(send'[m][1]) < SendPlace(send[m][1])
    \/ \E s \in Sockets : SocketPlace(socket'[s].state) < SocketPlace(socket[s].state)
    \/ RoomPlace(opening') < RoomPlace(opening)
    \/ \E e \in Events : EventPlace(event'[e].pc) < EventPlace(event[e].pc)
    \/ \E j \in JobIds : JobPlace(job'[j]) < JobPlace(job[j])

(* Whatever happens, restarts included, no handler, connection, dispatch or
   job goes back, and every step the server takes by itself brings one of
   them nearer to its end: of a finite number it takes finitely many. *)
WorkCountsDown == [][NothingGoesBack /\ (ServerSteps => SomethingGoesOn)]_vars

=============================================================================
