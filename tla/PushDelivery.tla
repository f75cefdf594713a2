---------------------------- MODULE PushDelivery ----------------------------
(***************************************************************************)
(* Push notifications: the registered devices (src/devices), the           *)
(* dispatcher that turns an event into one job per device                  *)
(* (src/notifications/notifications.service.ts), the queue in Redis with   *)
(* its one worker (push-notification.processor.ts, BullMQ) and Firebase,   *)
(* which knows the tokens that are valid.  One step is one awaited call    *)
(* with the synchronous code after it; a delay before a retry is no more   *)
(* than another wait.                                                      *)
(***************************************************************************)
EXTENDS Integers, FiniteSets

CONSTANTS
    Owners,         \* the users a device may belong to
    Installations,  \* firebaseInstallationId
    Tokens,         \* fcmToken
    ChatEvents,     \* messages, and requests made or answered: they name a sender
    MemberEvents,   \* reviewed media and a complete profile: they name none
    Attempts,       \* per job; 5 in the code
    Nobody

ASSUME PushAssumption ==
    /\ Nobody \notin Owners /\ Nobody \notin Tokens
    /\ ChatEvents \cap MemberEvents = {}
    /\ Attempts \in Nat \ {0}

VARIABLES
    device,      \* device[i]: its document
    valid,       \* the tokens Firebase delivers to
    event,       \* event[e]: the dispatcher's call
    job,         \* job[e, t]: the job of event e for token t
    pushed,      \* history: how often Firebase took job <<e, t>>, 2 for more than once
    unanswered   \* history: jobs whose accepted send was not seen to succeed

pushVars == <<device, valid, event, job, pushed, unanswered>>

Events == ChatEvents \cup MemberEvents
JobIds == Events \X Tokens

Device == [userId : Owners \cup {Nobody}, fcmToken : Tokens]
NoDevice == [userId |-> Nobody, fcmToken |-> Nobody]

Event == [pc : {"none", "find", "enqueue", "mail", "done"},
          to : Owners \cup {Nobody},
          tokens : SUBSET Tokens]     \* of the devices found
NoEvent == [pc |-> "none", to |-> Nobody, tokens |-> {}]

Job == [state : {"none", "waiting", "active", "sent", "refused", "invalid", "done", "failed"},
        made : 0..Attempts,     \* attemptsMade
        stalled : 0..2]         \* how often its worker vanished
NoJob == [state |-> "none", made |-> 0, stalled |-> 0]

PushTypeOK ==
    /\ device \in [Installations -> Device \cup {NoDevice}]
    /\ valid \subseteq Tokens
    /\ event \in [Events -> Event]
    /\ job \in [JobIds -> Job]
    /\ pushed \in [JobIds -> 0..2]
    /\ unanswered \subseteq JobIds

PushInit ==
    /\ device = [i \in Installations |-> NoDevice]
    /\ valid = Tokens
    /\ event = [e \in Events |-> NoEvent]
    /\ job = [j \in JobIds |-> NoJob]
    /\ pushed = [j \in JobIds |-> 0]
    /\ unanswered = {}

-----------------------------------------------------------------------------
(* Devices: installation and token are unique *)

Registered(i) == device[i] # NoDevice
TokenTaken(t, i) == \E k \in Installations \ {i} : device[k].fcmToken = t

Register(i, t, u) ==
    /\ ~Registered(i) /\ ~TokenTaken(t, i)
    /\ device' = [device EXCEPT ![i] = [userId |-> u, fcmToken |-> t]]
    /\ UNCHANGED <<valid, event, job, pushed, unanswered>>

(* Signing in or out, and a token that Firebase rotated. *)
UpdateDevice(i, t, u) ==
    /\ Registered(i) /\ ~TokenTaken(t, i)
    /\ device' = [device EXCEPT ![i] = [userId |-> u, fcmToken |-> t]]
    /\ UNCHANGED <<valid, event, job, pushed, unanswered>>

(* The index on updatedAt drops it after 60 days. *)
ExpireDevice(i) ==
    /\ Registered(i)
    /\ device' = [device EXCEPT ![i] = NoDevice]
    /\ UNCHANGED <<valid, event, job, pushed, unanswered>>

(* deleteAccount *)
RemoveDevices(u) ==
    /\ device' = [i \in Installations |-> IF device[i].userId = u THEN NoDevice ELSE device[i]]
    /\ UNCHANGED <<valid, event, job, pushed, unanswered>>

(* Firebase gives up a token for good. *)
TokenDies(t) ==
    /\ t \in valid
    /\ valid' = valid \ {t}
    /\ UNCHANGED <<device, event, job, pushed, unanswered>>

-----------------------------------------------------------------------------
(* The dispatcher *)

Begun(e, u) == [NoEvent EXCEPT !.pc = "find", !.to = u]

Notify(e, u) ==
    /\ event[e] = NoEvent
    /\ event' = [event EXCEPT ![e] = Begun(e, u)]
    /\ UNCHANGED <<device, valid, job, pushed, unanswered>>

(* Media were approved or rejected, or a profile is complete. *)
NotifyMember(e, u) == e \in MemberEvents /\ Notify(e, u)

(* A chat request was made, accepted or rejected. *)
NotifyRequest(e, u) == e \in ChatEvents /\ Notify(e, u)

AfterPush(e) == IF e \in MemberEvents THEN "mail" ELSE "done"

FindDevices(e) ==
    /\ event[e].pc = "find"
    /\ LET tokens == {device[i].fcmToken : i \in {k \in Installations : device[k].userId = event[e].to}} IN
         event' = [event EXCEPT ![e] = [@ EXCEPT
                      !.tokens = tokens,
                      !.pc = IF tokens = {} THEN AfterPush(e) ELSE "enqueue"]]
    /\ UNCHANGED <<device, valid, job, pushed, unanswered>>

Queued(j, e) == j[1] = e /\ j[2] \in event[e].tokens

(* addBulk is one transaction in Redis. *)
Enqueue(e) ==
    /\ event[e].pc = "enqueue"
    /\ job' = [j \in JobIds |-> IF Queued(j, e) THEN [NoJob EXCEPT !.state = "waiting"] ELSE job[j]]
    /\ event' = [event EXCEPT ![e] = [@ EXCEPT !.pc = AfterPush(e)]]
    /\ UNCHANGED <<device, valid, pushed, unanswered>>

(* A failure to find the devices or to queue is logged, and no more. *)
LoseEvent(e) ==
    /\ event[e].pc \in {"find", "enqueue"}
    /\ event' = [event EXCEPT ![e] = [@ EXCEPT !.pc = AfterPush(e)]]
    /\ UNCHANGED <<device, valid, job, pushed, unanswered>>

(* So is a mail that fails. *)
SendEmail(e) ==
    /\ event[e].pc = "mail"
    /\ event' = [event EXCEPT ![e] = [@ EXCEPT !.pc = "done"]]
    /\ UNCHANGED <<device, valid, job, pushed, unanswered>>

-----------------------------------------------------------------------------
(* The worker takes one job at a time *)

Refused(j) == job[j].state \in {"refused", "invalid"}
Working(j) == job[j].state \in {"active", "sent"} \/ Refused(j)

Becomes(j, state) == job' = [job EXCEPT ![j] = [@ EXCEPT !.state = state]]

TakeJob(j) ==
    /\ job[j].state = "waiting"
    /\ \A k \in JobIds : ~Working(k)
    /\ Becomes(j, "active")
    /\ UNCHANGED <<device, valid, event, pushed, unanswered>>

(* Firebase takes it, or answers that the token is not registered. *)
SendAccepted(j) ==
    /\ job[j].state = "active"
    /\ j[1] \in ChatEvents
    /\ j[2] \in valid
    /\ pushed' = [pushed EXCEPT ![j] = IF pushed[j] = 0 THEN 1 ELSE 2]
    /\ Becomes(j, "sent")
    /\ UNCHANGED <<device, valid, event, unanswered>>

SendRefused(j) ==
    /\ job[j].state = "active"
    /\ j[1] \in ChatEvents
    /\ j[2] \notin valid
    /\ Becomes(j, "refused")
    /\ UNCHANGED <<device, valid, event, pushed, unanswered>>

(* messaging/invalid-argument: it finds the message malformed or too big, which
   says nothing of the token; a name in the text has no limit. *)
SendInvalid(j) ==
    /\ job[j].state = "active"
    /\ j[1] \in ChatEvents
    /\ Becomes(j, "invalid")
    /\ UNCHANGED <<device, valid, event, pushed, unanswered>>

(* Mistake: the attempt is not counted. *)
RetryForever(j) ==
    job' = [job EXCEPT ![j] = [@ EXCEPT !.state = "waiting"]]

Retry(j) ==
    job' = [job EXCEPT ![j] = [@ EXCEPT
               !.made = job[j].made + 1,
               !.state = IF job[j].made + 1 < Attempts THEN "waiting" ELSE "failed"]]

(* Mistake: what follows a successful send may throw. *)
CompleteOrRetry(j) ==
    /\ job[j].state = "sent"
    /\ Becomes(j, "done") \/ Retry(j)
    /\ UNCHANGED <<device, valid, event, pushed, unanswered>>

Complete(j) ==
    /\ job[j].state = "sent"
    /\ Becomes(j, "done")
    /\ UNCHANGED <<device, valid, event, pushed, unanswered>>

(* Firebase cannot be reached; or the library refuses the payload, since the
   senderId of a member event is undefined. *)
SendFails(j) ==
    /\ job[j].state = "active"
    /\ Retry(j)
    /\ UNCHANGED <<device, valid, event, pushed, unanswered>>

(* The push was taken, the answer timed out: the worker throws all the same. *)
AnswerLost(j) ==
    /\ job[j].state = "sent"
    /\ unanswered' = unanswered \cup {j}
    /\ Retry(j)
    /\ UNCHANGED <<device, valid, event, pushed>>

(* Mistake: the devices of the user go, not the device with the token. *)
PruneUser(j) ==
    /\ Refused(j)
    /\ device' = [i \in Installations |->
                     IF device[i].userId = event[j[1]].to THEN NoDevice ELSE device[i]]
    /\ Becomes(j, "done")
    /\ UNCHANGED <<valid, event, pushed, unanswered>>

(* All the codes are taken to be about the token. *)
Prune(j) ==
    /\ Refused(j)
    /\ device' = [i \in Installations |->
                     IF device[i].fcmToken = j[2] THEN NoDevice ELSE device[i]]
    /\ Becomes(j, "done")
    /\ UNCHANGED <<valid, event, pushed, unanswered>>

(* deleteByFcmToken logs a failure and returns. *)
PruneFails(j) ==
    /\ Refused(j)
    /\ Becomes(j, "done")
    /\ UNCHANGED <<device, valid, event, pushed, unanswered>>

(* The process stops.  A job it held is found stalled and queued again, once;
   an event that was being dispatched is lost. *)
Stall(k) ==
    IF k.stalled = 0 THEN [k EXCEPT !.stalled = 1, !.state = "waiting"]
                     ELSE [k EXCEPT !.stalled = 2, !.state = "failed"]

PushStop ==
    /\ job' = [j \in JobIds |-> IF Working(j) THEN Stall(job[j]) ELSE job[j]]
    /\ unanswered' = unanswered \cup {j \in JobIds : job[j].state = "sent"}
    /\ event' = [e \in Events |->
                    IF event[e].pc = "none" THEN event[e] ELSE [event[e] EXCEPT !.pc = "done"]]
    /\ UNCHANGED <<device, valid, pushed>>

-----------------------------------------------------------------------------
(* What the server does by itself. *)
EventSteps(e) == FindDevices(e) \/ Enqueue(e) \/ SendEmail(e)
WorkerSteps(j) ==
    \/ TakeJob(j) \/ SendAccepted(j) \/ SendRefused(j) \/ SendInvalid(j) \/ SendFails(j)
    \/ Complete(j) \/ AnswerLost(j) \/ Prune(j) \/ PruneFails(j)

PushNext ==
    \/ \E i \in Installations, t \in Tokens, u \in Owners \cup {Nobody} : Register(i, t, u) \/ UpdateDevice(i, t, u)
    \/ \E i \in Installations : ExpireDevice(i)
    \/ \E u \in Owners : RemoveDevices(u)
    \/ \E t \in Tokens : TokenDies(t)
    \/ \E e \in Events : LoseEvent(e) \/ EventSteps(e) \/ \E u \in Owners : NotifyMember(e, u)
    \/ \E j \in JobIds : WorkerSteps(j)

-----------------------------------------------------------------------------
(* Properties *)

(* Jobs are retried after errors and queued again after a restart.  Firebase
   takes a job's push once, unless a push it took was not seen to succeed:
   its answer was lost, or the process stopped before it came. *)
PushedOnceUnlessUnanswered == \A j \in JobIds : pushed[j] = 2 => j \in unanswered

(* The worker deletes a device by the token the job was made with, long after
   it read the registry: meanwhile the device may have rotated its token,
   changed hands, or come back.  What it deletes is a device that has this token
   now, and a token that still works only for a message of that job's own which
   Firebase called invalid, a code the processor counts among the invalid tokens. *)
OnlyDeadTokensPrunedUnlessInvalid ==
    [][\A j \in JobIds : Refused(j) /\ job'[j].state = "done" =>
         \A i \in Installations : device'[i] # device[i] =>
             device[i].fcmToken = j[2] /\ (j[2] \in valid => job[j].state = "invalid")]_pushVars

-----------------------------------------------------------------------------
(* No two devices share a token. *)
TokensUnique ==
    \A i, k \in Installations :
        device[i] # NoDevice /\ device[i].fcmToken = device[k].fcmToken => i = k

OneAtATime == \A j, k \in JobIds : Working(j) /\ Working(k) => j = k

(* A job waits while it has an attempt left, and is refused as
   unregistered for a dead token. *)
JobsCurrent ==
    \A j \in JobIds :
        /\ (job[j].state = "refused" => j[2] \notin valid)
        /\ (job[j].state \in {"waiting", "active", "sent", "refused", "invalid"} => job[j].made < Attempts /\ job[j].stalled < 2)
        /\ (job[j].state = "none" => job[j] = NoJob /\ pushed[j] = 0 /\ j \notin unanswered)
        /\ (job[j].state # "none" => j[2] \in event[j[1]].tokens /\ event[j[1]].pc \in {"mail", "done"})

(* Before a job is sent Firebase has not taken it, or has without an answer. *)
PushesCurrent ==
    \A j \in JobIds :
        /\ (job[j].state \in {"waiting", "active", "refused", "invalid"} => pushed[j] = 0 \/ j \in unanswered)
        /\ (job[j].state = "sent" => pushed[j] # 0)

EventsCurrent ==
    \A e \in Events :
        /\ (event[e].pc = "none" <=> event[e].to = Nobody)
        /\ (event[e].pc \in {"none", "find"} => event[e].tokens = {})
        /\ (event[e].pc = "mail" => e \in MemberEvents)

PushInv ==
    /\ PushTypeOK
    /\ TokensUnique /\ OneAtATime /\ JobsCurrent /\ PushesCurrent /\ EventsCurrent
    /\ PushedOnceUnlessUnanswered

=============================================================================
