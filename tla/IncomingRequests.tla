-------------------------- MODULE IncomingRequests --------------------------
(***************************************************************************)
(* Where members meet outside discovery: a chat request tells its receiver *)
(* about the sender (src/chat-room/chat.service.ts).  Discovery, with the  *)
(* requests as far as they show anybody; their documents, answers and      *)
(* rooms are in ChatRequests.  One step is one awaited call.               *)
(***************************************************************************)
EXTENDS Discovery

VARIABLES
    asked,      \* pending chat requests: <<sender, receiver>>
    reading,    \* reading[v]: the senders that v's list is still to be told about
    introduced  \* history: members whose placeholder birth date a receiver got

requestVars == <<asked, reading, introduced>>

RequestsInit ==
    /\ asked = {}
    /\ reading = [v \in Members |-> {}]
    /\ introduced = {}

(* sendChatRequest looks for a room and a pending request, never at what the
   sender's profile still lacks.  The search and the insertion are one step
   here, two in ChatRequests. *)
SendChatRequest(u, v) ==
    /\ u # v
    /\ doc[u].status = "ACTIVE" /\ Exists(v)
    /\ {<<u, v>>, <<v, u>>} \cap asked = {}
    /\ asked' = asked \cup {<<u, v>>}
    /\ UNCHANGED <<reading, introduced, vars>>

(* Accepted, rejected, or deleted with one of the members. *)
CloseChatRequest ==
    /\ \E pair \in asked : asked' = asked \ {pair}
    /\ UNCHANGED <<reading, introduced, vars>>

(* getIncomingChatRequests: the pending requests, then each of their senders. *)
FindIncoming(v) ==
    /\ doc[v].status = "ACTIVE"
    /\ reading[v] = {}
    /\ reading' = [reading EXCEPT ![v] = {u \in Members : <<u, v>> \in asked}]
    /\ UNCHANGED <<asked, introduced, vars>>

ShowSender(u, v) ==
    /\ u \in reading[v]
    /\ reading' = [reading EXCEPT ![v] = @ \ {u}]
    /\ introduced' = introduced \cup {w \in {u} : doc[w].sentinel}
    /\ UNCHANGED <<asked, vars>>

RequestsNext ==
    \/ \E u, v \in Members : SendChatRequest(u, v) \/ ShowSender(u, v)
    \/ CloseChatRequest
    \/ \E v \in Members : FindIncoming(v)

MeetingSpec ==
    Init /\ RequestsInit /\ [][(Next /\ UNCHANGED requestVars) \/ RequestsNext]_<<vars, requestVars>>

-----------------------------------------------------------------------------
(* The promise made where a social sign-in stores the placeholders
   (users.service.ts:232): other users never see these defaults.  The
   isOnboarded filter keeps it for discovery queries (SentinelNeverDiscovered); a
   member who has filled in nothing may all the same ask for a chat. *)
DefaultsNeverSeen == exposed \cup introduced = {}

=============================================================================
