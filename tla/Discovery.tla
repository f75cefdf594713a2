----------------------------- MODULE Discovery -----------------------------
(***************************************************************************)
(* Profiles and who discovers them: the profile fields and the stored      *)
(* isOnboarded flag derived from them (src/users/users.service.ts), the    *)
(* one-time completion notice (src/notifications), saved and blocked       *)
(* profiles (src/user-interaction), search, single profiles and lists.     *)
(* One step is one awaited call with the synchronous code after it.        *)
(***************************************************************************)
EXTENDS Integers, FiniteSets

CONSTANTS
    Members,
    Fields,     \* the profile fields that count for completion
    Lists,      \* those that are arrays: an empty array counts as filled
    Sections,   \* the fields in sections; 11, 11, 10, 11 and 1 of them in the code
    Patches,    \* the bodies of PATCH requests: [on, off, identity]
    Calls,      \* slots for concurrent calls
    Handlers    \* the operations the environment calls

ASSUME DiscoveryAssumption ==
    /\ Members # {}
    /\ Lists \subseteq Fields
    /\ Lists # Fields
    /\ Fields = UNION Sections
    /\ \A s \in Sections : IsFiniteSet(s) /\ Cardinality(s) \in 1..199
    /\ Patches \subseteq [on : SUBSET Fields, off : SUBSET Fields, identity : BOOLEAN]

VARIABLES
    doc,       \* doc[u]: the user document
    saved,     \* userinteractions of type SAVED: <<userId, targetUserId>>
    blocked,   \* and of type BLOCKED
    told,      \* history: completion notices sent to each member, 2 for more than one
    exposed,   \* history: members that discovery showed with placeholder identity
    lapsed,    \* history: what overlapped, or failed, that the code does not guard against
    call       \* the calls in flight

vars == <<doc, saved, blocked, told, exposed, lapsed, call>>

AllHandlers == {"signup", "update", "backfill", "save", "block", "unsave", "unblock",
                "search", "view", "list", "delete", "fail"}

Document == [fields : SUBSET Fields,   \* those with a value
             sentinel : BOOLEAN,       \* dateOfBirth, gender and onBehalf are placeholders
             incomplete : BOOLEAN,     \* requiresAuthCompletion
             onboarded : BOOLEAN,      \* isOnboarded
             noticed : BOOLEAN,        \* profileCompleteNotificationSent
             status : {"ABSENT", "ACTIVE", "DELETED"}]

Absent == [fields |-> Lists, sentinel |-> FALSE, incomplete |-> FALSE, onboarded |-> FALSE,
           noticed |-> FALSE, status |-> "ABSENT"]

NoPatch == [on |-> {}, off |-> {}, identity |-> FALSE]

Locals == [pc : {"idle", "set", "compute", "flag", "look", "send", "mark",
                 "insert", "gate", "query", "show", "interactions", "tombstone"},
           op : {"none", "update", "backfill", "save", "block", "search", "list", "delete"},
           who : Members,                 \* the member whose document it is about
           whom : Members,                \* the other member of a pair
           patch : Patches \cup {NoPatch},
           result : BOOLEAN,              \* isOnboarded: computed, or read by the script's cursor
           others : SUBSET Members]       \* ids of an earlier read

Idle == [pc |-> "idle", op |-> "none", who |-> CHOOSE u \in Members : TRUE,
         whom |-> CHOOSE u \in Members : TRUE, patch |-> NoPatch, result |-> FALSE, others |-> {}]

TypeOK ==
    /\ doc \in [Members -> Document]
    /\ saved \subseteq Members \X Members
    /\ blocked \subseteq Members \X Members
    /\ told \in [Members -> 0..2]
    /\ exposed \subseteq Members
    /\ lapsed \subseteq {"flag", "notice", "pair"} \X Members
    /\ call \in [Calls -> Locals]

Init ==
    /\ doc = [u \in Members |-> Absent]
    /\ saved = {}
    /\ blocked = {}
    /\ told = [u \in Members |-> 0]
    /\ exposed = {}
    /\ lapsed = {}
    /\ call = [c \in Calls |-> Idle]

Exists(u) == doc[u].status # "ABSENT"

Begins(c, op, pc, u, v) ==
    /\ call[c].pc = "idle"
    /\ op \in Handlers
    /\ call' = [call EXCEPT ![c] = [Idle EXCEPT !.pc = pc, !.op = op, !.who = u, !.whom = v]]

At(c, pc) == call[c].pc = pc
Goes(c, pc) == call' = [call EXCEPT ![c].pc = pc]
Done(c) == call' = [call EXCEPT ![c] = Idle]
Lapses(kind, u, when) == lapsed' = lapsed \cup {x \in {<<kind, u>>} : when}

-----------------------------------------------------------------------------
(* Completion *)

(* Math.round(filled / total * 100) *)
Percent(filled, total) == (200 * filled + total) \div (2 * total)

Complete(fields) ==
    \A s \in Sections : Percent(Cardinality(s \cap fields), Cardinality(s)) = 100

(* Sign-up asks for the identity; a social sign-in fills in placeholders. *)
SignUp(u) ==
    /\ "signup" \in Handlers
    /\ doc[u].status = "ABSENT"
    /\ \E social \in BOOLEAN :
         doc' = [doc EXCEPT ![u] = [Absent EXCEPT !.status = "ACTIVE", !.sentinel = social,
                                                  !.incomplete = social]]
    /\ UNCHANGED <<saved, blocked, told, exposed, lapsed, call>>

(* Mistake: a member with placeholders may fill in other fields first. *)
StartAnyUpdate(c) ==
    \E u \in Members, p \in Patches :
        /\ Exists(u)
        /\ At(c, "idle") /\ "update" \in Handlers
        /\ call' = [call EXCEPT ![c] = [Idle EXCEPT !.pc = "set", !.op = "update", !.who = u, !.patch = p]]
        /\ UNCHANGED <<doc, saved, blocked, told, exposed, lapsed>>

StartUpdate(c) ==
    \E u \in Members, p \in Patches :
        /\ Exists(u)
        /\ At(c, "idle") /\ "update" \in Handlers
        /\ doc[u].incomplete => p.identity
        /\ call' = [call EXCEPT ![c] = [Idle EXCEPT !.pc = "set", !.op = "update", !.who = u, !.patch = p]]
        /\ UNCHANGED <<doc, saved, blocked, told, exposed, lapsed>>

SetProfile(c) ==
    /\ At(c, "set")
    /\ LET u == call[c].who  p == call[c].patch IN
         /\ doc' = [doc EXCEPT ![u] =
                [@ EXCEPT !.fields = (doc[u].fields \ p.off) \cup p.on,
                          !.sentinel = doc[u].sentinel /\ ~p.identity]]
         /\ Lapses("flag", u, \E d \in Calls \ {c} : At(d, "flag") /\ call[d].who = u)
    /\ Goes(c, "compute")
    /\ UNCHANGED <<saved, blocked, told, exposed>>

(* The script's cursor has read isOnboarded; it fills a batch ahead. *)
StartBackfill(c) ==
    /\ \E u \in Members :
         /\ Exists(u)
         /\ At(c, "idle") /\ "backfill" \in Handlers
         /\ call' = [call EXCEPT ![c] = [Idle EXCEPT !.pc = "compute", !.op = "backfill", !.who = u,
                                                     !.result = doc[u].onboarded]]
    /\ UNCHANGED <<doc, saved, blocked, told, exposed, lapsed>>

(* getProfileCompletionStatus reads the document again. *)
Compute(c) ==
    /\ At(c, "compute")
    /\ LET now == Complete(doc[call[c].who].fields) IN
         IF call[c].op = "backfill" /\ call[c].result = now
         THEN Done(c)
         ELSE call' = [call EXCEPT ![c].pc = "flag", ![c].result = now]
    /\ UNCHANGED <<doc, saved, blocked, told, exposed, lapsed>>

(* Mistake: the flag is only ever raised. *)
RaiseFlag(c) ==
    /\ At(c, "flag")
    /\ LET u == call[c].who IN
         doc' = [doc EXCEPT ![u] = [@ EXCEPT
                    !.onboarded = doc[u].onboarded \/ call[c].result,
                    !.incomplete = doc[u].incomplete /\ ~call[c].patch.identity]]
    /\ IF call[c].op = "update" /\ call[c].result THEN Goes(c, "look") ELSE Done(c)
    /\ UNCHANGED <<saved, blocked, told, exposed, lapsed>>

Flag(c) ==
    /\ At(c, "flag")
    /\ LET u == call[c].who IN
         doc' = [doc EXCEPT ![u] = [@ EXCEPT
                    !.onboarded = call[c].result,
                    !.incomplete = doc[u].incomplete /\ ~call[c].patch.identity]]
    /\ IF call[c].op = "update" /\ call[c].result THEN Goes(c, "look") ELSE Done(c)
    /\ UNCHANGED <<saved, blocked, told, exposed, lapsed>>

-----------------------------------------------------------------------------
(* notifyProfileComplete: started by the update, which does not wait for it. *)

Noticing(d, u) == call[d].pc \in {"send", "mark"} /\ call[d].who = u

(* Mistake: nobody looks whether it was sent. *)
NoticeAgain(c) ==
    /\ At(c, "look")
    /\ Goes(c, "send")
    /\ Lapses("notice", call[c].who, \E d \in Calls \ {c} : Noticing(d, call[c].who))
    /\ UNCHANGED <<doc, saved, blocked, told, exposed>>

LookForNotice(c) ==
    /\ At(c, "look")
    /\ LET u == call[c].who IN
         IF doc[u].noticed
         THEN Done(c) /\ lapsed' = lapsed
         ELSE Goes(c, "send") /\ Lapses("notice", u, \E d \in Calls \ {c} : Noticing(d, u))
    /\ UNCHANGED <<doc, saved, blocked, told, exposed>>

(* One notice to the member's devices; a failing queue is logged there. *)
SendNotice(c) ==
    /\ At(c, "send")
    /\ told' = [told EXCEPT ![call[c].who] = IF @ = 0 THEN 1 ELSE 2]
    /\ Goes(c, "mark")
    /\ UNCHANGED <<doc, saved, blocked, exposed, lapsed>>

MarkNotice(c) ==
    /\ At(c, "mark")
    /\ doc' = [doc EXCEPT ![call[c].who].noticed = TRUE]
    /\ Done(c)
    /\ UNCHANGED <<saved, blocked, told, exposed, lapsed>>

-----------------------------------------------------------------------------
(* Saved and blocked profiles *)

(* checkBlockedRelation: either of them may have blocked the other. *)
Related(u, v) == <<u, v>> \in blocked \/ <<v, u>> \in blocked

Inserting(d, op, u, v) == At(d, "insert") /\ call[d].op = op /\ call[d].who = u /\ call[d].whom = v

(* Mistake: saving does not look for a block. *)
StartSaveUnchecked(c) ==
    \E u, v \in Members :
        /\ u # v /\ Exists(u) /\ Exists(v)
        /\ Begins(c, "save", "insert", u, v)
        /\ Lapses("pair", u, \E d \in Calls : Inserting(d, "block", u, v))
        /\ UNCHANGED <<doc, saved, blocked, told, exposed>>

StartSave(c) ==
    \E u, v \in Members :
        /\ u # v /\ Exists(u) /\ Exists(v)
        /\ ~Related(u, v)
        /\ Begins(c, "save", "insert", u, v)
        /\ Lapses("pair", u, \E d \in Calls : Inserting(d, "block", u, v))
        /\ UNCHANGED <<doc, saved, blocked, told, exposed>>

(* The saved profile goes before the block comes. *)
StartBlock(c) ==
    \E u, v \in Members :
        /\ u # v /\ Exists(u) /\ Exists(v)
        /\ Begins(c, "block", "insert", u, v)
        /\ saved' = saved \ {<<u, v>>}
        /\ Lapses("pair", u, \E d \in Calls : Inserting(d, "save", u, v))
        /\ UNCHANGED <<doc, blocked, told, exposed>>

(* The unique index makes a second insertion fail. *)
InsertSaved(c) ==
    /\ At(c, "insert") /\ call[c].op = "save"
    /\ saved' = saved \cup {<<call[c].who, call[c].whom>>}
    /\ Done(c)
    /\ UNCHANGED <<doc, blocked, told, exposed, lapsed>>

InsertBlocked(c) ==
    /\ At(c, "insert") /\ call[c].op = "block"
    /\ blocked' = blocked \cup {<<call[c].who, call[c].whom>>}
    /\ Done(c)
    /\ UNCHANGED <<doc, saved, told, exposed, lapsed>>

UnsaveProfile ==
    /\ "unsave" \in Handlers
    /\ \E pair \in saved : saved' = saved \ {pair}
    /\ UNCHANGED <<doc, blocked, told, exposed, lapsed, call>>

UnblockProfile ==
    /\ "unblock" \in Handlers
    /\ \E pair \in blocked : blocked' = blocked \ {pair}
    /\ UNCHANGED <<doc, saved, told, exposed, lapsed, call>>

-----------------------------------------------------------------------------
(* Who is shown by discovery: exposed records those who carry placeholders then. *)

Shows(members) == exposed' = exposed \cup {v \in members : doc[v].sentinel}

ExcludedUserIds(u) == {v \in Members : Related(u, v)}

StartSearch(c) ==
    /\ \E u \in Members :
         /\ Exists(u)
         /\ At(c, "idle") /\ "search" \in Handlers
         /\ call' = [call EXCEPT ![c] = [Idle EXCEPT !.pc = "gate", !.op = "search", !.who = u,
                                                     !.others = ExcludedUserIds(u) \cup {u}]]
    /\ UNCHANGED <<doc, saved, blocked, told, exposed, lapsed>>

(* A member who is not onboarded is turned away. *)
GateSearch(c) ==
    /\ At(c, "gate")
    /\ IF doc[call[c].who].onboarded THEN Goes(c, "query") ELSE Done(c)
    /\ UNCHANGED <<doc, saved, blocked, told, exposed, lapsed>>

(* Mistake: the query forgets the onboarded filter. *)
QueryEveryone(c) ==
    /\ At(c, "query")
    /\ \E page \in SUBSET {v \in Members \ call[c].others : doc[v].status = "ACTIVE"} : Shows(page)
    /\ Done(c)
    /\ UNCHANGED <<doc, saved, blocked, told, lapsed>>

(* The gender, the client's filter and the page leave some of those who match. *)
QueryProfiles(c) ==
    /\ At(c, "query")
    /\ \E page \in SUBSET {v \in Members \ call[c].others :
                             doc[v].status = "ACTIVE" /\ doc[v].onboarded} : Shows(page)
    /\ Done(c)
    /\ UNCHANGED <<doc, saved, blocked, told, lapsed>>

(* getProfile: its filter on blocked ids removes those that a block relates to
   the profile's owner, never the owner, so it filters nothing. *)
GetProfile(u, v) ==
    /\ "view" \in Handlers
    /\ Exists(u) /\ u # v
    /\ doc[v].status = "ACTIVE" /\ doc[v].onboarded
    /\ Shows({v})
    /\ UNCHANGED <<doc, saved, blocked, told, lapsed, call>>

(* getSavedProfiles and getBlockedProfiles read the ids, then the users. *)
StartList(c) ==
    /\ \E u \in Members, pairs \in {saved, blocked} :
         /\ At(c, "idle") /\ "list" \in Handlers
         /\ call' = [call EXCEPT ![c] = [Idle EXCEPT !.pc = "show", !.op = "list", !.who = u,
                                                     !.others = {v \in Members : <<u, v>> \in pairs}]]
    /\ UNCHANGED <<doc, saved, blocked, told, exposed, lapsed>>

(* No filter on the status: a tombstone keeps isOnboarded. *)
ShowList(c) ==
    /\ At(c, "show")
    /\ Shows({v \in call[c].others : doc[v].onboarded})
    /\ Done(c)
    /\ UNCHANGED <<doc, saved, blocked, told, lapsed>>

-----------------------------------------------------------------------------
(* deleteAccount, as far as these collections go (see AccountDeletion). *)

StartDeletion(c) ==
    \E u \in Members :
        /\ Exists(u)
        /\ Begins(c, "delete", "interactions", u, u)
        /\ UNCHANGED <<doc, saved, blocked, told, exposed, lapsed>>

RemoveInteractions(c) ==
    /\ At(c, "interactions")
    /\ saved' = {pair \in saved : call[c].who \notin {pair[1], pair[2]}}
    /\ blocked' = {pair \in blocked : call[c].who \notin {pair[1], pair[2]}}
    /\ Goes(c, "tombstone")
    /\ UNCHANGED <<doc, told, exposed, lapsed>>

(* isOnboarded and requiresAuthCompletion are not among the scrubbed fields,
   and the notice is marked as not sent. *)
Tombstone(c) ==
    /\ At(c, "tombstone")
    /\ doc' = [doc EXCEPT ![call[c].who] =
           [@ EXCEPT !.status = "DELETED", !.fields = Lists, !.sentinel = FALSE, !.noticed = FALSE]]
    /\ Lapses("notice", call[c].who, TRUE)
    /\ Done(c)
    /\ UNCHANGED <<saved, blocked, told, exposed>>

(* Any call may throw, and its handler with it. *)
CallFails(c) ==
    /\ "fail" \in Handlers
    /\ call[c].pc # "idle"
    /\ lapsed' = lapsed \cup {x \in {<<"flag", call[c].who>>} : call[c].pc \in {"compute", "flag"}}
                        \cup {x \in {<<"notice", call[c].who>>} : At(c, "mark")}
    /\ Done(c)
    /\ UNCHANGED <<doc, saved, blocked, told, exposed>>

-----------------------------------------------------------------------------
ProfileSteps(c) ==
    \/ StartUpdate(c) \/ SetProfile(c) \/ StartBackfill(c) \/ Compute(c) \/ Flag(c)
    \/ LookForNotice(c) \/ SendNotice(c) \/ MarkNotice(c)

PairSteps(c) == StartSave(c) \/ StartBlock(c) \/ InsertSaved(c) \/ InsertBlocked(c)

ShowSteps(c) ==
    StartSearch(c) \/ GateSearch(c) \/ QueryProfiles(c) \/ StartList(c) \/ ShowList(c)

DeletionSteps(c) == StartDeletion(c) \/ RemoveInteractions(c) \/ Tombstone(c)

Next ==
    \/ \E c \in Calls : ProfileSteps(c) \/ PairSteps(c) \/ ShowSteps(c) \/ DeletionSteps(c) \/ CallFails(c)
    \/ \E u \in Members : SignUp(u)
    \/ \E u, v \in Members : GetProfile(u, v)
    \/ UnsaveProfile
    \/ UnblockProfile

Spec == Init /\ [][Next]_vars

-----------------------------------------------------------------------------
(* Properties *)

Recomputing(u) == \E c \in Calls : call[c].op = "update" /\ call[c].pc \in {"compute", "flag"}
                                   /\ call[c].who = u

(* isOnboarded, by which search and the lists filter, is stored beside the
   fields it is derived from: it is set after every PATCH, also to FALSE when
   a field was cleared.  It says whether every counted field has a value (a
   rounded percentage of each section notwithstanding), as long as no PATCH
   landed between another's computation and its write and none failed there. *)
OnboardedUnlessOverlap ==
    \A u \in Members :
        doc[u].status = "ACTIVE" /\ <<"flag", u>> \notin lapsed /\ ~Recomputing(u)
            => (doc[u].onboarded <=> Fields \subseteq doc[u].fields)

(* A social sign-in stores placeholders for birth date, gender and onBehalf.
   However PATCHes, the backfill, searches, lists and single views interleave,
   none of these queries shows another member someone who still has them.
   (A chat request does: see IncomingRequests.) *)
SentinelNeverDiscovered == exposed = {}

(* Blocking removes the saved profile first and saving looks for a block
   first, two calls each: nobody has a profile both saved and blocked, unless
   they were saving and blocking it at once. *)
SavedNotBlockedUnlessOverlap ==
    \A pair \in saved \cap blocked : <<"pair", pair[1]>> \in lapsed

(* The completion notice looks at its flag, is sent, and sets the flag: a
   member has it once, however often the profile becomes complete again,
   unless two notices overlapped, the flag was not saved or the account was
   deleted, which resets it. *)
NoticedOnceUnlessOverlap ==
    \A u \in Members : told[u] = 2 => <<"notice", u>> \in lapsed

-----------------------------------------------------------------------------
(* The inductive invariant *)

(* What a call carries at each place. *)
CallShape(k) ==
    /\ k.pc \in {"set", "look", "send", "mark"} => k.op = "update"
    /\ k.pc \in {"compute", "flag"} => k.op \in {"update", "backfill"}
    /\ k.op # "update" => k.patch = NoPatch
    /\ k.pc = "insert" => k.op \in {"save", "block"}
    /\ k.pc \in {"interactions", "tombstone"} => k.op = "delete"
    /\ k.op \in {"update", "backfill", "delete"} => Exists(k.who)

(* A computed value is the one to write, unless that lapsed. *)
ResultsCurrent ==
    \A c \in Calls : LET u == call[c].who IN
        At(c, "flag") /\ <<"flag", u>> \notin lapsed /\ doc[u].status # "DELETED"
            => (call[c].result <=> Complete(doc[u].fields))

FlagCurrent ==
    \A u \in Members :
        <<"flag", u>> \notin lapsed /\ doc[u].status # "DELETED"
            => Recomputing(u) \/ (doc[u].onboarded <=> Complete(doc[u].fields))

(* Placeholders go with the identity, before any field that counts comes. *)
SentinelsApart ==
    \A u \in Members : doc[u].sentinel =>
        /\ doc[u].incomplete
        /\ ~doc[u].onboarded
        /\ doc[u].fields \subseteq Lists
        /\ \A c \in Calls : call[c].who = u =>
             /\ At(c, "set") => call[c].patch.identity
             /\ At(c, "compute") => call[c].op = "backfill"
             /\ At(c, "flag") => ~call[c].patch.identity /\ ~call[c].result

(* While a notice is on its way the member has had none. *)
NoticesApart ==
    \A u \in Members : <<"notice", u>> \notin lapsed =>
        /\ \A c \in Calls : At(c, "send") /\ call[c].who = u => told[u] = 0 /\ ~doc[u].noticed
        /\ \A c, d \in Calls : Noticing(c, u) /\ Noticing(d, u) => c = d
        /\ told[u] # 0 => doc[u].noticed \/ \E c \in Calls : At(c, "mark") /\ call[c].who = u

(* While a profile is being saved it is not blocked, and the reverse. *)
PairsApart ==
    \A c \in Calls : At(c, "insert") /\ <<"pair", call[c].who>> \notin lapsed =>
        LET pair == <<call[c].who, call[c].whom>> IN
        /\ call[c].op = "save" => pair \notin blocked
        /\ call[c].op = "block" => pair \notin saved
        /\ \A d \in Calls : ~(Inserting(d, IF call[c].op = "save" THEN "block" ELSE "save",
                                        call[c].who, call[c].whom))

Shape ==
    /\ \A c \in Calls : CallShape(call[c])
    /\ \A u \in Members : doc[u].status = "ABSENT" => doc[u] = Absent

DiscoveryInv ==
    /\ TypeOK
    /\ Shape
    /\ ResultsCurrent /\ FlagCurrent /\ SentinelsApart /\ NoticesApart /\ PairsApart
    /\ SentinelNeverDiscovered /\ SavedNotBlockedUnlessOverlap /\ NoticedOnceUnlessOverlap

=============================================================================
