-------------------------- MODULE DiscoveryProofs --------------------------
(* Theorems about profiles, notices and interactions, for every set of members,
   fields, sections and calls. *)
EXTENDS Discovery, FiniteSetTheorems, TLAPS

-----------------------------------------------------------------------------
(* Completion *)

(* A percentage rounds to 100 only if nothing is missing: a section has fewer
   than 200 fields. *)
LEMMA PercentFull ==
    ASSUME NEW total \in 1..199, NEW filled \in 0..total
    PROVE  Percent(filled, total) = 100 <=> filled = total
<1> DEFINE n == 200 * filled + total
           b == 2 * total
<1>1. n \in Nat /\ b \in Nat \ {0} OBVIOUS
<1>2. CASE filled = total
  <2>1. n = 100 * b + total /\ 0 <= total /\ total < b BY <1>2
  <2> QED BY <1>1, <2>1, <1>2 DEF Percent
<1>3. CASE filled # total
  <2>1. n < 100 * b BY <1>3
  <2> QED BY <1>1, <2>1, <1>3 DEF Percent
<1> QED BY <1>2, <1>3

(* The isOnboarded that getProfileCompletionStatus computes by rounding says
   that every field has a value. *)
THEOREM CompleteMeansAll ==
    ASSUME NEW fields PROVE Complete(fields) <=> Fields \subseteq fields
<1>1. ASSUME NEW s \in Sections
      PROVE  Percent(Cardinality(s \cap fields), Cardinality(s)) = 100 <=> s \subseteq fields
  <2>1. IsFiniteSet(s) /\ Cardinality(s) \in 1..199 BY DiscoveryAssumption
  <2>2. /\ IsFiniteSet(s \cap fields)
        /\ Cardinality(s \cap fields) <= Cardinality(s)
        /\ Cardinality(s \cap fields) = Cardinality(s) <=> s \cap fields = s
    BY <2>1, FS_Subset, FS_CardinalityType, s \cap fields \subseteq s
  <2>3. Cardinality(s \cap fields) \in 0..Cardinality(s)
    BY <2>1, <2>2, FS_CardinalityType
  <2> QED BY <2>1, <2>2, <2>3, PercentFull
<1> QED BY <1>1, DiscoveryAssumption DEF Complete

COROLLARY ListsIncomplete ==
    ASSUME NEW fields, fields \subseteq Lists PROVE ~Complete(fields)
BY CompleteMeansAll, DiscoveryAssumption

-----------------------------------------------------------------------------
(* Types *)

USE DEF Begins, At, Goes, Done, Exists

LEMMA IdleTyped == ASSUME NEW u \in Members PROVE Idle \in Locals /\ Idle.pc = "idle"
BY DEF Idle, Locals

LEMMA DocumentTyped ==
    ASSUME TypeOK, NEW u \in Members, NEW d \in Document, doc' = [doc EXCEPT ![u] = d]
    PROVE  doc' \in [Members -> Document]
BY DEF TypeOK

LEMMA CallTyped ==
    ASSUME TypeOK, NEW c \in Calls, NEW k \in Locals, call' = [call EXCEPT ![c] = k]
    PROVE  call' \in [Calls -> Locals]
BY DEF TypeOK

LEMMA LocalsTyped ==
    ASSUME NEW k \in Locals
    PROVE  /\ k.who \in Members /\ k.whom \in Members /\ k.result \in BOOLEAN /\ k.others \subseteq Members
           /\ k.patch \in [on : SUBSET Fields, off : SUBSET Fields, identity : BOOLEAN]
<1>1. k.patch \in Patches \cup {NoPatch} BY DEF Locals
<1>2. NoPatch \in [on : SUBSET Fields, off : SUBSET Fields, identity : BOOLEAN] BY DEF NoPatch
<1> QED BY <1>1, <1>2, DiscoveryAssumption DEF Locals

(* A new call, as the entry of each handler makes one. *)
LEMMA StartTyped ==
    ASSUME TypeOK, NEW c \in Calls, NEW pc, NEW op, NEW u \in Members, NEW v \in Members,
           pc \in {"insert", "interactions"}, op \in {"save", "block", "delete"},
           call' = [call EXCEPT ![c] = [Idle EXCEPT !.pc = pc, !.op = op, !.who = u, !.whom = v]]
    PROVE  call' \in [Calls -> Locals]
<1>1. Idle \in Locals BY IdleTyped
<1>2. [Idle EXCEPT !.pc = pc, !.op = op, !.who = u, !.whom = v] \in Locals BY <1>1 DEF Locals
<1> QED BY <1>2, CallTyped

LEMMA TypesKept == TypeOK /\ [Next]_vars => TypeOK'
<1> SUFFICES ASSUME TypeOK, [Next]_vars PROVE TypeOK' OBVIOUS
<1> USE IdleTyped
<1>0. ASSUME NEW c \in Calls
      PROVE  /\ call[c] \in Locals /\ call[c].who \in Members /\ doc[call[c].who] \in Document
             /\ call[c].result \in BOOLEAN /\ call[c].patch.identity \in BOOLEAN
             /\ call[c].patch.on \subseteq Fields
  BY LocalsTyped DEF TypeOK
<1>1. ASSUME NEW c \in Calls, ProfileSteps(c) PROVE TypeOK'
  <2>1. CASE StartUpdate(c)
    <3>1. PICK u \in Members, p \in Patches :
            call' = [call EXCEPT ![c] = [Idle EXCEPT !.pc = "set", !.op = "update", !.who = u, !.patch = p]]
      BY <2>1 DEF StartUpdate
    <3>2. [Idle EXCEPT !.pc = "set", !.op = "update", !.who = u, !.patch = p] \in Locals BY DEF Locals
    <3> QED BY <2>1, <3>1, <3>2, CallTyped DEF StartUpdate, TypeOK
  <2>2. CASE SetProfile(c)
    <3> DEFINE u == call[c].who
               p == call[c].patch
               new == [doc[u] EXCEPT !.fields = (doc[u].fields \ p.off) \cup p.on,
                                     !.sentinel = doc[u].sentinel /\ ~p.identity]
    <3>1. new \in Document BY <1>0 DEF Document
    <3>2. doc' = [doc EXCEPT ![call[c].who] = new] BY <2>2 DEF SetProfile
    <3>3. doc' \in [Members -> Document] BY <1>0, <3>1, <3>2, DocumentTyped
    <3>4. call' \in [Calls -> Locals] BY <2>2 DEF SetProfile, TypeOK, Locals
    <3> QED BY <2>2, <1>0, <3>3, <3>4 DEF SetProfile, TypeOK, Lapses
  <2>3. CASE StartBackfill(c)
    <3>1. PICK u \in Members :
            call' = [call EXCEPT ![c] = [Idle EXCEPT !.pc = "compute", !.op = "backfill", !.who = u,
                                                     !.result = doc[u].onboarded]]
      BY <2>3 DEF StartBackfill
    <3>2. doc[u].onboarded \in BOOLEAN BY DEF TypeOK, Document
    <3>3. [Idle EXCEPT !.pc = "compute", !.op = "backfill", !.who = u, !.result = doc[u].onboarded] \in Locals
      BY <3>2 DEF Locals
    <3> QED BY <2>3, <3>1, <3>3, CallTyped DEF StartBackfill, TypeOK
  <2>4. CASE Compute(c)
    <3> DEFINE now == Complete(doc[call[c].who].fields)
    <3>1. now \in BOOLEAN BY DEF Complete
    <3>2. [call[c] EXCEPT !.pc = "flag", !.result = now] \in Locals BY <1>0, <3>1 DEF Locals
    <3>3. \/ call' = [call EXCEPT ![c] = [call[c] EXCEPT !.pc = "flag", !.result = now]]
          \/ call' = [call EXCEPT ![c] = Idle]
      BY <2>4 DEF Compute
    <3>4. call' \in [Calls -> Locals] BY <3>2, <3>3, <1>0, CallTyped
    <3> QED BY <2>4, <3>4 DEF Compute, TypeOK
  <2>5. CASE Flag(c)
    <3> DEFINE u == call[c].who
               new == [doc[u] EXCEPT !.onboarded = call[c].result,
                                     !.incomplete = doc[u].incomplete /\ ~call[c].patch.identity]
    <3>1. new \in Document BY <1>0 DEF Document
    <3>2. doc' = [doc EXCEPT ![call[c].who] = new] BY <2>5 DEF Flag
    <3>3. doc' \in [Members -> Document] BY <1>0, <3>1, <3>2, DocumentTyped
    <3>4. call' \in [Calls -> Locals] BY <2>5 DEF Flag, TypeOK, Locals
    <3> QED BY <2>5, <3>3, <3>4 DEF Flag, TypeOK
  <2>6. CASE LookForNotice(c) BY <2>6, <1>0 DEF LookForNotice, TypeOK, Locals, Lapses
  <2>7. CASE SendNotice(c) BY <2>7 DEF SendNotice, TypeOK, Locals
  <2>8. CASE MarkNotice(c)
    <3>1. [doc[call[c].who] EXCEPT !.noticed = TRUE] \in Document BY <1>0 DEF Document
    <3>2. doc' = [doc EXCEPT ![call[c].who] = [doc[call[c].who] EXCEPT !.noticed = TRUE]]
      BY <2>8 DEF MarkNotice
    <3>3. doc' \in [Members -> Document] BY <1>0, <3>1, <3>2, DocumentTyped
    <3>4. call' \in [Calls -> Locals] BY <2>8, <1>0 DEF MarkNotice, TypeOK
    <3> QED BY <2>8, <3>3, <3>4 DEF MarkNotice, TypeOK
  <2> QED BY <1>1, <2>1, <2>2, <2>3, <2>4, <2>5, <2>6, <2>7, <2>8 DEF ProfileSteps
<1>2. ASSUME NEW c \in Calls, PairSteps(c) PROVE TypeOK'
  <2>1. CASE StartSave(c)
    <3>1. PICK u \in Members, v \in Members : Begins(c, "save", "insert", u, v)
                                              /\ Lapses("pair", u, \E d \in Calls : Inserting(d, "block", u, v))
      BY <2>1 DEF StartSave
    <3>2. call' \in [Calls -> Locals] BY <3>1, StartTyped
    <3> QED BY <2>1, <3>1, <3>2 DEF StartSave, TypeOK, Lapses
  <2>2. CASE StartBlock(c)
    <3>1. PICK u \in Members, v \in Members : Begins(c, "block", "insert", u, v)
                                              /\ saved' = saved \ {<<u, v>>}
                                              /\ Lapses("pair", u, \E d \in Calls : Inserting(d, "save", u, v))
      BY <2>2 DEF StartBlock
    <3>2. call' \in [Calls -> Locals] BY <3>1, StartTyped
    <3> QED BY <2>2, <3>1, <3>2 DEF StartBlock, TypeOK, Lapses
  <2>3. CASE InsertSaved(c) BY <2>3, <1>0 DEF InsertSaved, TypeOK, Locals
  <2>4. CASE InsertBlocked(c) BY <2>4, <1>0 DEF InsertBlocked, TypeOK, Locals
  <2> QED BY <1>2, <2>1, <2>2, <2>3, <2>4 DEF PairSteps
<1>3. ASSUME NEW c \in Calls, ShowSteps(c) PROVE TypeOK'
  <2>1. CASE StartSearch(c)
    <3>1. PICK u \in Members :
            call' = [call EXCEPT ![c] = [Idle EXCEPT !.pc = "gate", !.op = "search", !.who = u,
                                                     !.others = ExcludedUserIds(u) \cup {u}]]
      BY <2>1 DEF StartSearch
    <3>2. ExcludedUserIds(u) \subseteq Members BY DEF ExcludedUserIds
    <3>3. [Idle EXCEPT !.pc = "gate", !.op = "search", !.who = u, !.others = ExcludedUserIds(u) \cup {u}] \in Locals
      BY <3>2 DEF Locals
    <3> QED BY <2>1, <3>1, <3>3, CallTyped DEF StartSearch, TypeOK
  <2>2. CASE GateSearch(c) BY <2>2 DEF GateSearch, TypeOK, Locals
  <2>3. CASE QueryProfiles(c) BY <2>3 DEF QueryProfiles, TypeOK, Locals, Shows
  <2>4. CASE StartList(c)
    <3>1. PICK u \in Members, pairs \in {saved, blocked} :
            call' = [call EXCEPT ![c] = [Idle EXCEPT !.pc = "show", !.op = "list", !.who = u,
                                                     !.others = {v \in Members : <<u, v>> \in pairs}]]
      BY <2>4 DEF StartList
    <3> DEFINE others == {v \in Members : <<u, v>> \in pairs}
    <3>2. others \subseteq Members OBVIOUS
    <3> HIDE DEF others
    <3>3. [Idle EXCEPT !.pc = "show", !.op = "list", !.who = u, !.others = others] \in Locals
      BY <3>2 DEF Locals
    <3>4. call' = [call EXCEPT ![c] = [Idle EXCEPT !.pc = "show", !.op = "list", !.who = u, !.others = others]]
      BY <3>1 DEF others
    <3> QED BY <2>4, <3>3, <3>4, CallTyped DEF StartList, TypeOK
  <2>5. CASE ShowList(c) BY <2>5, <1>0 DEF ShowList, TypeOK, Locals, Shows
  <2> QED BY <1>3, <2>1, <2>2, <2>3, <2>4, <2>5 DEF ShowSteps
<1>4. ASSUME NEW c \in Calls, DeletionSteps(c) PROVE TypeOK'
  <2>1. CASE StartDeletion(c)
    <3>1. PICK u \in Members : Begins(c, "delete", "interactions", u, u) BY <2>1 DEF StartDeletion
    <3>2. call' \in [Calls -> Locals] BY <3>1, StartTyped
    <3> QED BY <2>1, <3>2 DEF StartDeletion, TypeOK
  <2>2. CASE RemoveInteractions(c) BY <2>2 DEF RemoveInteractions, TypeOK, Locals
  <2>3. CASE Tombstone(c)
    <3> DEFINE new == [doc[call[c].who] EXCEPT !.status = "DELETED", !.fields = Lists,
                                               !.sentinel = FALSE, !.noticed = FALSE]
    <3>1. new \in Document BY <1>0, DiscoveryAssumption DEF Document
    <3>2. doc' = [doc EXCEPT ![call[c].who] = new] BY <2>3 DEF Tombstone
    <3>3. doc' \in [Members -> Document] BY <1>0, <3>1, <3>2, DocumentTyped
    <3>4. call' \in [Calls -> Locals] BY <2>3, <1>0 DEF Tombstone, TypeOK
    <3> QED BY <2>3, <1>0, <3>3, <3>4 DEF Tombstone, TypeOK, Lapses
  <2> QED BY <1>4, <2>1, <2>2, <2>3 DEF DeletionSteps
<1>5. ASSUME NEW c \in Calls, CallFails(c) PROVE TypeOK'
  BY <1>5, <1>0 DEF CallFails, TypeOK
<1>6. ASSUME NEW u \in Members, SignUp(u) PROVE TypeOK'
  <2>1. PICK social \in BOOLEAN :
          doc' = [doc EXCEPT ![u] = [Absent EXCEPT !.status = "ACTIVE", !.sentinel = social,
                                                   !.incomplete = social]]
    BY <1>6 DEF SignUp
  <2>2. Absent \in Document BY DiscoveryAssumption DEF Absent, Document
  <2>3. [Absent EXCEPT !.status = "ACTIVE", !.sentinel = social, !.incomplete = social] \in Document
    BY <2>2 DEF Document
  <2>4. doc' \in [Members -> Document] BY <2>1, <2>3, DocumentTyped
  <2> QED BY <1>6, <2>4 DEF SignUp, TypeOK
<1>7. ASSUME NEW u \in Members, NEW v \in Members, GetProfile(u, v) PROVE TypeOK'
  BY <1>7 DEF GetProfile, TypeOK, Shows
<1>8. CASE UnsaveProfile BY <1>8 DEF UnsaveProfile, TypeOK
<1>9. CASE UnblockProfile BY <1>9 DEF UnblockProfile, TypeOK
<1>10. CASE UNCHANGED vars BY <1>10 DEF vars, TypeOK
<1> QED BY <1>1, <1>2, <1>3, <1>4, <1>5, <1>6, <1>7, <1>8, <1>9, <1>10 DEF Next

-----------------------------------------------------------------------------
(* What the steps leave alone *)

(* No call enters or leaves one of these places or changes there. *)
Untouched(places) ==
    \A d \in Calls : call[d].pc \in places \/ call'[d].pc \in places => call'[d] = call[d]

ProfilePlaces == {"set", "compute", "flag", "look", "send", "mark"}

(* Every step that is no call's, and how each of the others moves its call. *)
CalmStep == (\E u \in Members : SignUp(u)) \/ (\E u, v \in Members : GetProfile(u, v))
            \/ UnsaveProfile \/ UnblockProfile \/ UNCHANGED vars

LEMMA CalmUntouched == ASSUME CalmStep PROVE call' = call
BY DEF CalmStep, SignUp, GetProfile, UnsaveProfile, UnblockProfile, vars

(* A call that goes on keeps its locals, one that ends drops them. *)
LEMMA Moves ==
    ASSUME TypeOK, NEW c \in Calls, NEW pc, call' = [call EXCEPT ![c].pc = pc]
    PROVE  /\ call'[c] = [call[c] EXCEPT !.pc = pc]
           /\ call'[c].pc = pc /\ call'[c].op = call[c].op
           /\ call'[c].who = call[c].who /\ call'[c].whom = call[c].whom
           /\ call'[c].patch = call[c].patch /\ call'[c].result = call[c].result
           /\ \A d \in Calls : d # c => call'[d] = call[d]
<1>1. call \in [Calls -> Locals] /\ call[c] \in Locals BY DEF TypeOK
<1>2. call'[c] = [call[c] EXCEPT !.pc = pc] BY <1>1
<1>3. \A d \in Calls : d # c => call'[d] = call[d] BY <1>1
<1> QED BY <1>1, <1>2, <1>3 DEF Locals

LEMMA Ends ==
    ASSUME TypeOK, NEW c \in Calls, call' = [call EXCEPT ![c] = Idle]
    PROVE  /\ call'[c] = Idle /\ call'[c].pc = "idle" /\ call'[c].op = "none" /\ call'[c].patch = NoPatch
           /\ \A d \in Calls : d # c => call'[d] = call[d]
BY DEF TypeOK, Idle

LEMMA Computed ==
    ASSUME TypeOK, NEW c \in Calls, NEW now, call' = [call EXCEPT ![c].pc = "flag", ![c].result = now]
    PROVE  /\ call'[c].pc = "flag" /\ call'[c].op = call[c].op /\ call'[c].result = now
           /\ call'[c].who = call[c].who /\ call'[c].patch = call[c].patch
           /\ \A d \in Calls : d # c => call'[d] = call[d]
<1>1. call \in [Calls -> Locals] /\ call[c] \in Locals BY DEF TypeOK
<1>2. call'[c] = [call[c] EXCEPT !.pc = "flag", !.result = now] BY <1>1
<1>3. \A d \in Calls : d # c => call'[d] = call[d] BY <1>1
<1> QED BY <1>1, <1>2, <1>3 DEF Locals

LEMMA IdlePlace == Idle.pc = "idle" /\ Idle.op = "none" /\ Idle.patch = NoPatch
BY DEF Idle

LEMMA PairUntouched ==
    ASSUME TypeOK, NEW c \in Calls, PairSteps(c)
    PROVE  Untouched(ProfilePlaces) /\ doc' = doc /\ told' = told /\ exposed' = exposed
<1> USE IdlePlace DEF Untouched, ProfilePlaces, TypeOK
<1>1. CASE StartSave(c) BY <1>1 DEF StartSave
<1>2. CASE StartBlock(c) BY <1>2 DEF StartBlock
<1>3. CASE InsertSaved(c) BY <1>3 DEF InsertSaved
<1>4. CASE InsertBlocked(c) BY <1>4 DEF InsertBlocked
<1> QED BY <1>1, <1>2, <1>3, <1>4 DEF PairSteps

LEMMA ShowUntouched ==
    ASSUME TypeOK, NEW c \in Calls, ShowSteps(c)
    PROVE  /\ Untouched(ProfilePlaces \cup {"insert"})
           /\ UNCHANGED <<doc, told, saved, blocked, lapsed>>
<1> USE IdlePlace DEF Untouched, ProfilePlaces, TypeOK
<1>1. CASE StartSearch(c) BY <1>1 DEF StartSearch
<1>2. CASE GateSearch(c)
  <2>1. call[c].pc = "gate" /\ UNCHANGED <<doc, told, saved, blocked, lapsed>> BY <1>2 DEF GateSearch
  <2>2. call' = [call EXCEPT ![c] = Idle] \/ call' = [call EXCEPT ![c].pc = "query"] BY <1>2 DEF GateSearch
  <2> QED BY <2>1, <2>2, Moves, Ends
<1>3. CASE QueryProfiles(c) BY <1>3 DEF QueryProfiles
<1>4. CASE StartList(c)
  <2>1. PICK u \in Members, pairs \in {saved, blocked} :
          call' = [call EXCEPT ![c] = [Idle EXCEPT !.pc = "show", !.op = "list", !.who = u,
                                                   !.others = {v \in Members : <<u, v>> \in pairs}]]
    BY <1>4 DEF StartList
  <2>2. call[c].pc = "idle" /\ UNCHANGED <<doc, told, saved, blocked, lapsed>> BY <1>4 DEF StartList
  <2>3. \A d \in Calls : d # c => call'[d] = call[d] BY <2>1
  <2>4. call'[c].pc = "show" BY <2>1 DEF Idle
  <2> QED BY <2>2, <2>3, <2>4
<1>5. CASE ShowList(c) BY <1>5 DEF ShowList
<1> QED BY <1>1, <1>2, <1>3, <1>4, <1>5 DEF ShowSteps

LEMMA DeletionUntouched ==
    ASSUME TypeOK, NEW c \in Calls, DeletionSteps(c)
    PROVE  Untouched(ProfilePlaces \cup {"insert"}) /\ told' = told /\ exposed' = exposed
<1> USE IdlePlace DEF Untouched, ProfilePlaces, TypeOK
<1>1. CASE StartDeletion(c) BY <1>1 DEF StartDeletion
<1>2. CASE RemoveInteractions(c) BY <1>2 DEF RemoveInteractions
<1>3. CASE Tombstone(c) BY <1>3 DEF Tombstone
<1> QED BY <1>1, <1>2, <1>3 DEF DeletionSteps

LEMMA ProfileUntouched ==
    ASSUME TypeOK, NEW c \in Calls, ProfileSteps(c)
    PROVE  Untouched({"insert"}) /\ UNCHANGED <<saved, blocked, exposed>>
<1> USE IdlePlace DEF Untouched, TypeOK
<1>1. CASE StartUpdate(c) BY <1>1 DEF StartUpdate
<1>2. CASE SetProfile(c) BY <1>2 DEF SetProfile
<1>3. CASE StartBackfill(c) BY <1>3 DEF StartBackfill
<1>4. CASE Compute(c)
  <2> DEFINE now == Complete(doc[call[c].who].fields)
  <2>1. call[c].pc = "compute" /\ UNCHANGED <<saved, blocked, exposed>> BY <1>4 DEF Compute
  <2>2. call' = [call EXCEPT ![c] = Idle] \/ call' = [call EXCEPT ![c].pc = "flag", ![c].result = now]
    BY <1>4 DEF Compute
  <2> HIDE DEF now
  <2> QED BY <2>1, <2>2, Computed, Ends
<1>5. CASE Flag(c)
  <2>1. call[c].pc = "flag" /\ UNCHANGED <<saved, blocked, exposed>> BY <1>5 DEF Flag
  <2>2. call' = [call EXCEPT ![c] = Idle] \/ call' = [call EXCEPT ![c].pc = "look"] BY <1>5 DEF Flag
  <2> QED BY <2>1, <2>2, Moves, Ends
<1>6. CASE LookForNotice(c)
  <2>1. call[c].pc = "look" /\ UNCHANGED <<saved, blocked, exposed>> BY <1>6 DEF LookForNotice
  <2>2. call' = [call EXCEPT ![c] = Idle] \/ call' = [call EXCEPT ![c].pc = "send"] BY <1>6 DEF LookForNotice
  <2> QED BY <2>1, <2>2, Moves, Ends
<1>7. CASE SendNotice(c) BY <1>7 DEF SendNotice
<1>8. CASE MarkNotice(c) BY <1>8 DEF MarkNotice
<1> QED BY <1>1, <1>2, <1>3, <1>4, <1>5, <1>6, <1>7, <1>8 DEF ProfileSteps

-----------------------------------------------------------------------------
(* What calls carry *)

(* A member's document appears once and then exists. *)
LEMMA DocumentsStay ==
    ASSUME TypeOK, [Next]_vars, NEW u \in Members, Exists(u)
    PROVE  Exists(u)'
<1> USE DEF TypeOK
<1>1. ASSUME NEW c \in Calls, ProfileSteps(c) PROVE Exists(u)'
  <2> SUFFICES ASSUME doc' # doc PROVE Exists(u)' OBVIOUS
  <2>1. CASE SetProfile(c) BY <2>1 DEF SetProfile, Document
  <2>2. CASE Flag(c) BY <2>2 DEF Flag, Document
  <2>3. CASE MarkNotice(c) BY <2>3 DEF MarkNotice, Document
  <2> QED BY <1>1, <2>1, <2>2, <2>3
          DEF ProfileSteps, StartUpdate, StartBackfill, Compute, LookForNotice, SendNotice
<1>2. ASSUME NEW c \in Calls, PairSteps(c) \/ ShowSteps(c) PROVE Exists(u)'
  BY <1>2, PairUntouched, ShowUntouched
<1>3. ASSUME NEW c \in Calls, DeletionSteps(c) PROVE Exists(u)'
  <2>1. CASE Tombstone(c)
    <3>1. call[c].who \in Members BY DEF Locals
    <3> QED BY <2>1, <3>1 DEF Tombstone, Document
  <2> QED BY <1>3, <2>1 DEF DeletionSteps, StartDeletion, RemoveInteractions
<1>4. ASSUME NEW c \in Calls, CallFails(c) PROVE Exists(u)' BY <1>4 DEF CallFails
<1>5. CASE CalmStep
  BY <1>5 DEF CalmStep, SignUp, GetProfile, UnsaveProfile, UnblockProfile, vars
<1> QED BY <1>1, <1>2, <1>3, <1>4, <1>5 DEF Next, CalmStep

(* The shape of a call does not depend on the step of another. *)
LEMMA ShapeStays ==
    ASSUME TypeOK, [Next]_vars, NEW d \in Calls, CallShape(call[d]), call'[d] = call[d]
    PROVE  CallShape(call[d])'
<1>1. call[d].who \in Members BY DEF TypeOK, Locals
<1>2. Exists(call[d].who) => Exists(call[d].who)' BY <1>1, DocumentsStay
<1> QED BY <1>2 DEF CallShape

LEMMA ShapeMoves ==
    ASSUME TypeOK, Shape, [Next]_vars, NEW c \in Calls,
           \A d \in Calls : d # c => call'[d] = call[d],
           CallShape(call[c])'
    PROVE  \A d \in Calls : CallShape(call[d])'
BY ShapeStays DEF Shape

LEMMA ShapeKept == TypeOK /\ Shape /\ [Next]_vars => Shape'
<1> SUFFICES ASSUME TypeOK, Shape, [Next]_vars PROVE Shape' OBVIOUS
<1>0. ASSUME NEW c \in Calls PROVE call[c].who \in Members /\ CallShape(call[c])
  BY DEF TypeOK, Locals, Shape
<1>1. \A d \in Calls : CallShape(call[d])'
  <2>1. ASSUME NEW c \in Calls, call' = [call EXCEPT ![c] = Idle] PROVE \A d \in Calls : CallShape(call[d])'
    <3>1. CallShape(call[c])' BY <2>1, Ends DEF CallShape
    <3> QED BY <3>1, <2>1, Ends, ShapeMoves
  <2>2. ASSUME NEW c \in Calls, NEW pc, call' = [call EXCEPT ![c].pc = pc],
               \/ pc \in {"compute", "look", "send", "mark"} /\ call[c].op = "update"
               \/ pc = "tombstone" /\ call[c].op = "delete"
               \/ pc = "query"
        PROVE  \A d \in Calls : CallShape(call[d])'
    <3>1. Exists(call[c].who) => doc'[call[c].who].status # "ABSENT" BY <1>0, DocumentsStay
    <3>2. CallShape(call[c])' BY <1>0, <2>2, <3>1, Moves DEF CallShape
    <3> QED BY <3>2, <2>2, Moves, ShapeMoves
  <2>3. ASSUME NEW c \in Calls, ProfileSteps(c) PROVE \A d \in Calls : CallShape(call[d])'
    <3>1. CASE StartUpdate(c)
      <4>1. PICK u \in Members, p \in Patches :
              /\ Exists(u)
              /\ call' = [call EXCEPT ![c] = [Idle EXCEPT !.pc = "set", !.op = "update", !.who = u, !.patch = p]]
        BY <3>1 DEF StartUpdate
      <4>2. Exists(u)' BY <4>1, DocumentsStay
      <4>3. call'[c].pc = "set" /\ call'[c].op = "update" /\ call'[c].who = u
            /\ \A d \in Calls : d # c => call'[d] = call[d]
        BY <4>1 DEF TypeOK, Idle
      <4>4. CallShape(call[c])' BY <4>2, <4>3 DEF CallShape
      <4> QED BY <4>3, <4>4, ShapeMoves
    <3>2. CASE SetProfile(c) BY <3>2, <2>2, <1>0 DEF SetProfile, CallShape
    <3>3. CASE StartBackfill(c)
      <4>1. PICK u \in Members :
              /\ Exists(u)
              /\ call' = [call EXCEPT ![c] = [Idle EXCEPT !.pc = "compute", !.op = "backfill", !.who = u,
                                                       !.result = doc[u].onboarded]]
        BY <3>3 DEF StartBackfill
      <4>2. Exists(u)' BY <4>1, DocumentsStay
      <4>3. call'[c].pc = "compute" /\ call'[c].op = "backfill" /\ call'[c].who = u
            /\ call'[c].patch = NoPatch /\ \A d \in Calls : d # c => call'[d] = call[d]
        BY <4>1 DEF TypeOK, Idle
      <4>4. CallShape(call[c])' BY <4>2, <4>3 DEF CallShape
      <4> QED BY <4>3, <4>4, ShapeMoves
    <3>4. CASE Compute(c)
      <4> DEFINE now == Complete(doc[call[c].who].fields)
      <4>1. call[c].pc = "compute"
            /\ (call' = [call EXCEPT ![c] = Idle] \/ call' = [call EXCEPT ![c].pc = "flag", ![c].result = now])
        BY <3>4 DEF Compute
      <4> HIDE DEF now
      <4>2. ASSUME call' = [call EXCEPT ![c].pc = "flag", ![c].result = now]
            PROVE  CallShape(call[c])' /\ \A d \in Calls : d # c => call'[d] = call[d]
        <5>1. Exists(call[c].who) => doc'[call[c].who].status # "ABSENT" BY <1>0, DocumentsStay
        <5> QED BY <1>0, <4>1, <4>2, <5>1, Computed DEF CallShape
      <4> QED BY <2>1, <4>1, <4>2, ShapeMoves
    <3>5. CASE Flag(c)
      <4>1. \/ call' = [call EXCEPT ![c] = Idle]
            \/ call' = [call EXCEPT ![c].pc = "look"] /\ call[c].op = "update"
        BY <3>5 DEF Flag
      <4> QED BY <4>1, <2>1, <2>2
    <3>6. CASE LookForNotice(c)
      <4>1. /\ call[c].pc = "look"
            /\ call' = [call EXCEPT ![c] = Idle] \/ call' = [call EXCEPT ![c].pc = "send"]
        BY <3>6 DEF LookForNotice
      <4> QED BY <4>1, <1>0, <2>1, <2>2 DEF CallShape
    <3>7. CASE SendNotice(c) BY <3>7, <2>2, <1>0 DEF SendNotice, CallShape
    <3>8. CASE MarkNotice(c) BY <3>8, <2>1 DEF MarkNotice
    <3> QED BY <2>3, <3>1, <3>2, <3>3, <3>4, <3>5, <3>6, <3>7, <3>8 DEF ProfileSteps
  <2>4. ASSUME NEW c \in Calls, NEW pc, NEW op, NEW u \in Members, NEW v \in Members,
               Exists(u), Begins(c, op, pc, u, v),
               (pc = "insert" /\ op \in {"save", "block"}) \/ (pc = "interactions" /\ op = "delete")
        PROVE  \A d \in Calls : CallShape(call[d])'
    <3>1. Exists(u)' BY <2>4, DocumentsStay
    <3>2. call'[c].pc = pc /\ call'[c].op = op /\ call'[c].who = u /\ call'[c].patch = NoPatch
          /\ \A d \in Calls : d # c => call'[d] = call[d]
      BY <2>4 DEF TypeOK, Idle
    <3>3. CallShape(call[c])' BY <2>4, <3>1, <3>2 DEF CallShape
    <3> QED BY <3>2, <3>3, ShapeMoves
  <2>5. ASSUME NEW c \in Calls, PairSteps(c) PROVE \A d \in Calls : CallShape(call[d])'
    <3>1. CASE StartSave(c)
      <4>1. PICK u \in Members, v \in Members : Exists(u) /\ Begins(c, "save", "insert", u, v)
        BY <3>1 DEF StartSave
      <4> QED BY <4>1, <2>4
    <3>2. CASE StartBlock(c)
      <4>1. PICK u \in Members, v \in Members : Exists(u) /\ Begins(c, "block", "insert", u, v)
        BY <3>2 DEF StartBlock
      <4> QED BY <4>1, <2>4
    <3>3. CASE InsertSaved(c) BY <3>3, <2>1 DEF InsertSaved
    <3>4. CASE InsertBlocked(c) BY <3>4, <2>1 DEF InsertBlocked
    <3> QED BY <2>5, <3>1, <3>2, <3>3, <3>4 DEF PairSteps
  <2>6. ASSUME NEW c \in Calls, ShowSteps(c) PROVE \A d \in Calls : CallShape(call[d])'
    <3>1. CASE StartSearch(c)
      <4>1. PICK u \in Members :
              call' = [call EXCEPT ![c] = [Idle EXCEPT !.pc = "gate", !.op = "search", !.who = u,
                                                       !.others = ExcludedUserIds(u) \cup {u}]]
        BY <3>1 DEF StartSearch
      <4>2. call'[c].pc = "gate" /\ call'[c].op = "search" /\ call'[c].patch = NoPatch
            /\ \A d \in Calls : d # c => call'[d] = call[d]
        BY <4>1 DEF TypeOK, Idle
      <4> QED BY <4>2, ShapeMoves DEF CallShape
    <3>2. CASE GateSearch(c)
      <4>1. call' = [call EXCEPT ![c] = Idle] \/ call' = [call EXCEPT ![c].pc = "query"]
        BY <3>2 DEF GateSearch
      <4> QED BY <4>1, <2>1, <2>2
    <3>3. CASE QueryProfiles(c) BY <3>3, <2>1 DEF QueryProfiles
    <3>4. CASE StartList(c)
      <4>1. PICK u \in Members, pairs \in {saved, blocked} :
              call' = [call EXCEPT ![c] = [Idle EXCEPT !.pc = "show", !.op = "list", !.who = u,
                                                       !.others = {v \in Members : <<u, v>> \in pairs}]]
        BY <3>4 DEF StartList
      <4>2. call'[c].pc = "show" /\ call'[c].op = "list" /\ call'[c].patch = NoPatch BY <4>1 DEF TypeOK, Idle
      <4>3. \A d \in Calls : d # c => call'[d] = call[d] BY <4>1 DEF TypeOK
      <4> QED BY <4>2, <4>3, ShapeMoves DEF CallShape
    <3>5. CASE ShowList(c) BY <3>5, <2>1 DEF ShowList
    <3> QED BY <2>6, <3>1, <3>2, <3>3, <3>4, <3>5 DEF ShowSteps
  <2>7. ASSUME NEW c \in Calls, DeletionSteps(c) PROVE \A d \in Calls : CallShape(call[d])'
    <3>1. CASE StartDeletion(c)
      <4>1. PICK u \in Members : Exists(u) /\ Begins(c, "delete", "interactions", u, u)
        BY <3>1 DEF StartDeletion
      <4> QED BY <4>1, <2>4
    <3>2. CASE RemoveInteractions(c) BY <3>2, <2>2, <1>0 DEF RemoveInteractions, CallShape
    <3>3. CASE Tombstone(c) BY <3>3, <2>1 DEF Tombstone
    <3> QED BY <2>7, <3>1, <3>2, <3>3 DEF DeletionSteps
  <2>8. ASSUME NEW c \in Calls, CallFails(c) PROVE \A d \in Calls : CallShape(call[d])'
    BY <2>8, <2>1 DEF CallFails
  <2>9. CASE CalmStep BY <2>9, CalmUntouched, ShapeStays DEF Shape
  <2> QED BY <2>3, <2>5, <2>6, <2>7, <2>8, <2>9 DEF Next, CalmStep
<1>2. ASSUME NEW u \in Members, doc'[u].status = "ABSENT" PROVE doc'[u] = Absent
  <2>1. ~Exists(u) /\ doc[u] = Absent BY <1>2, DocumentsStay DEF Shape
  <2> SUFFICES ASSUME doc' # doc PROVE doc'[u] = doc[u] BY <2>1
  <2> USE DEF TypeOK, Document
  <2>2. ASSUME NEW c \in Calls, ProfileSteps(c) PROVE doc'[u] = doc[u]
    <3>1. CASE SetProfile(c) BY <3>1, <2>1, <1>0 DEF SetProfile, CallShape
    <3>2. CASE Flag(c) BY <3>2, <2>1, <1>0 DEF Flag, CallShape
    <3>3. CASE MarkNotice(c) BY <3>3, <2>1, <1>0 DEF MarkNotice, CallShape
    <3> QED BY <2>2, <3>1, <3>2, <3>3
            DEF ProfileSteps, StartUpdate, StartBackfill, Compute, LookForNotice, SendNotice
  <2>3. ASSUME NEW c \in Calls, PairSteps(c) \/ ShowSteps(c) PROVE doc'[u] = doc[u]
    BY <2>3, PairUntouched, ShowUntouched
  <2>4. ASSUME NEW c \in Calls, DeletionSteps(c) PROVE doc'[u] = doc[u]
    BY <2>4, <2>1, <1>0 DEF DeletionSteps, StartDeletion, RemoveInteractions, Tombstone, CallShape
  <2>5. ASSUME NEW c \in Calls, CallFails(c) PROVE doc'[u] = doc[u] BY <2>5 DEF CallFails
  <2>6. CASE CalmStep
    BY <2>6, <1>2 DEF CalmStep, SignUp, GetProfile, UnsaveProfile, UnblockProfile, vars, Absent
  <2> QED BY <2>2, <2>3, <2>4, <2>5, <2>6 DEF Next, CalmStep
<1> QED BY <1>1, <1>2 DEF Shape

-----------------------------------------------------------------------------
(* The stored flag *)

LEMMA FlagsQuiet ==
    ASSUME TypeOK, ResultsCurrent, FlagCurrent, Untouched({"compute", "flag"}), lapsed \subseteq lapsed',
           \A u \in Members : /\ doc'[u].fields = doc[u].fields
                              /\ doc'[u].status = doc[u].status
                              /\ doc'[u].onboarded = doc[u].onboarded
    PROVE  ResultsCurrent' /\ FlagCurrent'
<1>1. \A c \in Calls : call[c].who \in Members BY DEF TypeOK, Locals
<1>2. ResultsCurrent' BY <1>1 DEF ResultsCurrent, Untouched
<1>3. ASSUME NEW u \in Members, Recomputing(u) PROVE Recomputing(u)'
  BY <1>3 DEF Recomputing, Untouched
<1>4. FlagCurrent' BY <1>3 DEF FlagCurrent
<1> QED BY <1>2, <1>4

LEMMA FlagsKept ==
    TypeOK /\ Shape /\ ResultsCurrent /\ FlagCurrent /\ [Next]_vars => ResultsCurrent' /\ FlagCurrent'
<1> SUFFICES ASSUME TypeOK, Shape, ResultsCurrent, FlagCurrent, [Next]_vars
             PROVE  ResultsCurrent' /\ FlagCurrent'
  OBVIOUS
<1>0. ASSUME NEW c \in Calls PROVE call[c].who \in Members /\ CallShape(call[c])
  BY DEF TypeOK, Locals, Shape
<1>1. ASSUME NEW c \in Calls, SetProfile(c) PROVE ResultsCurrent' /\ FlagCurrent'
  <2>0. PICK u \in Members : u = call[c].who BY <1>0
  <2>1. call[c].pc = "set" /\ call[c].op = "update" BY <1>0, <1>1 DEF SetProfile, CallShape
  <2>2. call' = [call EXCEPT ![c].pc = "compute"] BY <1>1 DEF SetProfile
  <2>3. call'[c].pc = "compute" /\ call'[c].op = "update" /\ call'[c].who = u
        /\ \A d \in Calls : d # c => call'[d] = call[d]
    BY <2>0, <2>1, <2>2, Moves
  <2>4. lapsed \subseteq lapsed'
        /\ \A d \in Calls : d # c /\ call[d].pc = "flag" /\ call[d].who = u => <<"flag", u>> \in lapsed'
    BY <2>0, <1>1 DEF SetProfile, Lapses
  <2>5. \A v \in Members : v # u => doc'[v] = doc[v] BY <2>0, <1>1 DEF SetProfile, TypeOK
  <2>6. ResultsCurrent' BY <1>0, <2>3, <2>4, <2>5 DEF ResultsCurrent
  <2>7. Recomputing(u)' BY <2>3 DEF Recomputing
  <2>8. ASSUME NEW v \in Members, v # u, Recomputing(v) PROVE Recomputing(v)'
    <3>1. PICK d \in Calls : call[d].op = "update" /\ call[d].pc \in {"compute", "flag"} /\ call[d].who = v
      BY <2>8 DEF Recomputing
    <3>2. d # c BY <3>1, <2>0, <2>8
    <3> QED BY <3>1, <3>2, <2>3 DEF Recomputing
  <2>9. ASSUME NEW v \in Members, <<"flag", v>> \notin lapsed', doc'[v].status # "DELETED", ~Recomputing(v)'
        PROVE  doc'[v].onboarded <=> Complete(doc'[v].fields)
    <3>1. v # u BY <2>7, <2>9
    <3> QED BY <3>1, <2>4, <2>5, <2>8, <2>9 DEF FlagCurrent
  <2> QED BY <2>6, <2>9 DEF FlagCurrent
<1>2. ASSUME NEW c \in Calls, StartBackfill(c) PROVE ResultsCurrent' /\ FlagCurrent'
  <2>1. PICK u \in Members :
          call' = [call EXCEPT ![c] = [Idle EXCEPT !.pc = "compute", !.op = "backfill", !.who = u,
                                                   !.result = doc[u].onboarded]]
    BY <1>2 DEF StartBackfill
  <2>2. call'[c].pc = "compute" /\ \A d \in Calls : d # c => call'[d] = call[d]
    BY <2>1 DEF TypeOK, Idle
  <2>3. call[c].pc = "idle" /\ doc' = doc /\ lapsed' = lapsed BY <1>2 DEF StartBackfill
  <2>4. ResultsCurrent' BY <2>2, <2>3 DEF ResultsCurrent
  <2>5. \A v \in Members : Recomputing(v) => Recomputing(v)' BY <2>2, <2>3 DEF Recomputing
  <2> QED BY <2>3, <2>4, <2>5 DEF FlagCurrent
<1>3. ASSUME NEW c \in Calls, Compute(c) PROVE ResultsCurrent' /\ FlagCurrent'
  <2> DEFINE now == Complete(doc[call[c].who].fields)
  <2>1. call[c].pc = "compute" /\ doc' = doc /\ lapsed' = lapsed BY <1>3 DEF Compute
  <2>2. \/ call[c].op = "backfill" /\ call' = [call EXCEPT ![c] = Idle]
        \/ call' = [call EXCEPT ![c].pc = "flag", ![c].result = now]
    BY <1>3 DEF Compute
  <2>3. CASE call[c].op = "backfill" /\ call' = [call EXCEPT ![c] = Idle]
    <3>1. call'[c].pc = "idle" /\ \A d \in Calls : d # c => call'[d] = call[d] BY <2>3, Ends
    <3>2. ResultsCurrent' BY <2>1, <3>1 DEF ResultsCurrent
    <3>3. \A v \in Members : Recomputing(v) => Recomputing(v)' BY <2>3, <3>1 DEF Recomputing
    <3> QED BY <2>1, <3>2, <3>3 DEF FlagCurrent
  <2>4. CASE call' = [call EXCEPT ![c].pc = "flag", ![c].result = now]
    <3> HIDE DEF now
    <3>1. /\ call'[c].pc = "flag" /\ call'[c].op = call[c].op
          /\ call'[c].result = now /\ call'[c].who = call[c].who
          /\ \A d \in Calls : d # c => call'[d] = call[d]
      BY <2>4, Computed
    <3>2. call'[c].result <=> Complete(doc[call[c].who].fields) BY <3>1 DEF now
    <3>3. ResultsCurrent' BY <2>1, <3>1, <3>2 DEF ResultsCurrent
    <3>4. \A v \in Members : Recomputing(v) => Recomputing(v)' BY <2>1, <3>1 DEF Recomputing
    <3> QED BY <2>1, <3>3, <3>4 DEF FlagCurrent
  <2> QED BY <2>2, <2>3, <2>4
<1>4. ASSUME NEW c \in Calls, Flag(c) PROVE ResultsCurrent' /\ FlagCurrent'
  <2> DEFINE u == call[c].who
  <2>1. call[c].pc = "flag" /\ u \in Members /\ lapsed' = lapsed BY <1>0, <1>4 DEF Flag
  <2>2. call' = [call EXCEPT ![c] = Idle] \/ call' = [call EXCEPT ![c].pc = "look"] BY <1>4 DEF Flag
  <2>3. call'[c].pc \in {"idle", "look"} /\ \A d \in Calls : d # c => call'[d] = call[d]
    BY <2>2, Moves, Ends
  <2>4. \A v \in Members : v # u => doc'[v] = doc[v] BY <1>4 DEF Flag, TypeOK
  <2>5. /\ doc'[u].fields = doc[u].fields /\ doc'[u].status = doc[u].status
        /\ doc'[u].onboarded = call[c].result
    BY <1>4, <2>1 DEF Flag, TypeOK, Document
  <2>6. ResultsCurrent' BY <1>0, <2>1, <2>3, <2>4, <2>5 DEF ResultsCurrent
  <2>7. ASSUME NEW v \in Members, v # u, Recomputing(v) PROVE Recomputing(v)'
    <3>1. PICK d \in Calls : call[d].op = "update" /\ call[d].pc \in {"compute", "flag"} /\ call[d].who = v
      BY <2>7 DEF Recomputing
    <3>2. d # c BY <3>1, <2>7
    <3> QED BY <3>1, <3>2, <2>3 DEF Recomputing
  <2>8. ASSUME NEW v \in Members, <<"flag", v>> \notin lapsed', doc'[v].status # "DELETED", ~Recomputing(v)'
        PROVE  doc'[v].onboarded <=> Complete(doc'[v].fields)
    <3>1. CASE v = u BY <3>1, <2>1, <2>5, <2>8 DEF ResultsCurrent
    <3>2. CASE v # u BY <3>2, <2>1, <2>4, <2>7, <2>8 DEF FlagCurrent
    <3> QED BY <3>1, <3>2
  <2> QED BY <2>6, <2>8 DEF FlagCurrent
<1>5. ASSUME NEW c \in Calls, StartUpdate(c) \/ LookForNotice(c) \/ SendNotice(c) \/ MarkNotice(c)
      PROVE  ResultsCurrent' /\ FlagCurrent'
  <2>1. \A u \in Members : /\ doc'[u].fields = doc[u].fields /\ doc'[u].status = doc[u].status
                           /\ doc'[u].onboarded = doc[u].onboarded
    <3>1. CASE MarkNotice(c) BY <3>1, <1>0 DEF MarkNotice, TypeOK, Document
    <3> QED BY <1>5, <3>1 DEF StartUpdate, LookForNotice, SendNotice
  <2>2. lapsed \subseteq lapsed'
    BY <1>5 DEF StartUpdate, LookForNotice, SendNotice, MarkNotice, Lapses
  <2>3. CASE StartUpdate(c)
    <3>1. PICK u \in Members, p \in Patches :
            call' = [call EXCEPT ![c] = [Idle EXCEPT !.pc = "set", !.op = "update", !.who = u, !.patch = p]]
      BY <2>3 DEF StartUpdate
    <3>2. call'[c].pc = "set" /\ call[c].pc = "idle" /\ \A d \in Calls : d # c => call'[d] = call[d]
      BY <2>3, <3>1 DEF TypeOK, Idle, StartUpdate
    <3>3. Untouched({"compute", "flag"}) BY <3>2 DEF Untouched
    <3> QED BY <2>1, <2>2, <3>3, FlagsQuiet
  <2>4. CASE LookForNotice(c) \/ SendNotice(c) \/ MarkNotice(c)
    <3>1. call[c].pc \in {"look", "send", "mark"}
      BY <2>4 DEF LookForNotice, SendNotice, MarkNotice
    <3>2. \E pc \in {"send", "mark"} :
            call' = [call EXCEPT ![c] = Idle] \/ call' = [call EXCEPT ![c].pc = pc]
      BY <2>4 DEF LookForNotice, SendNotice, MarkNotice
    <3>3. call'[c].pc \in {"idle", "send", "mark"} /\ \A d \in Calls : d # c => call'[d] = call[d]
      BY <3>2, Moves, Ends
    <3>4. Untouched({"compute", "flag"}) BY <3>1, <3>3 DEF Untouched
    <3> QED BY <2>1, <2>2, <3>4, FlagsQuiet
  <2> QED BY <1>5, <2>3, <2>4
<1>6. ASSUME NEW c \in Calls, PairSteps(c) \/ ShowSteps(c) PROVE ResultsCurrent' /\ FlagCurrent'
  <2>1. Untouched(ProfilePlaces) \/ Untouched(ProfilePlaces \cup {"insert"})
    BY <1>6, PairUntouched, ShowUntouched
  <2>2. Untouched({"compute", "flag"}) BY <2>1 DEF Untouched, ProfilePlaces
  <2>3. lapsed \subseteq lapsed'
    BY <1>6, ShowUntouched DEF PairSteps, StartSave, StartBlock, InsertSaved, InsertBlocked, Lapses
  <2>4. doc' = doc BY <1>6, PairUntouched, ShowUntouched
  <2> QED BY <2>2, <2>3, <2>4, FlagsQuiet
<1>7. ASSUME NEW c \in Calls, DeletionSteps(c) PROVE ResultsCurrent' /\ FlagCurrent'
  <2>1. Untouched({"compute", "flag"}) BY <1>7, DeletionUntouched DEF Untouched, ProfilePlaces
  <2>2. lapsed \subseteq lapsed'
    BY <1>7 DEF DeletionSteps, StartDeletion, RemoveInteractions, Tombstone, Lapses
  <2>3. ASSUME NEW u \in Members PROVE doc'[u] = doc[u] \/ doc'[u].status = "DELETED"
    <3>1. CASE Tombstone(c) BY <3>1, <1>0 DEF Tombstone, TypeOK, Document
    <3> QED BY <1>7, <3>1 DEF DeletionSteps, StartDeletion, RemoveInteractions
  <2>4. \A u \in Members : Recomputing(u) => Recomputing(u)' BY <2>1 DEF Recomputing, Untouched
  <2>5. ResultsCurrent' BY <1>0, <2>1, <2>2, <2>3 DEF ResultsCurrent, Untouched
  <2>6. FlagCurrent' BY <2>2, <2>3, <2>4 DEF FlagCurrent
  <2> QED BY <2>5, <2>6
<1>8. ASSUME NEW c \in Calls, CallFails(c) PROVE ResultsCurrent' /\ FlagCurrent'
  <2> DEFINE u == call[c].who
  <2>1. doc' = doc /\ lapsed \subseteq lapsed' /\ (call[c].pc \in {"compute", "flag"} => <<"flag", u>> \in lapsed')
    BY <1>8 DEF CallFails
  <2>2. call'[c].pc = "idle" /\ \A d \in Calls : d # c => call'[d] = call[d] BY <1>8, Ends DEF CallFails
  <2>3. ResultsCurrent' BY <2>1, <2>2 DEF ResultsCurrent
  <2>4. ASSUME NEW v \in Members, <<"flag", v>> \notin lapsed', Recomputing(v) PROVE Recomputing(v)'
    <3>1. PICK d \in Calls : call[d].op = "update" /\ call[d].pc \in {"compute", "flag"} /\ call[d].who = v
      BY <2>4 DEF Recomputing
    <3>2. d # c BY <3>1, <2>1, <2>4
    <3> QED BY <3>1, <3>2, <2>2 DEF Recomputing
  <2> QED BY <2>1, <2>3, <2>4 DEF FlagCurrent
<1>9. ASSUME NEW u \in Members, SignUp(u) PROVE ResultsCurrent' /\ FlagCurrent'
  <2>1. ~Exists(u) /\ call' = call /\ lapsed' = lapsed BY <1>9 DEF SignUp
  <2>2. \A v \in Members : v # u => doc'[v] = doc[v] BY <1>9 DEF SignUp, TypeOK
  <2>3. doc'[u].fields = Lists /\ ~doc'[u].onboarded BY <1>9 DEF SignUp, TypeOK, Absent
  <2>4. \A c \in Calls : call[c].pc = "flag" => call[c].who # u BY <1>0, <2>1 DEF CallShape
  <2>5. ResultsCurrent' BY <1>0, <2>1, <2>2, <2>4 DEF ResultsCurrent
  <2>6. ~Complete(doc'[u].fields) BY <2>3, ListsIncomplete
  <2>7. \A v \in Members : Recomputing(v) => Recomputing(v)' BY <2>1 DEF Recomputing
  <2> QED BY <2>1, <2>2, <2>3, <2>5, <2>6, <2>7 DEF FlagCurrent
<1>10. CASE (\E u, v \in Members : GetProfile(u, v)) \/ UnsaveProfile \/ UnblockProfile \/ UNCHANGED vars
  <2>1. doc' = doc /\ call' = call /\ lapsed' = lapsed
    BY <1>10 DEF GetProfile, UnsaveProfile, UnblockProfile, vars
  <2> QED BY <2>1 DEF ResultsCurrent, FlagCurrent, Recomputing
<1> QED BY <1>1, <1>2, <1>3, <1>4, <1>5, <1>6, <1>7, <1>8, <1>9, <1>10 DEF Next, ProfileSteps

-----------------------------------------------------------------------------
(* Placeholders *)

LEMMA SentinelsQuiet ==
    ASSUME TypeOK, SentinelsApart, Untouched({"set", "compute", "flag"}),
           \A u \in Members : doc'[u].sentinel =>
               /\ doc[u].sentinel
               /\ doc'[u].fields = doc[u].fields /\ doc'[u].incomplete = doc[u].incomplete
               /\ doc'[u].onboarded = doc[u].onboarded
    PROVE  SentinelsApart'
<1> SUFFICES ASSUME NEW u \in Members, doc'[u].sentinel
             PROVE  /\ doc'[u].incomplete /\ ~doc'[u].onboarded /\ doc'[u].fields \subseteq Lists
                    /\ \A c \in Calls : call'[c].who = u =>
                         /\ call'[c].pc = "set" => call'[c].patch.identity
                         /\ call'[c].pc = "compute" => call'[c].op = "backfill"
                         /\ call'[c].pc = "flag" => ~call'[c].patch.identity /\ ~call'[c].result
  BY DEF SentinelsApart
<1>1. doc[u].sentinel BY DEF SentinelsApart
<1> QED BY <1>1 DEF SentinelsApart, Untouched

LEMMA SentinelsKept == TypeOK /\ Shape /\ SentinelsApart /\ [Next]_vars => SentinelsApart'
<1> SUFFICES ASSUME TypeOK, Shape, SentinelsApart, [Next]_vars PROVE SentinelsApart' OBVIOUS
<1>0. ASSUME NEW c \in Calls PROVE call[c].who \in Members /\ CallShape(call[c])
  BY DEF TypeOK, Locals, Shape
<1> DEFINE CallApart(u, k) ==
             k.who = u => /\ k.pc = "set" => k.patch.identity
                          /\ k.pc = "compute" => k.op = "backfill"
                          /\ k.pc = "flag" => ~k.patch.identity /\ ~k.result
           DocApart(d) == d.incomplete /\ ~d.onboarded /\ d.fields \subseteq Lists
<1>a. SentinelsApart <=> \A u \in Members : doc[u].sentinel =>
                           DocApart(doc[u]) /\ \A c \in Calls : CallApart(u, call[c])
  BY DEF SentinelsApart
<1>b. SentinelsApart' <=> \A u \in Members : doc'[u].sentinel =>
                           DocApart(doc'[u]) /\ \A c \in Calls : CallApart(u, call'[c])
  BY DEF SentinelsApart
<1>1. ASSUME NEW c \in Calls, StartUpdate(c) PROVE SentinelsApart'
  <2>1. PICK w \in Members, p \in Patches :
          /\ doc[w].incomplete => p.identity
          /\ call' = [call EXCEPT ![c] = [Idle EXCEPT !.pc = "set", !.op = "update", !.who = w, !.patch = p]]
    BY <1>1 DEF StartUpdate
  <2>2. call'[c].pc = "set" /\ call'[c].who = w /\ call'[c].patch = p
        /\ \A d \in Calls : d # c => call'[d] = call[d]
    BY <2>1 DEF TypeOK, Idle
  <2>3. doc' = doc BY <1>1 DEF StartUpdate
  <2>4. ASSUME NEW u \in Members, doc[u].sentinel PROVE CallApart(u, call'[c])
    BY <2>1, <2>2, <2>4, <1>a
  <2> HIDE DEF CallApart, DocApart
  <2> QED BY <2>2, <2>3, <2>4, <1>a, <1>b
<1>2. ASSUME NEW c \in Calls, SetProfile(c) PROVE SentinelsApart'
  <2>0. PICK w \in Members : w = call[c].who BY <1>0
  <2>1. call[c].pc = "set" /\ call' = [call EXCEPT ![c].pc = "compute"] BY <1>2 DEF SetProfile
  <2>2. call'[c].who = w /\ \A d \in Calls : d # c => call'[d] = call[d] BY <2>0, <2>1, Moves
  <2>3. \A u \in Members : u # w => doc'[u] = doc[u] BY <2>0, <1>2 DEF SetProfile, TypeOK
  <2>4. doc'[w].sentinel = (doc[w].sentinel /\ ~call[c].patch.identity)
    BY <2>0, <1>2 DEF SetProfile, TypeOK, Document
  <2>5. ~doc'[w].sentinel BY <2>0, <2>1, <2>4, <1>a
  <2>6. ASSUME NEW u \in Members, u # w PROVE CallApart(u, call'[c]) BY <2>2, <2>6
  <2> HIDE DEF CallApart, DocApart
  <2> QED BY <2>2, <2>3, <2>5, <2>6, <1>a, <1>b
<1>3. ASSUME NEW c \in Calls, StartBackfill(c) PROVE SentinelsApart'
  <2>1. PICK w \in Members :
          call' = [call EXCEPT ![c] = [Idle EXCEPT !.pc = "compute", !.op = "backfill", !.who = w,
                                                   !.result = doc[w].onboarded]]
    BY <1>3 DEF StartBackfill
  <2>2. call'[c].pc = "compute" /\ call'[c].op = "backfill" /\ \A d \in Calls : d # c => call'[d] = call[d]
    BY <2>1 DEF TypeOK, Idle
  <2>3. doc' = doc BY <1>3 DEF StartBackfill
  <2>4. \A u \in Members : CallApart(u, call'[c]) BY <2>2
  <2> HIDE DEF CallApart, DocApart
  <2> QED BY <2>2, <2>3, <2>4, <1>a, <1>b
<1>4. ASSUME NEW c \in Calls, Compute(c) PROVE SentinelsApart'
  <2> DEFINE now == Complete(doc[call[c].who].fields)
  <2>1. call[c].pc = "compute" /\ doc' = doc BY <1>4 DEF Compute
  <2>2. call' = [call EXCEPT ![c] = Idle] \/ call' = [call EXCEPT ![c].pc = "flag", ![c].result = now]
    BY <1>4 DEF Compute
  <2>3. \A d \in Calls : d # c => call'[d] = call[d]
    <3> HIDE DEF now
    <3> QED BY <2>2, Computed, Ends
  <2>4. ASSUME NEW u \in Members, doc[u].sentinel PROVE CallApart(u, call'[c])
    <3>1. CASE call' = [call EXCEPT ![c] = Idle] BY <3>1, Ends
    <3>2. CASE call' = [call EXCEPT ![c].pc = "flag", ![c].result = now]
      <4>1. call'[c].pc = "flag" /\ call'[c].who = call[c].who /\ call'[c].patch = call[c].patch
        <5> HIDE DEF now
        <5> QED BY <3>2, Computed
      <4>2. call'[c].result = Complete(doc[call[c].who].fields)
        <5>1. call'[c].result = now
          <6> HIDE DEF now
          <6> QED BY <3>2, Computed
        <5> QED BY <5>1
      <4>3. SUFFICES ASSUME call[c].who = u PROVE ~call'[c].patch.identity /\ ~call'[c].result
        BY <4>1
      <4>4. call[c].op = "backfill" /\ doc[u].fields \subseteq Lists BY <4>3, <2>1, <2>4, <1>a
      <4>5. ~call'[c].patch.identity BY <4>1, <4>4, <1>0 DEF CallShape, NoPatch
      <4>6. ~call'[c].result BY <4>2, <4>3, <4>4, ListsIncomplete
      <4> QED BY <4>5, <4>6
    <3> QED BY <2>2, <3>1, <3>2
  <2> HIDE DEF CallApart, DocApart
  <2> QED BY <2>1, <2>3, <2>4, <1>a, <1>b
<1>5. ASSUME NEW c \in Calls, Flag(c) PROVE SentinelsApart'
  <2>0. PICK w \in Members : w = call[c].who BY <1>0
  <2>1. call[c].pc = "flag" BY <1>5 DEF Flag
  <2>2. call' = [call EXCEPT ![c] = Idle] \/ call' = [call EXCEPT ![c].pc = "look"] BY <1>5 DEF Flag
  <2>3. call'[c].pc \in {"idle", "look"} /\ \A d \in Calls : d # c => call'[d] = call[d]
    BY <2>2, Moves, Ends
  <2>4. \A u \in Members : u # w => doc'[u] = doc[u] BY <2>0, <1>5 DEF Flag, TypeOK
  <2>5. /\ doc'[w].fields = doc[w].fields /\ doc'[w].sentinel = doc[w].sentinel
        /\ doc'[w].onboarded = call[c].result
        /\ doc'[w].incomplete = (doc[w].incomplete /\ ~call[c].patch.identity)
    BY <2>0, <1>5 DEF Flag, TypeOK, Document
  <2>6. doc[w].sentinel => ~call[c].result /\ ~call[c].patch.identity BY <2>0, <2>1, <1>a
  <2>7. doc'[w].sentinel => DocApart(doc'[w]) BY <2>5, <2>6, <1>a
  <2>8. \A u \in Members : CallApart(u, call'[c]) BY <2>3
  <2>9. doc'[w].sentinel = doc[w].sentinel BY <2>5
  <2> HIDE DEF CallApart, DocApart
  <2> QED BY <2>3, <2>4, <2>7, <2>8, <2>9, <1>a, <1>b
<1>6. ASSUME NEW c \in Calls, LookForNotice(c) \/ SendNotice(c) \/ MarkNotice(c) PROVE SentinelsApart'
  <2>1. call[c].pc \in {"look", "send", "mark"} BY <1>6 DEF LookForNotice, SendNotice, MarkNotice
  <2>2. \E pc \in {"send", "mark"} : call' = [call EXCEPT ![c] = Idle] \/ call' = [call EXCEPT ![c].pc = pc]
    BY <1>6 DEF LookForNotice, SendNotice, MarkNotice
  <2>3. call'[c].pc \in {"idle", "send", "mark"} /\ \A d \in Calls : d # c => call'[d] = call[d]
    BY <2>2, Moves, Ends
  <2>4. Untouched({"set", "compute", "flag"}) BY <2>1, <2>3 DEF Untouched
  <2>5. \A u \in Members : /\ doc'[u].fields = doc[u].fields /\ doc'[u].incomplete = doc[u].incomplete
                           /\ doc'[u].onboarded = doc[u].onboarded /\ doc'[u].sentinel = doc[u].sentinel
    <3>1. CASE MarkNotice(c) BY <3>1, <1>0 DEF MarkNotice, TypeOK, Document
    <3> QED BY <1>6, <3>1 DEF LookForNotice, SendNotice
  <2> QED BY <2>4, <2>5, SentinelsQuiet
<1>7. ASSUME NEW c \in Calls, PairSteps(c) \/ ShowSteps(c) PROVE SentinelsApart'
  <2>1. Untouched(ProfilePlaces) \/ Untouched(ProfilePlaces \cup {"insert"})
    BY <1>7, PairUntouched, ShowUntouched
  <2>2. Untouched({"set", "compute", "flag"}) BY <2>1 DEF Untouched, ProfilePlaces
  <2> QED BY <1>7, <2>2, SentinelsQuiet, PairUntouched, ShowUntouched
<1>8. ASSUME NEW c \in Calls, DeletionSteps(c) PROVE SentinelsApart'
  <2>1. Untouched({"set", "compute", "flag"}) BY <1>8, DeletionUntouched DEF Untouched, ProfilePlaces
  <2>2. ASSUME NEW u \in Members PROVE doc'[u] = doc[u] \/ ~doc'[u].sentinel
    <3>1. CASE Tombstone(c) BY <3>1, <1>0 DEF Tombstone, TypeOK, Document
    <3> QED BY <1>8, <3>1 DEF DeletionSteps, StartDeletion, RemoveInteractions
  <2> QED BY <2>1, <2>2, SentinelsQuiet
<1>9. ASSUME NEW c \in Calls, CallFails(c) PROVE SentinelsApart'
  <2>1. doc' = doc BY <1>9 DEF CallFails
  <2>2. call'[c].pc = "idle" /\ \A d \in Calls : d # c => call'[d] = call[d] BY <1>9, Ends DEF CallFails
  <2> QED BY <2>1, <2>2 DEF SentinelsApart
<1>10. ASSUME NEW w \in Members, SignUp(w) PROVE SentinelsApart'
  <2>1. ~Exists(w) /\ call' = call BY <1>10 DEF SignUp
  <2>2. \A u \in Members : u # w => doc'[u] = doc[u] BY <1>10 DEF SignUp, TypeOK
  <2>3. doc'[w].sentinel => DocApart(doc'[w]) BY <1>10 DEF SignUp, TypeOK, Absent
  <2>4. \A c \in Calls : CallApart(w, call[c]) BY <1>0, <2>1 DEF CallShape
  <2> HIDE DEF CallApart, DocApart
  <2> QED BY <2>1, <2>2, <2>3, <2>4, <1>a, <1>b
<1>11. CASE (\E u, v \in Members : GetProfile(u, v)) \/ UnsaveProfile \/ UnblockProfile \/ UNCHANGED vars
  <2>1. doc' = doc /\ call' = call BY <1>11 DEF GetProfile, UnsaveProfile, UnblockProfile, vars
  <2> QED BY <2>1 DEF SentinelsApart
<1> QED BY <1>1, <1>2, <1>3, <1>4, <1>5, <1>6, <1>7, <1>8, <1>9, <1>10, <1>11 DEF Next, ProfileSteps

(* Only onboarded members are shown, and they have no placeholders. *)
LEMMA ExposedKept == TypeOK /\ SentinelsApart /\ exposed = {} /\ [Next]_vars => exposed' = {}
<1> SUFFICES ASSUME TypeOK, SentinelsApart, exposed = {}, [Next]_vars PROVE exposed' = {} OBVIOUS
<1>1. \A u \in Members : doc[u].onboarded => ~doc[u].sentinel BY DEF SentinelsApart
<1>2. ASSUME NEW c \in Calls, ShowSteps(c) PROVE exposed' = {}
  <2>1. CASE QueryProfiles(c) BY <2>1, <1>1 DEF QueryProfiles, Shows
  <2>2. CASE ShowList(c)
    <3>1. call[c].others \subseteq Members BY DEF TypeOK, Locals
    <3> QED BY <2>2, <3>1, <1>1 DEF ShowList, Shows
  <2> QED BY <1>2, <2>1, <2>2 DEF ShowSteps, StartSearch, GateSearch, StartList
<1>3. ASSUME NEW u \in Members, NEW v \in Members, GetProfile(u, v) PROVE exposed' = {}
  BY <1>3, <1>1 DEF GetProfile, Shows
<1>4. ASSUME NEW c \in Calls, ProfileSteps(c) \/ PairSteps(c) \/ DeletionSteps(c) \/ CallFails(c)
      PROVE  exposed' = {}
  BY <1>4, ProfileUntouched, PairUntouched, DeletionUntouched DEF CallFails
<1>5. CASE (\E u \in Members : SignUp(u)) \/ UnsaveProfile \/ UnblockProfile \/ UNCHANGED vars
  BY <1>5 DEF SignUp, UnsaveProfile, UnblockProfile, vars
<1> QED BY <1>2, <1>3, <1>4, <1>5 DEF Next

-----------------------------------------------------------------------------
(* The completion notice *)

NoticeParts == NoticesApart /\ NoticedOnceUnlessOverlap

LEMMA NoticesQuiet ==
    ASSUME TypeOK, NoticeParts, Untouched({"send", "mark"}), lapsed \subseteq lapsed', told' = told,
           \A u \in Members : <<"notice", u>> \notin lapsed' => doc'[u].noticed = doc[u].noticed
    PROVE  NoticeParts'
<1>1. NoticedOnceUnlessOverlap' BY DEF NoticeParts, NoticedOnceUnlessOverlap
<1>2. ASSUME NEW u \in Members, <<"notice", u>> \notin lapsed'
      PROVE  /\ \A c \in Calls : call'[c].pc = "send" /\ call'[c].who = u => told[u] = 0 /\ ~doc'[u].noticed
             /\ \A c, d \in Calls : Noticing(c, u)' /\ Noticing(d, u)' => c = d
             /\ told[u] # 0 => doc'[u].noticed \/ \E c \in Calls : call'[c].pc = "mark" /\ call'[c].who = u
  <2>1. <<"notice", u>> \notin lapsed /\ doc'[u].noticed = doc[u].noticed BY <1>2
  <2>2. \A c \in Calls : call[c].pc \in {"send", "mark"} \/ call'[c].pc \in {"send", "mark"} => call'[c] = call[c]
    BY DEF Untouched
  <2>3. \A c \in Calls : Noticing(c, u)' => Noticing(c, u) BY <2>2 DEF Noticing
  <2> QED BY <2>1, <2>2, <2>3 DEF NoticeParts, NoticesApart
<1> QED BY <1>1, <1>2 DEF NoticeParts, NoticesApart

LEMMA NoticesKept == TypeOK /\ Shape /\ NoticeParts /\ [Next]_vars => NoticeParts'
<1> SUFFICES ASSUME TypeOK, Shape, NoticeParts, [Next]_vars PROVE NoticeParts' OBVIOUS
<1>0. ASSUME NEW c \in Calls PROVE call[c].who \in Members /\ CallShape(call[c])
  BY DEF TypeOK, Locals, Shape
<1>1. ASSUME NEW c \in Calls, ProfileSteps(c) PROVE NoticeParts'
  <2>0. PICK w \in Members : w = call[c].who BY <1>0
  <2>1. CASE StartUpdate(c)
    <3>1. PICK u \in Members, p \in Patches :
            call' = [call EXCEPT ![c] = [Idle EXCEPT !.pc = "set", !.op = "update", !.who = u, !.patch = p]]
      BY <2>1 DEF StartUpdate
    <3>2. call'[c].pc = "set" /\ call[c].pc = "idle" /\ \A d \in Calls : d # c => call'[d] = call[d]
      BY <2>1, <3>1 DEF TypeOK, Idle, StartUpdate
    <3>3. Untouched({"send", "mark"}) BY <3>2 DEF Untouched
    <3> QED BY <2>1, <3>3, NoticesQuiet DEF StartUpdate
  <2>2. CASE SetProfile(c)
    <3>1. call[c].pc = "set" /\ call' = [call EXCEPT ![c].pc = "compute"] BY <2>2 DEF SetProfile
    <3>2. Untouched({"send", "mark"}) BY <3>1, Moves DEF Untouched
    <3>3. \A u \in Members : doc'[u].noticed = doc[u].noticed BY <2>2, <1>0 DEF SetProfile, TypeOK, Document
    <3> QED BY <2>2, <3>2, <3>3, NoticesQuiet DEF SetProfile, Lapses
  <2>3. CASE StartBackfill(c)
    <3>1. PICK u \in Members :
            call' = [call EXCEPT ![c] = [Idle EXCEPT !.pc = "compute", !.op = "backfill", !.who = u,
                                                     !.result = doc[u].onboarded]]
      BY <2>3 DEF StartBackfill
    <3>2. call'[c].pc = "compute" /\ call[c].pc = "idle" /\ \A d \in Calls : d # c => call'[d] = call[d]
      BY <2>3, <3>1 DEF TypeOK, Idle, StartBackfill
    <3>3. Untouched({"send", "mark"}) BY <3>2 DEF Untouched
    <3> QED BY <2>3, <3>3, NoticesQuiet DEF StartBackfill
  <2>4. CASE Compute(c)
    <3> DEFINE now == Complete(doc[call[c].who].fields)
    <3>1. call[c].pc = "compute"
          /\ (call' = [call EXCEPT ![c] = Idle] \/ call' = [call EXCEPT ![c].pc = "flag", ![c].result = now])
      BY <2>4 DEF Compute
    <3> HIDE DEF now
    <3>2. Untouched({"send", "mark"}) BY <3>1, Computed, Ends DEF Untouched
    <3> QED BY <2>4, <3>2, NoticesQuiet DEF Compute
  <2>5. CASE Flag(c)
    <3>1. call[c].pc = "flag" /\ (call' = [call EXCEPT ![c] = Idle] \/ call' = [call EXCEPT ![c].pc = "look"])
      BY <2>5 DEF Flag
    <3>2. Untouched({"send", "mark"}) BY <3>1, Moves, Ends DEF Untouched
    <3>3. \A u \in Members : doc'[u].noticed = doc[u].noticed BY <2>5, <1>0 DEF Flag, TypeOK, Document
    <3> QED BY <2>5, <3>2, <3>3, NoticesQuiet DEF Flag
  <2>6. CASE LookForNotice(c)
    <3>1. call[c].pc = "look" /\ doc' = doc /\ told' = told BY <2>6 DEF LookForNotice
    <3>2. CASE doc[w].noticed
      <4>1. call' = [call EXCEPT ![c] = Idle] /\ lapsed' = lapsed BY <2>0, <2>6, <3>2 DEF LookForNotice
      <4>2. Untouched({"send", "mark"}) BY <3>1, <4>1, Ends DEF Untouched
      <4> QED BY <3>1, <4>1, <4>2, NoticesQuiet
    <3>3. CASE ~doc[w].noticed
      <4>1. /\ call' = [call EXCEPT ![c].pc = "send"] /\ lapsed \subseteq lapsed'
            /\ (\E d \in Calls \ {c} : Noticing(d, w)) => <<"notice", w>> \in lapsed'
        BY <2>0, <2>6, <3>3 DEF LookForNotice, Lapses
      <4>2. call'[c].pc = "send" /\ call'[c].who = w /\ \A d \in Calls : d # c => call'[d] = call[d]
        BY <2>0, <4>1, Moves
      <4>3. \A d \in Calls, u \in Members : d # c => (Noticing(d, u)' <=> Noticing(d, u))
        BY <4>2 DEF Noticing
      <4>4. \A u \in Members : Noticing(c, u)' => u = w BY <4>2 DEF Noticing
      <4>5. ASSUME <<"notice", w>> \notin lapsed' PROVE told[w] = 0 /\ \A d \in Calls : d # c => ~Noticing(d, w)
        <5>1. \A d \in Calls : d # c => ~Noticing(d, w) BY <4>1, <4>5
        <5>2. \A d \in Calls : ~(call[d].pc = "mark" /\ call[d].who = w) BY <5>1, <3>1 DEF Noticing
        <5>3. <<"notice", w>> \notin lapsed BY <4>1, <4>5
        <5> QED BY <5>1, <5>2, <5>3, <3>3 DEF NoticeParts, NoticesApart
      <4>6. ASSUME NEW u \in Members, <<"notice", u>> \notin lapsed'
            PROVE  /\ \A d \in Calls : call'[d].pc = "send" /\ call'[d].who = u => told[u] = 0 /\ ~doc[u].noticed
                   /\ \A d, e \in Calls : Noticing(d, u)' /\ Noticing(e, u)' => d = e
                   /\ told[u] # 0 => doc[u].noticed \/ \E d \in Calls : call'[d].pc = "mark" /\ call'[d].who = u
        <5>1. <<"notice", u>> \notin lapsed BY <4>1, <4>6
        <5>2. \A d \in Calls : call'[d].pc = "send" /\ call'[d].who = u => told[u] = 0 /\ ~doc[u].noticed
          <6>1. ASSUME NEW d \in Calls, call'[d].pc = "send", call'[d].who = u, d = c
                PROVE  told[u] = 0 /\ ~doc[u].noticed
            BY <6>1, <4>2, <4>5, <4>6, <3>3
          <6>2. ASSUME NEW d \in Calls, call'[d].pc = "send", call'[d].who = u, d # c
                PROVE  told[u] = 0 /\ ~doc[u].noticed
            BY <6>2, <4>2, <5>1 DEF NoticeParts, NoticesApart
          <6> QED BY <6>1, <6>2
        <5>3. ASSUME NEW d \in Calls, NEW e \in Calls, Noticing(d, u)', Noticing(e, u)' PROVE d = e
          <6>1. CASE d # c /\ e # c BY <6>1, <5>3, <4>3, <5>1 DEF NoticeParts, NoticesApart
          <6>2. CASE u = w BY <6>1, <6>2, <5>3, <4>3, <4>5, <4>6
          <6>3. CASE u # w BY <6>1, <6>3, <5>3, <4>4
          <6> QED BY <6>2, <6>3
        <5>4. told[u] # 0 => doc[u].noticed \/ \E d \in Calls : call'[d].pc = "mark" /\ call'[d].who = u
          BY <5>1, <4>2, <3>1 DEF NoticeParts, NoticesApart
        <5> QED BY <5>2, <5>3, <5>4
      <4>7. NoticedOnceUnlessOverlap' BY <3>1, <4>1 DEF NoticeParts, NoticedOnceUnlessOverlap
      <4> QED BY <3>1, <4>6, <4>7 DEF NoticeParts, NoticesApart
    <3> QED BY <3>2, <3>3
  <2>7. CASE SendNotice(c)
    <3>1. call[c].pc = "send" /\ doc' = doc /\ lapsed' = lapsed /\ call' = [call EXCEPT ![c].pc = "mark"]
      BY <2>7 DEF SendNotice
    <3>2. call'[c].pc = "mark" /\ call'[c].who = w /\ \A d \in Calls : d # c => call'[d] = call[d]
      BY <2>0, <3>1, Moves
    <3>3. told'[w] = (IF told[w] = 0 THEN 1 ELSE 2) /\ \A u \in Members : u # w => told'[u] = told[u]
      BY <2>0, <2>7 DEF SendNotice, TypeOK
    <3>4. \A d \in Calls, u \in Members : Noticing(d, u)' <=> Noticing(d, u)
      BY <2>0, <3>1, <3>2 DEF Noticing
    <3>5. <<"notice", w>> \notin lapsed => told[w] = 0 BY <2>0, <3>1 DEF NoticeParts, NoticesApart
    <3>6. NoticedOnceUnlessOverlap'
      BY <3>1, <3>3, <3>5 DEF NoticeParts, NoticedOnceUnlessOverlap
    <3>7. ASSUME NEW u \in Members, <<"notice", u>> \notin lapsed
          PROVE  /\ \A d \in Calls : call'[d].pc = "send" /\ call'[d].who = u => told'[u] = 0 /\ ~doc[u].noticed
                 /\ \A d, e \in Calls : Noticing(d, u)' /\ Noticing(e, u)' => d = e
                 /\ told'[u] # 0 => doc[u].noticed \/ \E d \in Calls : call'[d].pc = "mark" /\ call'[d].who = u
      <4>1. \A d, e \in Calls : Noticing(d, u)' /\ Noticing(e, u)' => d = e
        BY <3>4, <3>7 DEF NoticeParts, NoticesApart
      <4>2. CASE u = w
        <5>1. Noticing(c, w) BY <2>0, <3>1 DEF Noticing
        <5>2. ASSUME NEW d \in Calls, call'[d].pc = "send", call'[d].who = u PROVE FALSE
          <6>1. d # c BY <5>2, <3>2
          <6>2. Noticing(d, w) BY <5>2, <6>1, <3>2, <4>2 DEF Noticing
          <6> QED BY <5>1, <6>1, <6>2, <3>7, <4>2 DEF NoticeParts, NoticesApart
        <5> QED BY <4>1, <4>2, <5>2, <3>2
      <4>3. CASE u # w BY <4>1, <4>3, <3>1, <3>2, <3>3, <3>7 DEF NoticeParts, NoticesApart
      <4> QED BY <4>2, <4>3
    <3> QED BY <3>1, <3>6, <3>7 DEF NoticeParts, NoticesApart
  <2>8. CASE MarkNotice(c)
    <3>1. call[c].pc = "mark" /\ told' = told /\ lapsed' = lapsed /\ call' = [call EXCEPT ![c] = Idle]
      BY <2>8 DEF MarkNotice
    <3>2. call'[c].pc = "idle" /\ \A d \in Calls : d # c => call'[d] = call[d] BY <3>1, Ends
    <3>3. doc'[w].noticed /\ \A u \in Members : u # w => doc'[u] = doc[u]
      BY <2>0, <2>8 DEF MarkNotice, TypeOK, Document
    <3>4. \A d \in Calls, u \in Members : Noticing(d, u)' => Noticing(d, u) /\ d # c
      BY <3>2 DEF Noticing
    <3>5. NoticedOnceUnlessOverlap' BY <3>1 DEF NoticeParts, NoticedOnceUnlessOverlap
    <3>6. ASSUME NEW u \in Members, <<"notice", u>> \notin lapsed
          PROVE  /\ \A d \in Calls : call'[d].pc = "send" /\ call'[d].who = u => told[u] = 0 /\ ~doc'[u].noticed
                 /\ \A d, e \in Calls : Noticing(d, u)' /\ Noticing(e, u)' => d = e
                 /\ told[u] # 0 => doc'[u].noticed \/ \E d \in Calls : call'[d].pc = "mark" /\ call'[d].who = u
      <4>1. \A d, e \in Calls : Noticing(d, u)' /\ Noticing(e, u)' => d = e
        BY <3>4, <3>6 DEF NoticeParts, NoticesApart
      <4>2. CASE u = w
        <5>1. Noticing(c, w) BY <2>0, <3>1 DEF Noticing
        <5>2. ASSUME NEW d \in Calls, call'[d].pc = "send", call'[d].who = u PROVE FALSE
          <6>1. d # c BY <5>2, <3>2
          <6>2. Noticing(d, w) BY <5>2, <6>1, <3>2, <4>2 DEF Noticing
          <6> QED BY <5>1, <6>1, <6>2, <3>6, <4>2 DEF NoticeParts, NoticesApart
        <5> QED BY <4>1, <4>2, <5>2, <3>3
      <4>3. CASE u # w
        <5>1. \A d \in Calls : call'[d].pc = "send" /\ call'[d].who = u => told[u] = 0 /\ ~doc[u].noticed
          BY <3>2, <3>6 DEF NoticeParts, NoticesApart
        <5>2. \A d \in Calls : call[d].pc = "mark" /\ call[d].who = u => call'[d] = call[d]
          BY <2>0, <3>2, <4>3
        <5>3. told[u] # 0 => doc[u].noticed \/ \E d \in Calls : call'[d].pc = "mark" /\ call'[d].who = u
          BY <5>2, <3>6 DEF NoticeParts, NoticesApart
        <5> QED BY <4>1, <4>3, <5>1, <5>3, <3>3
      <4> QED BY <4>2, <4>3
    <3> QED BY <3>1, <3>5, <3>6 DEF NoticeParts, NoticesApart
  <2> QED BY <1>1, <2>1, <2>2, <2>3, <2>4, <2>5, <2>6, <2>7, <2>8 DEF ProfileSteps
<1>2. ASSUME NEW c \in Calls, PairSteps(c) \/ ShowSteps(c) PROVE NoticeParts'
  <2>1. Untouched(ProfilePlaces) \/ Untouched(ProfilePlaces \cup {"insert"})
    BY <1>2, PairUntouched, ShowUntouched
  <2>2. Untouched({"send", "mark"}) BY <2>1 DEF Untouched, ProfilePlaces
  <2>3. lapsed \subseteq lapsed'
    BY <1>2, ShowUntouched DEF PairSteps, StartSave, StartBlock, InsertSaved, InsertBlocked, Lapses
  <2> QED BY <1>2, <2>2, <2>3, NoticesQuiet, PairUntouched, ShowUntouched
<1>3. ASSUME NEW c \in Calls, DeletionSteps(c) PROVE NoticeParts'
  <2>1. Untouched({"send", "mark"}) BY <1>3, DeletionUntouched DEF Untouched, ProfilePlaces
  <2>2. lapsed \subseteq lapsed' /\ told' = told
    BY <1>3 DEF DeletionSteps, StartDeletion, RemoveInteractions, Tombstone, Lapses
  <2>3. \A u \in Members : <<"notice", u>> \notin lapsed' => doc'[u].noticed = doc[u].noticed
    <3>1. CASE Tombstone(c) BY <3>1, <1>0 DEF Tombstone, TypeOK, Lapses
    <3> QED BY <1>3, <3>1 DEF DeletionSteps, StartDeletion, RemoveInteractions
  <2> QED BY <2>1, <2>2, <2>3, NoticesQuiet
<1>4. ASSUME NEW c \in Calls, CallFails(c) PROVE NoticeParts'
  <2>0. PICK w \in Members : w = call[c].who BY <1>0
  <2>1. doc' = doc /\ told' = told /\ lapsed \subseteq lapsed' /\ (call[c].pc = "mark" => <<"notice", w>> \in lapsed')
    BY <2>0, <1>4 DEF CallFails
  <2>2. call'[c].pc = "idle" /\ \A d \in Calls : d # c => call'[d] = call[d] BY <1>4, Ends DEF CallFails
  <2>3. \A d \in Calls, u \in Members : Noticing(d, u)' => Noticing(d, u) BY <2>2 DEF Noticing
  <2>4. NoticedOnceUnlessOverlap' BY <2>1 DEF NoticeParts, NoticedOnceUnlessOverlap
  <2>5. ASSUME NEW u \in Members, <<"notice", u>> \notin lapsed'
        PROVE  /\ \A d \in Calls : call'[d].pc = "send" /\ call'[d].who = u => told[u] = 0 /\ ~doc[u].noticed
               /\ \A d, e \in Calls : Noticing(d, u)' /\ Noticing(e, u)' => d = e
               /\ told[u] # 0 => doc[u].noticed \/ \E d \in Calls : call'[d].pc = "mark" /\ call'[d].who = u
    <3>1. <<"notice", u>> \notin lapsed BY <2>1, <2>5
    <3>2. \A d \in Calls : call[d].pc = "mark" /\ call[d].who = u => call'[d] = call[d]
      BY <2>0, <2>1, <2>2, <2>5
    <3>3. told[u] # 0 => doc[u].noticed \/ \E d \in Calls : call'[d].pc = "mark" /\ call'[d].who = u
      BY <3>1, <3>2 DEF NoticeParts, NoticesApart
    <3>4. \A d \in Calls : call'[d].pc = "send" /\ call'[d].who = u => told[u] = 0 /\ ~doc[u].noticed
      BY <3>1, <2>2 DEF NoticeParts, NoticesApart
    <3>5. \A d, e \in Calls : Noticing(d, u)' /\ Noticing(e, u)' => d = e
      BY <3>1, <2>3 DEF NoticeParts, NoticesApart
    <3> QED BY <3>3, <3>4, <3>5
  <2> QED BY <2>1, <2>4, <2>5 DEF NoticeParts, NoticesApart
<1>5. ASSUME NEW w \in Members, SignUp(w) PROVE NoticeParts'
  <2>1. doc[w] = Absent /\ call' = call /\ lapsed' = lapsed /\ told' = told BY <1>5 DEF SignUp, Shape
  <2>2. \A u \in Members : doc'[u].noticed = doc[u].noticed
    <3>1. \A u \in Members : u # w => doc'[u] = doc[u] BY <1>5 DEF SignUp, TypeOK
    <3>2. doc'[w].noticed = FALSE /\ doc[w].noticed = FALSE BY <1>5, <2>1 DEF SignUp, TypeOK, Absent
    <3> QED BY <3>1, <3>2
  <2>3. Untouched({"send", "mark"}) BY <2>1 DEF Untouched
  <2> QED BY <2>1, <2>2, <2>3, NoticesQuiet
<1>6. CASE (\E u, v \in Members : GetProfile(u, v)) \/ UnsaveProfile \/ UnblockProfile \/ UNCHANGED vars
  <2>1. doc' = doc /\ call' = call /\ lapsed' = lapsed /\ told' = told
    BY <1>6 DEF GetProfile, UnsaveProfile, UnblockProfile, vars
  <2>2. Untouched({"send", "mark"}) BY <2>1 DEF Untouched
  <2> QED BY <2>1, <2>2, NoticesQuiet
<1> QED BY <1>1, <1>2, <1>3, <1>4, <1>5, <1>6 DEF Next

-----------------------------------------------------------------------------
(* Saved and blocked *)

PairParts == PairsApart /\ SavedNotBlockedUnlessOverlap

LEMMA PairsQuiet ==
    ASSUME PairParts, Untouched({"insert"}), lapsed \subseteq lapsed',
           saved' \subseteq saved, blocked' \subseteq blocked
    PROVE  PairParts'
<1>1. SavedNotBlockedUnlessOverlap' BY DEF PairParts, SavedNotBlockedUnlessOverlap
<1>2. \A d \in Calls : call'[d].pc = "insert" => call'[d] = call[d] BY DEF Untouched
<1>3. \A d \in Calls : \A op, u, v : Inserting(d, op, u, v)' => Inserting(d, op, u, v) BY <1>2 DEF Inserting
<1>4. ASSUME NEW c \in Calls, call'[c].pc = "insert", <<"pair", call'[c].who>> \notin lapsed'
      PROVE  /\ call'[c].op = "save" => <<call'[c].who, call'[c].whom>> \notin blocked'
             /\ call'[c].op = "block" => <<call'[c].who, call'[c].whom>> \notin saved'
             /\ \A d \in Calls : ~(/\ call'[d].pc = "insert"
                                    /\ call'[d].op = (IF call'[c].op = "save" THEN "block" ELSE "save")
                                    /\ call'[d].who = call'[c].who /\ call'[d].whom = call'[c].whom)
  BY <1>2, <1>4 DEF PairParts, PairsApart, Inserting
<1> QED BY <1>1, <1>4 DEF PairParts, PairsApart, Inserting

(* A call that begins to save or to block a pair. *)
LEMMA PairBegins ==
    ASSUME TypeOK, Shape, PairParts, NEW c \in Calls, NEW u \in Members, NEW v \in Members,
           NEW op \in {"save", "block"}, Begins(c, op, "insert", u, v),
           lapsed \subseteq lapsed', blocked' = blocked, saved' \subseteq saved,
           op = "save" => <<u, v>> \notin blocked,
           op = "block" => <<u, v>> \notin saved',
           \A d \in Calls : Inserting(d, IF op = "save" THEN "block" ELSE "save", u, v)
               => <<"pair", u>> \in lapsed'
    PROVE  PairParts'
<1>1. call'[c].pc = "insert" /\ call'[c].op = op /\ call'[c].who = u /\ call'[c].whom = v
      /\ \A d \in Calls : d # c => call'[d] = call[d]
  BY DEF TypeOK, Idle
<1>2. SavedNotBlockedUnlessOverlap' BY DEF PairParts, SavedNotBlockedUnlessOverlap
<1>3. ASSUME NEW e \in Calls, call'[e].pc = "insert", <<"pair", call'[e].who>> \notin lapsed'
      PROVE  /\ call'[e].op = "save" => <<call'[e].who, call'[e].whom>> \notin blocked'
             /\ call'[e].op = "block" => <<call'[e].who, call'[e].whom>> \notin saved'
             /\ \A d \in Calls : ~(/\ call'[d].pc = "insert"
                                    /\ call'[d].op = (IF call'[e].op = "save" THEN "block" ELSE "save")
                                    /\ call'[d].who = call'[e].who /\ call'[d].whom = call'[e].whom)
  <2>1. CASE e = c
    <3>1. ASSUME NEW d \in Calls, call'[d].pc = "insert", call'[d].op = (IF op = "save" THEN "block" ELSE "save"),
                 call'[d].who = u, call'[d].whom = v
          PROVE  FALSE
      <4>1. d # c BY <3>1, <1>1
      <4>2. Inserting(d, IF op = "save" THEN "block" ELSE "save", u, v) BY <4>1, <3>1, <1>1 DEF Inserting
      <4> QED BY <4>2, <1>1, <1>3, <2>1
    <3> QED BY <3>1, <2>1, <1>1
  <2>2. CASE e # c
    <3>1. call'[e] = call[e] /\ <<"pair", call[e].who>> \notin lapsed BY <2>2, <1>1, <1>3
    <3>2. ASSUME NEW d \in Calls, call'[d].pc = "insert",
                 call'[d].op = (IF call[e].op = "save" THEN "block" ELSE "save"),
                 call'[d].who = call[e].who, call'[d].whom = call[e].whom
          PROVE  FALSE
      <4>1. CASE d # c BY <4>1, <3>1, <3>2, <1>1, <1>3 DEF PairParts, PairsApart, Inserting
      <4>2. CASE d = c
        <5>1. op = (IF call[e].op = "save" THEN "block" ELSE "save") /\ call[e].who = u /\ call[e].whom = v
          BY <4>2, <3>2, <1>1
        <5>2. call[e].op \in {"save", "block"} BY <3>1, <1>3 DEF Shape, CallShape
        <5>3. Inserting(e, IF op = "save" THEN "block" ELSE "save", u, v)
          BY <5>1, <5>2, <3>1, <1>3 DEF Inserting
        <5> QED BY <5>3, <5>1, <3>1, <1>3
      <4> QED BY <4>1, <4>2
    <3>3. /\ call[e].op = "save" => <<call[e].who, call[e].whom>> \notin blocked
          /\ call[e].op = "block" => <<call[e].who, call[e].whom>> \notin saved
      BY <3>1, <1>3 DEF PairParts, PairsApart
    <3>4. \A d \in Calls : ~(/\ call'[d].pc = "insert"
                             /\ call'[d].op = (IF call'[e].op = "save" THEN "block" ELSE "save")
                             /\ call'[d].who = call'[e].who /\ call'[d].whom = call'[e].whom)
      BY <3>1, <3>2
    <3>5. /\ call'[e].op = "save" => <<call'[e].who, call'[e].whom>> \notin blocked'
          /\ call'[e].op = "block" => <<call'[e].who, call'[e].whom>> \notin saved'
      BY <3>1, <3>3
    <3> QED BY <3>4, <3>5
  <2> QED BY <2>1, <2>2
<1> QED BY <1>2, <1>3 DEF PairParts, PairsApart, Inserting

LEMMA PairsKept == TypeOK /\ Shape /\ PairParts /\ [Next]_vars => PairParts'
<1> SUFFICES ASSUME TypeOK, Shape, PairParts, [Next]_vars PROVE PairParts' OBVIOUS
<1>1. ASSUME NEW c \in Calls, StartSave(c) PROVE PairParts'
  <2>1. PICK u \in Members, v \in Members :
          /\ ~Related(u, v) /\ Begins(c, "save", "insert", u, v)
          /\ Lapses("pair", u, \E d \in Calls : Inserting(d, "block", u, v))
          /\ UNCHANGED <<saved, blocked>>
    BY <1>1 DEF StartSave
  <2>2. <<u, v>> \notin blocked BY <2>1 DEF Related
  <2>3. /\ lapsed \subseteq lapsed'
        /\ \A d \in Calls : Inserting(d, "block", u, v) => <<"pair", u>> \in lapsed'
    BY <2>1 DEF Lapses
  <2>4. Begins(c, "save", "insert", u, v) BY <2>1
  <2> QED BY <2>1, <2>2, <2>3, <2>4, PairBegins
<1>2. ASSUME NEW c \in Calls, StartBlock(c) PROVE PairParts'
  <2>1. PICK u \in Members, v \in Members :
          /\ Begins(c, "block", "insert", u, v)
          /\ saved' = saved \ {<<u, v>>} /\ blocked' = blocked
          /\ Lapses("pair", u, \E d \in Calls : Inserting(d, "save", u, v))
    BY <1>2 DEF StartBlock
  <2>2. /\ lapsed \subseteq lapsed'
        /\ \A d \in Calls : Inserting(d, "save", u, v) => <<"pair", u>> \in lapsed'
    BY <2>1 DEF Lapses
  <2>3. Begins(c, "block", "insert", u, v) BY <2>1
  <2> QED BY <2>1, <2>2, <2>3, PairBegins
<1>3. ASSUME NEW c \in Calls, InsertSaved(c) \/ InsertBlocked(c) PROVE PairParts'
  <2> DEFINE pair == <<call[c].who, call[c].whom>>
  <2>1. call[c].pc = "insert" /\ lapsed' = lapsed /\ call' = [call EXCEPT ![c] = Idle]
    BY <1>3 DEF InsertSaved, InsertBlocked
  <2>2. call'[c].pc = "idle" /\ \A d \in Calls : d # c => call'[d] = call[d] BY <2>1, Ends
  <2>3. \A d \in Calls : call'[d].pc = "insert" => call'[d] = call[d] /\ d # c BY <2>2
  <2>4. \/ call[c].op = "save" /\ saved' = saved \cup {pair} /\ blocked' = blocked
        \/ call[c].op = "block" /\ blocked' = blocked \cup {pair} /\ saved' = saved
    BY <1>3 DEF InsertSaved, InsertBlocked
  <2>5. SavedNotBlockedUnlessOverlap'
    <3>1. <<"pair", call[c].who>> \in lapsed
          \/ (call[c].op = "save" /\ pair \notin blocked) \/ (call[c].op = "block" /\ pair \notin saved)
      BY <2>1, <2>4 DEF PairParts, PairsApart
    <3>2. ASSUME NEW x \in saved' \cap blocked', x # pair PROVE <<"pair", x[1]>> \in lapsed'
      BY <2>1, <2>4, <3>2 DEF PairParts, SavedNotBlockedUnlessOverlap
    <3>3. ASSUME pair \in saved' \cap blocked' PROVE <<"pair", call[c].who>> \in lapsed'
      <4>1. CASE pair \in saved /\ pair \in blocked
        <5>1. <<"pair", pair[1]>> \in lapsed BY <4>1 DEF PairParts, SavedNotBlockedUnlessOverlap
        <5> QED BY <5>1, <2>1
      <4>2. CASE ~(pair \in saved /\ pair \in blocked) BY <4>2, <3>1, <3>3, <2>1, <2>4
      <4> QED BY <4>1, <4>2
    <3>4. \A x \in saved' \cap blocked' : <<"pair", x[1]>> \in lapsed'
      <4> SUFFICES ASSUME NEW x \in saved' \cap blocked' PROVE <<"pair", x[1]>> \in lapsed' OBVIOUS
      <4>1. CASE x = pair BY <4>1, <3>3
      <4>2. CASE x # pair BY <4>2, <3>2
      <4> QED BY <4>1, <4>2
    <3> QED BY <3>4 DEF SavedNotBlockedUnlessOverlap
  <2>6. ASSUME NEW e \in Calls, call'[e].pc = "insert", <<"pair", call'[e].who>> \notin lapsed'
        PROVE  /\ call'[e].op = "save" => <<call'[e].who, call'[e].whom>> \notin blocked'
               /\ call'[e].op = "block" => <<call'[e].who, call'[e].whom>> \notin saved'
               /\ \A d \in Calls : ~(/\ call'[d].pc = "insert"
                                      /\ call'[d].op = (IF call'[e].op = "save" THEN "block" ELSE "save")
                                      /\ call'[d].who = call'[e].who /\ call'[d].whom = call'[e].whom)
    <3>1. call'[e] = call[e] /\ call[e].pc = "insert" /\ <<"pair", call[e].who>> \notin lapsed
      BY <2>1, <2>3, <2>6
    <3>2. /\ call[e].op = "save" => <<call[e].who, call[e].whom>> \notin blocked
          /\ call[e].op = "block" => <<call[e].who, call[e].whom>> \notin saved
          /\ \A d \in Calls : ~Inserting(d, IF call[e].op = "save" THEN "block" ELSE "save",
                                          call[e].who, call[e].whom)
      BY <3>1 DEF PairParts, PairsApart
    <3>3. \A d \in Calls : ~(/\ call'[d].pc = "insert"
                             /\ call'[d].op = (IF call'[e].op = "save" THEN "block" ELSE "save")
                             /\ call'[d].who = call'[e].who /\ call'[d].whom = call'[e].whom)
      BY <2>3, <3>1, <3>2 DEF Inserting
    <3>4. ~(/\ call[c].op = (IF call[e].op = "save" THEN "block" ELSE "save")
            /\ call[c].who = call[e].who /\ call[c].whom = call[e].whom)
      BY <2>1, <3>2 DEF Inserting
    <3>5. call[e].op = "save" => <<call[e].who, call[e].whom>> \notin blocked'
      BY <2>4, <3>2, <3>4
    <3>6. call[e].op = "block" => <<call[e].who, call[e].whom>> \notin saved'
      BY <2>4, <3>2, <3>4
    <3> QED BY <3>1, <3>3, <3>5, <3>6
  <2> QED BY <2>5, <2>6 DEF PairParts, PairsApart, Inserting
<1>4. ASSUME NEW c \in Calls, ProfileSteps(c) PROVE PairParts'
  <2>1. lapsed \subseteq lapsed'
    <3>1. CASE LookForNotice(c) BY <3>1 DEF LookForNotice, Lapses
    <3> QED BY <1>4, <3>1 DEF ProfileSteps, StartUpdate, SetProfile, StartBackfill, Compute, Flag,
                              SendNotice, MarkNotice, Lapses
  <2> QED BY <1>4, <2>1, ProfileUntouched, PairsQuiet
<1>5. ASSUME NEW c \in Calls, ShowSteps(c) PROVE PairParts'
  <2>1. Untouched({"insert"}) BY <1>5, ShowUntouched DEF Untouched
  <2> QED BY <1>5, <2>1, ShowUntouched, PairsQuiet
<1>6. ASSUME NEW c \in Calls, DeletionSteps(c) PROVE PairParts'
  <2>1. Untouched({"insert"}) BY <1>6, DeletionUntouched DEF Untouched
  <2>2. lapsed \subseteq lapsed' /\ saved' \subseteq saved /\ blocked' \subseteq blocked
    BY <1>6 DEF DeletionSteps, StartDeletion, RemoveInteractions, Tombstone, Lapses
  <2> QED BY <2>1, <2>2, PairsQuiet
<1>7. ASSUME NEW c \in Calls, CallFails(c) PROVE PairParts'
  <2>1. lapsed \subseteq lapsed' /\ saved' = saved /\ blocked' = blocked BY <1>7 DEF CallFails
  <2>2. call'[c].pc = "idle" /\ \A d \in Calls : d # c => call'[d] = call[d] BY <1>7, Ends DEF CallFails
  <2>3. \A d \in Calls : call'[d].pc = "insert" => call'[d] = call[d] BY <2>2
  <2> QED BY <2>1, <2>3 DEF PairParts, PairsApart, SavedNotBlockedUnlessOverlap, Inserting
<1>8. CASE CalmStep
  <2>1. Untouched({"insert"}) BY <1>8, CalmUntouched DEF Untouched
  <2>2. lapsed' = lapsed /\ saved' \subseteq saved /\ blocked' \subseteq blocked
    BY <1>8 DEF CalmStep, SignUp, GetProfile, UnsaveProfile, UnblockProfile, vars
  <2> QED BY <2>1, <2>2, PairsQuiet
<1> QED BY <1>1, <1>2, <1>3, <1>4, <1>5, <1>6, <1>7, <1>8 DEF Next, PairSteps, CalmStep

-----------------------------------------------------------------------------
(* The theorems *)

LEMMA InitInv == Init => DiscoveryInv
<1> SUFFICES ASSUME Init PROVE DiscoveryInv OBVIOUS
<1>1. Absent \in Document BY DiscoveryAssumption DEF Absent, Document
<1>2. Idle \in Locals BY IdleTyped, DiscoveryAssumption
<1>3. TypeOK BY <1>1, <1>2 DEF Init, TypeOK
<1>4. /\ \A c \in Calls : call[c] = Idle
      /\ \A u \in Members : doc[u] = Absent /\ told[u] = 0
      /\ exposed = {} /\ saved = {} /\ blocked = {}
  BY DEF Init
<1>5. Shape BY <1>4, IdlePlace DEF Shape, CallShape
<1>6. ResultsCurrent BY <1>4, IdlePlace DEF ResultsCurrent
<1>7. FlagCurrent
  <2>1. ~Complete(Lists) BY ListsIncomplete
  <2>2. Absent.fields = Lists /\ ~Absent.onboarded BY DEF Absent
  <2> QED BY <2>1, <2>2, <1>4 DEF FlagCurrent
<1>8. SentinelsApart BY <1>4 DEF SentinelsApart, Absent
<1>9. NoticeParts
  <2>1. NoticesApart BY <1>4, IdlePlace DEF NoticesApart, Noticing
  <2>2. NoticedOnceUnlessOverlap BY <1>4 DEF NoticedOnceUnlessOverlap
  <2> QED BY <2>1, <2>2 DEF NoticeParts
<1>10. PairParts BY <1>4, IdlePlace DEF PairParts, PairsApart, SavedNotBlockedUnlessOverlap
<1> QED BY <1>3, <1>4, <1>5, <1>6, <1>7, <1>8, <1>9, <1>10
        DEF DiscoveryInv, NoticeParts, PairParts, SentinelNeverDiscovered

LEMMA StepInv == DiscoveryInv /\ [Next]_vars => DiscoveryInv'
BY TypesKept, ShapeKept, FlagsKept, SentinelsKept, ExposedKept, NoticesKept, PairsKept
   DEF DiscoveryInv, NoticeParts, PairParts, SentinelNeverDiscovered

(* Profiles, placeholders, notices and pairs stay as DiscoveryInv says, however
   the calls of users.service.ts and user-interaction.service.ts interleave. *)
THEOREM DiscoveryHolds == Spec => []DiscoveryInv
<1> QED BY InitInv, StepInv, PTL DEF Spec

(* isOnboarded says that every counted field has a value. *)
THEOREM FlagIsTrue == Spec => []OnboardedUnlessOverlap
<1>1. DiscoveryInv => OnboardedUnlessOverlap
  <2> SUFFICES ASSUME DiscoveryInv, NEW u \in Members, doc[u].status = "ACTIVE",
                      <<"flag", u>> \notin lapsed, ~Recomputing(u)
               PROVE  doc[u].onboarded <=> Fields \subseteq doc[u].fields
    BY DEF OnboardedUnlessOverlap
  <2>1. doc[u].onboarded <=> Complete(doc[u].fields) BY DEF DiscoveryInv, FlagCurrent
  <2> QED BY <2>1, CompleteMeansAll
<1> QED BY <1>1, DiscoveryHolds, PTL

(* No search, single view or list shows anybody with the placeholders of a
   social sign-in. *)
THEOREM PlaceholdersHidden == Spec => []SentinelNeverDiscovered
<1>1. DiscoveryInv => SentinelNeverDiscovered BY DEF DiscoveryInv
<1> QED BY <1>1, DiscoveryHolds, PTL

(* A profile is saved or blocked, not both. *)
THEOREM SavedOrBlocked == Spec => []SavedNotBlockedUnlessOverlap
<1>1. DiscoveryInv => SavedNotBlockedUnlessOverlap BY DEF DiscoveryInv
<1> QED BY <1>1, DiscoveryHolds, PTL

(* The completion notice goes out once. *)
THEOREM NoticedOnce == Spec => []NoticedOnceUnlessOverlap
<1>1. DiscoveryInv => NoticedOnceUnlessOverlap BY DEF DiscoveryInv
<1> QED BY <1>1, DiscoveryHolds, PTL

=============================================================================
