----------------------- MODULE AccountDeletionProofs -----------------------
(***************************************************************************)
(* A deletion that nobody writes against leaves no trace of the member,    *)
(* for any number of members and calls, failures and repeated deletions.   *)
(***************************************************************************)
EXTENDS AccountDeletion, TLAPS

(* What a call knows of the collections it has passed. *)
Passed(c) ==
    LET u == call[c].user IN
    /\ call[c].pc \in Cleaning \cup {"unsave", "write"} => u \in Members
    /\ call[c].pc \in {"unsave", "write"} => call[c].target \in Members
    /\ Past(c, Cleaning \ {"devices"}) => u \notin devices
    /\ Past(c, {"requests", "room", "names", "reads", "tombstone"})
         => \A i \in interactions : u \notin {i.by, i.of}
    /\ Past(c, {"room", "names", "reads", "tombstone"})
         => \A q \in requests : u \notin {q.from, q.to}
    /\ Past(c, {"names", "reads", "tombstone"}) => u \notin room
    /\ Past(c, {"reads", "tombstone"}) => u \notin named
    /\ Past(c, {"tombstone"}) => u \notin readers

LEMMA EraseInvPassed == EraseInv <=> TypeOK /\ \A c \in Calls : Passed(c)
  BY DEF EraseInv, Passed

LEMMA EraseInvPassedNext == EraseInv' <=> TypeOK' /\ \A c \in Calls : Passed(c)'
  BY DEF EraseInv, Passed

LEMMA EraseInit == Init => EraseInv
<1> SUFFICES ASSUME Init PROVE EraseInv
  OBVIOUS
<1>1. Idle \in Locals
  BY DEF Idle, Locals
<1>2. TypeOK
  BY <1>1 DEF Init, TypeOK, Interaction, Request
<1>3. \A c \in Calls : Passed(c)
  BY DEF Init, Passed, Past, Idle, Cleaning
<1> QED BY <1>2, <1>3, EraseInvPassed

(* A call that stands still keeps what it knows when nothing is added about
   its member. *)
LEMMA PassedKept ==
    ASSUME NEW d \in Calls, Passed(d),
           call'[d] = call[d],
           devices' \subseteq devices, interactions' \subseteq interactions,
           requests' \subseteq requests, room' \subseteq room,
           named' \subseteq named, readers' \subseteq readers
    PROVE  Passed(d)'
  BY DEF Passed, Past

(* ... and when it moves on having emptied one more collection. *)
LEMMA DeleteKeeps ==
    ASSUME EraseInv, NEW c \in Calls,
           \/ DeleteDevices(c) \/ DeleteInteractions(c) \/ DeleteRequests(c)
           \/ PullFromRoom(c) \/ Anonymise(c) \/ PullReads(c)
    PROVE  EraseInv'
<1>1. /\ TypeOK /\ Passed(c) /\ \A d \in Calls : Passed(d)
      /\ call \in [Calls -> Locals] /\ call[c] \in Locals
  BY EraseInvPassed DEF TypeOK
<1>2. PICK pc \in Cleaning : Goes(c, pc)
  BY DEF DeleteDevices, DeleteInteractions, DeleteRequests, PullFromRoom, Anonymise, PullReads,
     Cleaning
<1>3. /\ call' \in [Calls -> Locals] /\ \A d \in Calls \ {c} : call'[d] = call[d]
      /\ call'[c] = [call[c] EXCEPT !.pc = pc]
  BY <1>1, <1>2 DEF Goes, Locals
<1>4. /\ call'[c].user = call[c].user /\ call'[c].touched = call[c].touched /\ call'[c].pc = pc
      /\ call'[c].target = call[c].target
  BY <1>1, <1>3 DEF Locals
<1>5. /\ devices' \subseteq devices /\ interactions' \subseteq interactions
      /\ requests' \subseteq requests /\ room' \subseteq room
      /\ named' \subseteq named /\ readers' \subseteq readers
      /\ status' = status /\ nulls' = nulls
  BY DEF DeleteDevices, DeleteInteractions, DeleteRequests, PullFromRoom, Anonymise, PullReads
<1>6. TypeOK'
  BY <1>1, <1>3, <1>5 DEF TypeOK
<1>7. \A d \in Calls \ {c} : Passed(d)'
  BY <1>1, <1>3, <1>5, PassedKept
<1>8. Passed(c)'
  <2> DEFINE u == call[c].user
  <2>1. u \in Members
    BY <1>1 DEF Passed, DeleteDevices, DeleteInteractions, DeleteRequests, PullFromRoom, Anonymise,
       PullReads, Cleaning
  <2>2. CASE DeleteDevices(c)
    <3>1. call'[c].pc = "interactions" /\ u \notin devices'
      BY <1>1, <2>2 DEF DeleteDevices, Goes, Locals
    <3> QED BY <1>4, <2>1, <3>1 DEF Passed, Past, Cleaning
  <2>3. CASE DeleteInteractions(c)
    <3>1. /\ call'[c].pc = "requests" /\ call[c].pc = "interactions" /\ devices' = devices
          /\ \A i \in interactions' : u \notin {i.by, i.of}
      BY <1>1, <2>3 DEF DeleteInteractions, Goes, Locals
    <3> QED BY <1>1, <1>4, <2>1, <3>1 DEF Passed, Past, Cleaning
  <2>4. CASE DeleteRequests(c)
    <3>1. /\ call'[c].pc = "room" /\ call[c].pc = "requests"
          /\ devices' = devices /\ interactions' = interactions
          /\ \A q \in requests' : u \notin {q.from, q.to}
      BY <1>1, <2>4 DEF DeleteRequests, Goes, Locals
    <3> QED BY <1>1, <1>4, <2>1, <3>1 DEF Passed, Past, Cleaning
  <2>5. CASE PullFromRoom(c)
    <3>1. /\ call'[c].pc = "names" /\ call[c].pc = "room"
          /\ devices' = devices /\ interactions' = interactions /\ requests' = requests
          /\ u \notin room'
      BY <1>1, <2>5 DEF PullFromRoom, Goes, Locals
    <3> QED BY <1>1, <1>4, <2>1, <3>1 DEF Passed, Past, Cleaning
  <2>6. CASE Anonymise(c)
    <3>1. /\ call'[c].pc = "reads" /\ call[c].pc = "names" /\ room' = room
          /\ devices' = devices /\ interactions' = interactions /\ requests' = requests
          /\ u \notin named'
      BY <1>1, <2>6 DEF Anonymise, Goes, Locals
    <3> QED BY <1>1, <1>4, <2>1, <3>1 DEF Passed, Past, Cleaning
  <2>7. CASE PullReads(c)
    <3>1. /\ call'[c].pc = "tombstone" /\ call[c].pc = "reads" /\ room' = room /\ named' = named
          /\ devices' = devices /\ interactions' = interactions /\ requests' = requests
          /\ u \notin readers'
      BY <1>1, <2>7 DEF PullReads, Goes, Locals
    <3> QED BY <1>1, <1>4, <2>1, <3>1 DEF Passed, Past, Cleaning
  <2> QED BY <2>2, <2>3, <2>4, <2>5, <2>6, <2>7
<1> QED BY <1>6, <1>7, <1>8, EraseInvPassedNext

(* The locals of a call that has emptied nothing. *)
Fresh(l) ==
    /\ l.pc \in {"unsave", "write", "devices"} => l.user \in Members
    /\ l.pc \in {"unsave", "write"} => l.target \in Members
    /\ l.pc \in {"idle", "unsave", "write", "devices"}

(* A call that starts or ends knows nothing, and takes nothing from another. *)
LEMMA EdgeKeeps ==
    ASSUME EraseInv, NEW c \in Calls,
           StartWrite(c) \/ StartDelete(c) \/ WriteTombstone(c) \/ CallFails(c)
    PROVE  EraseInv'
<1>1. /\ TypeOK /\ \A d \in Calls : Passed(d) /\ call \in [Calls -> Locals]
  BY EraseInvPassed DEF TypeOK
<1>2. PICK l \in Locals : call' = [call EXCEPT ![c] = l] /\ Fresh(l)
  <2>1. CASE StartWrite(c)
    <3>1. PICK op \in Writers, u \in Members, v \in Members :
            call' = [call EXCEPT ![c] = [pc |-> IF op = "block" THEN "unsave" ELSE "write",
                                         op |-> op, user |-> u, target |-> v, touched |-> FALSE]]
      BY <2>1 DEF StartWrite
    <3> DEFINE l == [pc |-> IF op = "block" THEN "unsave" ELSE "write",
                     op |-> op, user |-> u, target |-> v, touched |-> FALSE]
    <3>2. l \in Locals /\ Fresh(l)
      BY DEF Locals, Fresh
    <3> QED BY <3>1, <3>2
  <2>2. CASE StartDelete(c)
    <3>1. PICK u \in Members :
            call' = [call EXCEPT ![c] = [pc |-> "devices", op |-> "delete", user |-> u,
                                         target |-> "none", touched |-> FALSE]]
      BY <2>2 DEF StartDelete
    <3> DEFINE l == [pc |-> "devices", op |-> "delete", user |-> u,
                     target |-> "none", touched |-> FALSE]
    <3>2. l \in Locals /\ Fresh(l)
      BY DEF Locals, Cleaning, Fresh
    <3> QED BY <3>1, <3>2
  <2>3. CASE Done(c)
    <3>1. Idle \in Locals /\ Fresh(Idle)
      BY DEF Idle, Locals, Fresh
    <3> QED BY <2>3, <3>1 DEF Done
  <2> QED BY <2>1, <2>2, <2>3 DEF WriteTombstone, CallFails
<1>3. /\ call' \in [Calls -> Locals] /\ call'[c] = l /\ \A d \in Calls \ {c} : call'[d] = call[d]
  BY <1>1, <1>2
<1>4. /\ UNCHANGED traces /\ status' \in [Members -> {"ACTIVE", "DELETED"}] /\ nulls' \subseteq Members
  BY <1>1, EraseInvPassed DEF TypeOK, StartWrite, StartDelete, WriteTombstone, CallFails, Passed, Cleaning
<1>5. TypeOK'
  BY <1>1, <1>3, <1>4 DEF TypeOK, traces
<1>6. Passed(c)'
  BY <1>2, <1>3 DEF Fresh, Passed, Past, Cleaning
<1>7. \A d \in Calls \ {c} : Passed(d)'
  BY <1>1, <1>3, <1>4, PassedKept DEF traces
<1> QED BY <1>5, <1>6, <1>7, EraseInvPassedNext

LEMMA UnsaveKeeps == ASSUME EraseInv, NEW c \in Calls, Unsave(c) PROVE EraseInv'
<1>1. /\ TypeOK /\ \A d \in Calls : Passed(d)
      /\ call \in [Calls -> Locals] /\ call[c] \in Locals
  BY EraseInvPassed DEF TypeOK
<1>2. /\ call' \in [Calls -> Locals] /\ \A d \in Calls \ {c} : call'[d] = call[d]
      /\ call'[c] = [call[c] EXCEPT !.pc = "write"]
  BY <1>1 DEF Unsave, Goes, Locals
<1>3. TypeOK'
  BY <1>1, <1>2 DEF Unsave, TypeOK
<1>4. Passed(c)'
  BY <1>1, <1>2 DEF Unsave, Passed, Past, Cleaning, Locals
<1>5. \A d \in Calls \ {c} : Passed(d)'
  BY <1>1, <1>2, PassedKept DEF Unsave
<1> QED BY <1>3, <1>4, <1>5, EraseInvPassedNext

(* A write marks the deletions of the members it is about. *)
LEMMA WriteKeeps == ASSUME EraseInv, NEW c \in Calls, Write(c) PROVE EraseInv'
<1> DEFINE u == call[c].user
           v == call[c].target
           N == Names(c)
<1>1. /\ TypeOK /\ \A d \in Calls : Passed(d)
      /\ call \in [Calls -> Locals] /\ call[c] \in Locals
  BY EraseInvPassed DEF TypeOK
<1>2. u \in Members /\ v \in Members
  BY <1>1 DEF Write, Passed
<1>3. \A d \in Calls : call'[d] = IF d = c THEN Idle
                                  ELSE [call[d] EXCEPT !.touched = @ \/ call[d].user \in N]
  BY DEF Write
<1>4. call' \in [Calls -> Locals]
  <2>1. Idle \in Locals
    BY DEF Idle, Locals
  <2>3. call' = [d \in Calls |-> call'[d]]
    BY DEF Write
  <2>2. \A d \in Calls : [call[d] EXCEPT !.touched = @ \/ call[d].user \in N] \in Locals
    BY <1>1 DEF Locals
  <2> HIDE DEF N
  <2> QED BY <1>3, <2>1, <2>2, <2>3
<1>5. /\ devices' \subseteq devices \cup N
      /\ \A i \in interactions' : i \in interactions \/ (i \in Interaction /\ {i.by, i.of} \subseteq N)
      /\ \A q \in requests' : q \in requests \/ (q \in Request /\ {q.from, q.to} \subseteq N)
      /\ room' \subseteq room \cup N
      /\ named' \subseteq named \cup N
      /\ readers' \subseteq readers \cup N
      /\ status' = status /\ nulls' = nulls
  BY <1>2 DEF Write, Adds, Names, Interaction, Request
<1>6. TypeOK'
  <2>1. \/ call[c].op \in {"message", "device", "read"} /\ N = {u}
        \/ call[c].op \notin {"message", "device", "read"} /\ N = {u, v}
    BY DEF Names
  <2>2. N \subseteq Members
    BY <1>2, <2>1
  <2> HIDE DEF N
  <2> QED BY <1>1, <1>4, <1>5, <2>2 DEF TypeOK
<1>7. Passed(c)'
  <2>1. call'[c] = Idle
    BY <1>3
  <2>2. call'[c].pc = "idle"
    BY <2>1 DEF Idle
  <2> QED BY <2>2 DEF Passed, Past, Cleaning
<1>8. ASSUME NEW d \in Calls \ {c} PROVE Passed(d)'
  <2>1. /\ call'[d].pc = call[d].pc /\ call'[d].user = call[d].user /\ call'[d].target = call[d].target
        /\ ~call'[d].touched => ~call[d].touched /\ call[d].user \notin N
    BY <1>1, <1>3 DEF Locals
  <2> HIDE DEF u, v, N
  <2> QED BY <1>1, <1>5, <2>1 DEF Passed, Past
<1> QED BY <1>6, <1>7, <1>8, EraseInvPassedNext

LEMMA EraseStep == EraseInv /\ [Next]_vars => EraseInv'
<1> SUFFICES ASSUME EraseInv, [Next]_vars PROVE EraseInv'
  OBVIOUS
<1>1. CASE UNCHANGED vars
  BY <1>1 DEF vars, traces, EraseInv, TypeOK, Past
<1> QED BY <1>1, DeleteKeeps, EdgeKeeps, UnsaveKeeps, WriteKeeps DEF Next, Step

(* What a deletion has passed stays clean, or the deletion knows it was touched. *)
THEOREM EraseInvariant == Spec => []EraseInv
  BY EraseInit, EraseStep, PTL DEF Spec

(* When an account becomes a tombstone the member has been erased from the
   other collections, unless another call wrote about the member during the
   deletion. *)
THEOREM Erased == Spec => ErasedUnlessTouched
<1> DEFINE Ok == \A u \in Members : Deletes(u) =>
         \/ Traceless(u)
         \/ \E c \in Calls : call[c].pc = "tombstone" /\ call[c].user = u /\ call[c].touched
<1>1. EraseInv /\ [Next]_vars => [Ok]_vars
  <2> SUFFICES ASSUME EraseInv, Next, NEW u \in Members, Deletes(u)
               PROVE  \/ Traceless(u)
                      \/ \E c \in Calls : call[c].pc = "tombstone" /\ call[c].user = u
                                          /\ call[c].touched
    OBVIOUS
  <2>1. PICK c \in Calls : WriteTombstone(c)
    BY DEF Next, Step, Deletes, StartWrite, Unsave, Write, StartDelete, DeleteDevices,
       DeleteInteractions, DeleteRequests, PullFromRoom, Anonymise, PullReads, CallFails
  <2>2. call[c].user = u /\ call[c].pc = "tombstone"
    BY <2>1, EraseInvPassed DEF WriteTombstone, Deletes, TypeOK
  <2> QED BY <2>2, EraseInvPassed DEF Passed, Past, Traceless, Cleaning
<1> QED BY <1>1, EraseInvariant, PTL DEF Spec, ErasedUnlessTouched

(* However many members delete their accounts, and however often a deletion
   that failed is started again, at most one of them ever becomes a tombstone:
   its null phone number is the only one the sparse unique index admits
   (WriteTombstone, user.schema.ts). *)
THEOREM OneTombstone == Spec => []OnlyOneLeaves
<1>1. Init => NullsOfTombstones
  BY DEF Init, NullsOfTombstones
<1>2. EraseInv /\ NullsOfTombstones /\ [Next]_vars => NullsOfTombstones'
  <2> SUFFICES ASSUME EraseInv, NullsOfTombstones, [Next]_vars PROVE NullsOfTombstones'
    OBVIOUS
  <2>1. ASSUME NEW c \in Calls, WriteTombstone(c) PROVE NullsOfTombstones'
    <3> DEFINE u == call[c].user
    <3>1. CASE nulls \ {u} # {}
      BY <2>1, <3>1 DEF WriteTombstone, NullsOfTombstones
    <3>2. CASE nulls \ {u} = {}
      <4>1. nulls' = {u}
        BY <2>1, <3>2 DEF WriteTombstone
      <4>2. \A v \in Members : status'[v] = "DELETED" => v = u \/ status[v] = "DELETED"
        BY <2>1, <3>2 DEF WriteTombstone, EraseInv, TypeOK
      <4> QED BY <3>2, <4>1, <4>2 DEF NullsOfTombstones
    <3> QED BY <3>1, <3>2
  <2>2. CASE UNCHANGED <<status, nulls>>
    BY <2>2 DEF NullsOfTombstones
  <2> QED BY <2>1, <2>2 DEF Next, Step, vars, StartWrite, Unsave, Write, StartDelete, DeleteDevices,
          DeleteInteractions, DeleteRequests, PullFromRoom, Anonymise, PullReads, CallFails
<1>3. NullsOfTombstones => OnlyOneLeaves
  BY DEF NullsOfTombstones, OnlyOneLeaves
<1> QED BY <1>1, <1>2, <1>3, EraseInvariant, PTL DEF Spec

=============================================================================
