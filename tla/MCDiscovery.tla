---------------------------- MODULE MCDiscovery ----------------------------
(* Instances of Discovery for TLC. *)
EXTENDS Discovery, TLC

CONSTANTS u1, u2, c1, c2

TwoMembers == {u1, u2}
TwoCalls == {c1, c2}

(* A section with an array and a section of one field. *)
ThreeFields == {"education", "hobbies", "aboutMe"}
ArrayFields == {"hobbies"}
TwoSections == {{"education", "hobbies"}, {"aboutMe"}}

ThreePatches == {
    [on |-> {"education"}, off |-> {}, identity |-> FALSE],
    [on |-> {"education", "aboutMe"}, off |-> {}, identity |-> TRUE],
    [on |-> {"aboutMe"}, off |-> {"education"}, identity |-> FALSE]}

(* A behaviour is about one of two subjects: the profile of u1, whom u2, with a
   complete profile or none, may have saved and may look for; or the
   interactions of the two. *)
Steady(u) ==
    /\ doc[u].fields \in {ArrayFields, ThreeFields} /\ doc[u].status # "DELETED"
    /\ \A x \in lapsed : x[2] # u
    /\ \A c \in Calls : call[c].who = u =>
         /\ call[c].op \in {"none", "search", "list", "update", "save"}
         /\ call[c].op = "update" => call[c].patch.identity /\ \A d \in Calls : d # c => call[d] = Idle
         /\ call[c].op = "save" => \A d \in Calls : d # c => call[d] = Idle

OneSubject ==
    \/ /\ Steady(u2)
       /\ saved \subseteq {<<u2, u1>>} /\ blocked = {}
       /\ \A c \in Calls : call[c].who = u1 => call[c].op \notin {"save", "block"}
       /\ \A c \in Calls : call[c].op # "block"
    \/ /\ \A u \in Members : ~doc[u].sentinel
       /\ \A c \in Calls : call[c].op \notin {"update", "backfill", "search"}
       /\ \A u \in Members : doc[u].fields = ArrayFields

Symmetry == Permutations(TwoCalls)

=============================================================================
