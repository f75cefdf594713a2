-------------------------- MODULE MCChatRequests --------------------------
(* Instances of ChatRequests for TLC. *)
EXTENDS ChatRequests, TLC

CONSTANTS u1, u2, k1, k2, m1, m2, c1, c2

TwoUsers == {u1, u2}
TwoRequests == {k1, k2}
TwoRooms == {m1, m2}
TwoCalls == {c1, c2}

(* A behaviour is about one request and everything that may happen to it, or
   about two requests and nothing but requests and their answers. *)
OneSubject ==
    \/ \A k, l \in RequestIds :
         requests[k].status # "unused" /\ requests[l].status # "unused" => k = l
    \/ /\ \A c \in Calls : call[c].op \in {"none", "send", "accept", "reject"}
       /\ \A m \in RoomIds : rooms[m].former = {}
       /\ \A k \in RequestIds : requests[k].status # "deleted" /\ greetings[k] = 0
       /\ mishaps \subseteq {"request"}

Symmetry == Permutations(TwoUsers) \cup Permutations(TwoRequests)
              \cup Permutations(TwoRooms) \cup Permutations(TwoCalls)

=============================================================================
