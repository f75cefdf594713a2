------------------------------ MODULE MCMedia ------------------------------
(* Instances of Media for TLC. *)
EXTENDS Media, TLC

CONSTANTS a1, a2, a3, b1, b2, b3, c1, c2

ThreePhotos == {a1, a2, a3}
ThreePictures == {b1, b2, b3}
TwoCalls == {c1, c2}

(* The gallery and the picture share nothing but the slots: a behaviour
   explores one of them. *)
OneSubject == used \subseteq Photos \/ used \subseteq Pictures

Symmetry == Permutations(ThreePhotos) \cup Permutations(ThreePictures) \cup Permutations(TwoCalls)

=============================================================================
