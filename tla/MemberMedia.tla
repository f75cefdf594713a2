----------------------------- MODULE MemberMedia -----------------------------
(***************************************************************************)
(* What the media component promises about a member's document, with no    *)
(* copies of it in anybody's hands: uploads, deletions and reviews act on  *)
(* the gallery and the picture as they are at that moment.  The code acts  *)
(* on what it read before an upload or a call to Cloudinary; the promise   *)
(* says what is left once such calls have overlapped: a gallery within its *)
(* limit and reviewed all the same.  Media is checked and proved to        *)
(* implement this specification.                                           *)
(***************************************************************************)
EXTENDS Integers, FiniteSets

CONSTANTS Photos, Pictures, None, Limit, AutoApproved

VARIABLES
    gallery,   \* the photos members see, or will when they are approved
    picture,   \* the profile picture and its status
    reviewed,  \* the files an admin approved
    lapsed     \* what has overlapped: "array" and "replaced"; or "failed" halfway

mediaVars == <<gallery, picture, reviewed, lapsed>>

Init ==
    /\ gallery = {}
    /\ picture = [file |-> None, status |-> "PENDING"]
    /\ reviewed = {}
    /\ lapsed = {}

FirstStatus == IF AutoApproved THEN "APPROVED" ELSE "PENDING"

(* A guard that holds until calls of its kind overlap. *)
Guards(kind, condition) == kind \in lapsed \/ condition
MayLapse(kind) == lapsed' \in {lapsed, lapsed \cup {kind}}

Fail == lapsed' = lapsed \cup {"failed"} /\ UNCHANGED <<gallery, picture, reviewed>>

(* Photos come beside those that are there, within the limit. *)
AddPhotos(ids) ==
    /\ \A p \in gallery : p.id \notin ids
    /\ gallery' = gallery \cup {[id |-> file, status |-> FirstStatus] : file \in ids}
    /\ Cardinality(gallery') <= Limit
    /\ MayLapse("array")
    /\ UNCHANGED <<picture, reviewed>>

RemovePhoto(id) ==
    /\ gallery' = {p \in gallery : p.id # id}
    /\ MayLapse("array")
    /\ UNCHANGED <<picture, reviewed>>

ApprovePhoto(p) ==
    /\ gallery' = (gallery \ {p}) \cup {[id |-> p.id, status |-> "APPROVED"]}
    /\ reviewed' = reviewed \cup {p.id}
    /\ MayLapse("array")
    /\ UNCHANGED picture

(* Of calls that overlapped, one writes back a gallery of before: it may lose
   photos or bring some back, but none is marked as approved that no admin
   approved, and never more than the limit. *)
WriteBack(photos) ==
    /\ "array" \in lapsed
    /\ Cardinality(photos) <= Limit
    /\ \A p \in photos : p.status = "APPROVED" => AutoApproved \/ p.id \in reviewed
    /\ gallery' = photos
    /\ UNCHANGED <<picture, reviewed, lapsed>>

SetPicture(file) ==
    /\ file # picture.file
    /\ picture' = [file |-> file, status |-> FirstStatus]
    /\ MayLapse("replaced")
    /\ UNCHANGED <<gallery, reviewed>>

(* A deletion or a rejection removes the picture that is there by then. *)
RemovePicture(status) ==
    /\ picture' = [file |-> None, status |-> status]
    /\ UNCHANGED <<gallery, reviewed, lapsed>>

(* The picture an admin approves is the one that is there, or none. *)
ApprovePicture(file) ==
    /\ Guards("replaced", picture.file \in {file, None})
    /\ reviewed' = reviewed \cup {file}
    /\ picture' \in {picture, [picture EXCEPT !.status = "APPROVED"]}
    /\ Guards("replaced", picture.file = file => picture'.status = "APPROVED")
    /\ UNCHANGED <<gallery, lapsed>>

Next ==
    \/ Fail
    \/ \E ids \in SUBSET Photos : AddPhotos(ids)
    \/ \E id \in Photos : RemovePhoto(id)
    \/ \E p \in gallery : ApprovePhoto(p)
    \/ \E photos \in SUBSET [id : Photos, status : {"PENDING", "APPROVED"}] : WriteBack(photos)
    \/ \E file \in Pictures : SetPicture(file) \/ ApprovePicture(file)
    \/ \E status \in {picture.status, "REJECTED"} : RemovePicture(status)

Spec == Init /\ [][Next]_mediaVars

=============================================================================
