------------------------------- MODULE Media -------------------------------
(***************************************************************************)
(* The media of one member: the gallery and the profile picture, in the    *)
(* user document, and the files they name, in Cloudinary.  Members upload  *)
(* and delete (src/media/media.service.ts), admins approve and reject      *)
(* (src/admin/admin.service.ts).  An upload takes seconds, between the     *)
(* read of the document and the write.                                     *)
(*                                                                         *)
(* The profile video has the picture's handlers, statement by statement,   *)
(* on fields of its own: the picture stands for both.  batchApproveMedia   *)
(* runs approvals concurrently, as calls in slots of their own do.         *)
(***************************************************************************)
EXTENDS Integers, FiniteSets

CONSTANTS
    Photos,        \* files uploaded to the folder mmij/gallery
    Pictures,      \* files uploaded to the folder mmij/profile_pictures
    None,          \* no picture
    Limit,         \* of the gallery: 3 in the code
    AutoApproved,  \* is the member on AUTO_APPROVE_MEDIA_EMAILS?
    Calls,         \* slots for concurrent calls
    Handlers       \* the operations the environment calls

ASSUME MediaAssumption ==
    /\ Photos \cap Pictures = {}
    /\ None \notin Photos \cup Pictures
    /\ Limit \in Nat \ {0}
    /\ AutoApproved \in BOOLEAN

Files == Photos \cup Pictures

ArrayWriters == {"addPhotos", "rejectPhoto"}  \* write the whole array back, as they read it
GalleryOps == {"addPhotos", "deletePhoto", "rejectPhoto"}
PictureOps == {"update", "delete", "approve", "reject"}
AllHandlers == GalleryOps \cup PictureOps \cup {"approvePhoto", "fail"}

VARIABLES
    gallery,   \* galleryPhotos of the document
    picture,   \* profilePicture and profilePictureStatus
    stored,    \* the files Cloudinary holds
    used,      \* the files ever uploaded: Cloudinary makes a new public_id each time
    reviewed,  \* history: the files an admin approved
    lapsed,    \* history: what went wrong that the code does not guard against
    call       \* the calls in flight

vars == <<gallery, picture, stored, used, reviewed, lapsed, call>>

(* One identifier stands for a photo's id and its publicId. *)
Photo == [id : Photos, status : {"PENDING", "APPROVED"}]
Ids(photos) == {p.id : p \in photos}
OnePhotoPerId(photos) == \A p, q \in photos : p.id = q.id => p = q

Locals == [pc : {"idle", "destroy", "upload", "write"},
           op : GalleryOps \cup PictureOps \cup {"none"},
           photos : SUBSET Photo,          \* galleryPhotos of the document it read
           target : Files \cup {None},     \* the file it is about to destroy or to approve
           status : {"PENDING", "APPROVED", "REJECTED"},  \* profilePictureStatus it read
           count : 0..Limit,               \* of files to upload
           adding : SUBSET Files,          \* uploaded files
           outdated : BOOLEAN]             \* __v of the document has grown since the read

Idle == [pc |-> "idle", op |-> "none", photos |-> {}, target |-> None, status |-> "PENDING",
         count |-> 0, adding |-> {}, outdated |-> FALSE]

TypeOK ==
    /\ gallery \subseteq Photo
    /\ picture \in [file : Pictures \cup {None}, status : {"PENDING", "APPROVED", "REJECTED"}]
    /\ stored \subseteq Files
    /\ used \subseteq Files
    /\ reviewed \subseteq Files
    /\ lapsed \subseteq {"array", "replaced", "failed"}
    /\ call \in [Calls -> Locals]

Init ==
    /\ gallery = {}
    /\ picture = [file |-> None, status |-> "PENDING"]
    /\ stored = {}
    /\ used = {}
    /\ reviewed = {}
    /\ lapsed = {}
    /\ call = [c \in Calls |-> Idle]

(* findById: of the document it reads a handler keeps what it will use. *)
Starts(c, op, pc, target, count) ==
    /\ call[c].pc = "idle"
    /\ op \in Handlers
    /\ call' = [call EXCEPT ![c] =
           [Idle EXCEPT !.pc = pc, !.op = op, !.target = target, !.count = count,
                        !.photos = IF op \in ArrayWriters THEN gallery ELSE {},
                        !.status = IF op = "approve" THEN picture.status ELSE "PENDING"]]
    /\ UNCHANGED <<gallery, picture, stored, used, reviewed, lapsed>>

At(c, op, pc) == call[c].op = op /\ call[c].pc = pc
Goes(c, pc) == call' = [call EXCEPT ![c].pc = pc]
Done(c) == call' = [call EXCEPT ![c] = Idle]

UploadStatus == IF AutoApproved THEN "APPROVED" ELSE "PENDING"

-----------------------------------------------------------------------------
(* Cloudinary: deleteAsset and the uploads *)

(* The handlers log a failure to delete and go on; deleteProfilePicture alone
   lets it through, which is a call that fails. *)
Destroy(c) ==
    /\ call[c].pc = "destroy"
    /\ \/ stored' = stored \ {call[c].target}
       \/ /\ "fail" \in Handlers
          /\ call[c].op # "delete"
          /\ stored' = stored
    /\ Goes(c, IF call[c].op = "update" THEN "upload" ELSE "write")
    /\ UNCHANGED <<gallery, picture, used, reviewed, lapsed>>

Upload(c) ==
    /\ call[c].pc = "upload"
    /\ \E new \in SUBSET ((IF call[c].op = "update" THEN Pictures ELSE Photos) \ used) :
         /\ IsFiniteSet(new) /\ Cardinality(new) = call[c].count
         /\ stored' = stored \cup new
         /\ used' = used \cup new
         /\ call' = [call EXCEPT ![c].pc = "write", ![c].adding = new]
    /\ UNCHANGED <<gallery, picture, reviewed, lapsed>>

-----------------------------------------------------------------------------
(* The gallery *)

ArrayChanges(c) ==
    lapsed' = lapsed \cup {x \in {"array"} : \E d \in Calls \ {c} : call[d].op \in ArrayWriters}

(* Mistake: the photos already there are not counted. *)
StartWithoutCount(c) ==
    \E n \in 1..Limit : Starts(c, "addPhotos", "upload", None, n)

StartUpdateGalleryPhotos(c) ==
    \E n \in 1..Limit :
        /\ Cardinality(gallery) + n <= Limit
        /\ Starts(c, "addPhotos", "upload", None, n)

NewPhotos(c) == {[id |-> file, status |-> UploadStatus] : file \in call[c].adding}

(* Mistake: appending to the array where the code replaces it. *)
PushGalleryPhotos(c) ==
    /\ At(c, "addPhotos", "write")
    /\ gallery' = gallery \cup NewPhotos(c)
    /\ ArrayChanges(c)
    /\ Done(c)
    /\ UNCHANGED <<picture, stored, used, reviewed>>

(* Mistake: forgetting the photos already there. *)
OverwriteGallery(c) ==
    /\ At(c, "addPhotos", "write")
    /\ gallery' = NewPhotos(c)
    /\ ArrayChanges(c)
    /\ Done(c)
    /\ UNCHANGED <<picture, stored, used, reviewed>>

UpdateGalleryPhotos(c) ==
    /\ At(c, "addPhotos", "write")
    /\ gallery' = call[c].photos \cup NewPhotos(c)
    /\ ArrayChanges(c)
    /\ Done(c)
    /\ UNCHANGED <<picture, stored, used, reviewed>>

StartDeleteGalleryPhoto(c) ==
    \E p \in gallery : Starts(c, "deletePhoto", "destroy", p.id, 0)

(* An atomic $pull by the photo's id. *)
DeleteGalleryPhoto(c) ==
    /\ At(c, "deletePhoto", "write")
    /\ gallery' = {p \in gallery : p.id # call[c].target}
    /\ ArrayChanges(c)
    /\ Done(c)
    /\ UNCHANGED <<picture, stored, used, reviewed>>

StartRejectGalleryPhoto(c) ==
    \E p \in gallery : Starts(c, "rejectPhoto", "destroy", p.id, 0)

(* Mistake: the rejected photo stays in the array that is saved. *)
RejectKeepingPhoto(c) ==
    /\ At(c, "rejectPhoto", "write")
    /\ ~call[c].outdated
    /\ gallery' = call[c].photos
    /\ ArrayChanges(c)
    /\ call' = [d \in Calls |-> IF d = c THEN Idle
                                ELSE IF call[d].op = "rejectPhoto" THEN [call[d] EXCEPT !.outdated = TRUE]
                                ELSE call[d]]
    /\ UNCHANGED <<picture, stored, used, reviewed>>

(* save() of a replaced array requires the version that was read, and makes
   it grow; findByIdAndUpdate does neither. *)
RejectGalleryPhoto(c) ==
    /\ At(c, "rejectPhoto", "write")
    /\ ~call[c].outdated
    /\ gallery' = {p \in call[c].photos : p.id # call[c].target}
    /\ ArrayChanges(c)
    /\ call' = [d \in Calls |-> IF d = c THEN Idle
                                ELSE IF call[d].op = "rejectPhoto" THEN [call[d] EXCEPT !.outdated = TRUE]
                                ELSE call[d]]
    /\ UNCHANGED <<picture, stored, used, reviewed>>

VersionError(c) ==
    /\ At(c, "rejectPhoto", "write")
    /\ call[c].outdated
    /\ Done(c)
    /\ UNCHANGED <<gallery, picture, stored, used, reviewed, lapsed>>

(* Mistake: an update of all elements where the code's is positional. *)
ApproveAllPhotos(c) ==
    /\ call[c].pc = "idle"
    /\ "approvePhoto" \in Handlers
    /\ \E p \in gallery :
         /\ gallery' = {[q EXCEPT !.status = "APPROVED"] : q \in gallery}
         /\ reviewed' = reviewed \cup {p.id}
    /\ ArrayChanges(c)
    /\ UNCHANGED <<picture, stored, used, call>>

(* One positional update. *)
ApproveGalleryPhoto(c) ==
    /\ call[c].pc = "idle"
    /\ "approvePhoto" \in Handlers
    /\ \E p \in gallery :
         /\ gallery' = (gallery \ {p}) \cup {[p EXCEPT !.status = "APPROVED"]}
         /\ reviewed' = reviewed \cup {p.id}
    /\ ArrayChanges(c)
    /\ UNCHANGED <<picture, stored, used, call>>

-----------------------------------------------------------------------------
(* The profile picture *)

StartUpdateProfilePicture(c) ==
    Starts(c, "update", IF picture.file = None THEN "upload" ELSE "destroy", picture.file, 1)

(* Mistake: the new picture keeps the status of the old one. *)
UpdateKeepingStatus(c) ==
    /\ At(c, "update", "write")
    /\ \E file \in call[c].adding : picture' = [picture EXCEPT !.file = file]
    /\ lapsed' = lapsed \cup {x \in {"replaced"} : \E d \in Calls : call[d].op = "approve"}
    /\ Done(c)
    /\ UNCHANGED <<gallery, stored, used, reviewed>>

UpdateProfilePicture(c) ==
    /\ At(c, "update", "write")
    /\ \E file \in call[c].adding : picture' = [file |-> file, status |-> UploadStatus]
    /\ lapsed' = lapsed \cup {x \in {"replaced"} : \E d \in Calls : call[d].op = "approve"}
    /\ Done(c)
    /\ UNCHANGED <<gallery, stored, used, reviewed>>

StartDeleteProfilePicture(c) ==
    /\ picture.file # None
    /\ Starts(c, "delete", "destroy", picture.file, 0)

(* $unset of profilePicture: the status stays. *)
DeleteProfilePicture(c) ==
    /\ At(c, "delete", "write")
    /\ picture' = [picture EXCEPT !.file = None]
    /\ Done(c)
    /\ UNCHANGED <<gallery, stored, used, reviewed, lapsed>>

StartApproveProfilePicture(c) ==
    /\ picture.file # None
    /\ Starts(c, "approve", "write", picture.file, 0)

(* Mistake: an approval that writes the whole copy back. *)
ApproveWholeDocument(c) ==
    /\ At(c, "approve", "write")
    /\ picture' = [file |-> call[c].target, status |-> "APPROVED"]
    /\ reviewed' = reviewed \cup {call[c].target}
    /\ Done(c)
    /\ UNCHANGED <<gallery, stored, used, lapsed>>

(* save() writes the paths that differ from what was read. *)
ApproveProfilePicture(c) ==
    /\ At(c, "approve", "write")
    /\ picture' = [picture EXCEPT !.status = IF call[c].status = "APPROVED" THEN @ ELSE "APPROVED"]
    /\ reviewed' = reviewed \cup {call[c].target}
    /\ Done(c)
    /\ UNCHANGED <<gallery, stored, used, lapsed>>

StartRejectProfilePicture(c) ==
    /\ picture.file # None
    /\ Starts(c, "reject", "destroy", picture.file, 0)

RejectProfilePicture(c) ==
    /\ At(c, "reject", "write")
    /\ picture' = [file |-> None, status |-> "REJECTED"]
    /\ Done(c)
    /\ UNCHANGED <<gallery, stored, used, reviewed, lapsed>>

-----------------------------------------------------------------------------
(* Any call may throw, and its handler with it. *)
HasDestroyed(c) == call[c].target # None /\ call[c].pc \in {"upload", "write"} /\ call[c].op # "approve"

CallFails(c) ==
    /\ "fail" \in Handlers
    /\ call[c].pc # "idle"
    /\ lapsed' = lapsed \cup {x \in {"failed"} : HasDestroyed(c)}
    /\ Done(c)
    /\ UNCHANGED <<gallery, picture, stored, used, reviewed>>

GallerySteps(c) ==
    \/ StartUpdateGalleryPhotos(c) \/ UpdateGalleryPhotos(c)
    \/ StartDeleteGalleryPhoto(c)  \/ DeleteGalleryPhoto(c)
    \/ StartRejectGalleryPhoto(c)  \/ RejectGalleryPhoto(c) \/ VersionError(c)
    \/ ApproveGalleryPhoto(c)

PictureSteps(c) ==
    \/ StartUpdateProfilePicture(c)  \/ UpdateProfilePicture(c)
    \/ StartDeleteProfilePicture(c)  \/ DeleteProfilePicture(c)
    \/ StartApproveProfilePicture(c) \/ ApproveProfilePicture(c)
    \/ StartRejectProfilePicture(c)  \/ RejectProfilePicture(c)

Next == \E c \in Calls : GallerySteps(c) \/ PictureSteps(c) \/ Destroy(c) \/ Upload(c) \/ CallFails(c)

Spec == Init /\ [][Next]_vars

-----------------------------------------------------------------------------
(* Properties *)

(* However uploads overlap, with one another and with deletions and reviews,
   a gallery never exceeds the limit that updateGalleryPhotos looked at on a
   copy: the array is written back whole, never appended to. *)
GalleryLimit == Cardinality(gallery) <= Limit

(* A member's profile shows the photos marked as approved (the media getters
   also serve those that are not, to whom the visibility admits).  No photo
   carries a mark that no admin gave it (but of an address that is approved
   automatically), though uploads and rejections write back arrays, marks
   included, that they read long before. *)
ApprovedPhotosReviewed ==
    \A p \in gallery : p.status = "APPROVED" => AutoApproved \/ p.id \in reviewed

(* An approval saves the status without looking at the picture again.  The
   approved picture is the one an admin saw, unless an upload wrote between
   the read and the save of an approval. *)
PictureReviewedUnlessReplaced ==
    picture.file # None /\ picture.status = "APPROVED" /\ "replaced" \notin lapsed
        => AutoApproved \/ picture.file \in reviewed

Removing(c, file) ==
    call[c].target = file /\ call[c].pc \in {"upload", "write"} /\ call[c].op # "approve"

(* Every handler deletes the file first and the name of it in the document
   later.  In all interleavings of uploads, deletions and reviews the picture
   the document names is stored or about to be replaced or removed, unless a
   call failed in between. *)
PictureHasFileUnlessFailed ==
    picture.file \in stored \cup {None} \/ "failed" \in lapsed
        \/ \E c \in Calls : Removing(c, picture.file)

(* The same of the photos, as long as no two calls overlapped of which one
   wrote back the whole array. *)
GalleryHasFilesUnlessOverlap ==
    lapsed \cap {"array", "failed"} = {}
        => \A p \in gallery : p.id \in stored \/ \E c \in Calls : Removing(c, p.id)

Added == \E c \in Calls : At(c, "addPhotos", "write") /\ gallery' = gallery \cup NewPhotos(c)
Removed == \E p \in gallery : gallery' = gallery \ {p} /\ \E c \in Calls : Removing(c, p.id)
Approved == \E p \in gallery : gallery' = (gallery \ {p}) \cup {[id |-> p.id, status |-> "APPROVED"]}

(* A step of a handler adds the uploaded photos, removes the one photo it is
   about or approves one, and leaves the other photos and their approvals
   alone, until two calls overlap of which one writes back the whole array. *)
GalleryKeptUnlessOverlap ==
    [][gallery' = gallery \/ Added \/ Removed \/ Approved \/ "array" \in lapsed']_vars

-----------------------------------------------------------------------------
(* The inductive invariant *)

(* What a call uploaded is known to nobody else. *)
Fresh ==
    \A c \in Calls : \A file \in call[c].adding :
        /\ file \in stored
        /\ file \notin Ids(gallery) \cup {picture.file}
        /\ \A d \in Calls : /\ file \notin Ids(call[d].photos) \cup {call[d].target}
                            /\ d # c => file \notin call[d].adding

AllUsed ==
    /\ Ids(gallery) \subseteq used
    /\ picture.file \in used \cup {None}
    /\ \A c \in Calls : /\ Ids(call[c].photos) \subseteq used
                        /\ call[c].target \in used \cup {None}
                        /\ call[c].adding \subseteq used

SmallEnough(photos, count) == IsFiniteSet(photos) /\ Cardinality(photos) + count <= Limit

(* The limit was looked at on a copy, and the copy is what is written. *)
LimitHolds ==
    /\ SmallEnough(gallery, 0)
    /\ \A c \in Calls :
          /\ SmallEnough(call[c].photos, 0)
          /\ call[c].op = "addPhotos" => SmallEnough(call[c].photos, call[c].count)
          /\ At(c, "addPhotos", "write") => /\ IsFiniteSet(call[c].adding)
                                            /\ Cardinality(call[c].adding) = call[c].count

Reviewed(photos) == \A p \in photos : p.status = "APPROVED" => AutoApproved \/ p.id \in reviewed

CopiesReviewed == \A c \in Calls : Reviewed(call[c].photos)

CopiesCurrent ==
    "array" \notin lapsed =>
        \A c \in Calls : call[c].op \in ArrayWriters => call[c].photos = gallery /\ ~call[c].outdated

ApprovalsCurrent ==
    "replaced" \notin lapsed =>
        \A c \in Calls : call[c].op = "approve" => picture.file \in {call[c].target, None}

(* What a call carries through each operation. *)
CallShape(k) ==
    /\ k.pc = "idle" <=> k.op = "none"
    /\ k.pc = "idle" => k = Idle
    /\ k.pc = "destroy" => k.op \in {"deletePhoto", "rejectPhoto", "update", "delete", "reject"}
                           /\ k.target # None
    /\ k.pc = "upload" => k.op \in {"addPhotos", "update"}
    /\ k.op = "addPhotos" => k.target = None /\ k.adding \subseteq Photos
    /\ k.op \in {"deletePhoto", "rejectPhoto"} => k.target \in Photos
    /\ k.op \in {"delete", "approve", "reject"} => k.target \in Pictures
    /\ k.op = "update" => k.target \in Pictures \cup {None} /\ k.adding \subseteq Pictures
    /\ k.adding # {} => k.pc = "write"
    /\ OnePhotoPerId(k.photos)

Shape == OnePhotoPerId(gallery) /\ \A c \in Calls : CallShape(call[c])

MediaInv ==
    /\ TypeOK
    /\ Fresh /\ AllUsed /\ LimitHolds
    /\ ApprovedPhotosReviewed /\ CopiesReviewed /\ CopiesCurrent /\ ApprovalsCurrent /\ Shape
    /\ PictureReviewedUnlessReplaced /\ PictureHasFileUnlessFailed /\ GalleryHasFilesUnlessOverlap

(* An approval that found the picture approved leaves it so. *)
ApprovalsStand ==
    "replaced" \notin lapsed =>
        \A c \in Calls : call[c].op = "approve" /\ call[c].status = "APPROVED" /\ picture.file # None
                           => picture.status = "APPROVED"

-----------------------------------------------------------------------------
(* The handlers, acting on copies and files step by step, do to the document
   what handlers that act at once would do, but for what has overlapped. *)
AtOnce == INSTANCE MemberMedia
ImplementsMemberMedia == AtOnce!Spec

=============================================================================
