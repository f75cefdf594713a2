---------------------------- MODULE MediaProofs ----------------------------
(***************************************************************************)
(* Media: the limit of the gallery, the review of what is marked as        *)
(* approved and the agreement of the document with Cloudinary, for any     *)
(* number of files and concurrent calls and any limit.                     *)
(***************************************************************************)
EXTENDS Media, FiniteSetTheorems, TLAPS

Step(c) == GallerySteps(c) \/ PictureSteps(c) \/ Destroy(c) \/ Upload(c) \/ CallFails(c)

USE DEF GalleryOps, PictureOps, ArrayWriters

LEMMA IdleTyped == Idle \in Locals
BY MediaAssumption DEF Idle, Locals

LEMMA TypeInit == Init => TypeOK
BY IdleTyped DEF Init, TypeOK

(* An entry changes the call in its slot and nothing else. *)
LEMMA StartTyped ==
    ASSUME TypeOK, NEW c \in Calls, NEW op \in GalleryOps \cup PictureOps,
           NEW pc \in {"destroy", "upload", "write"}, NEW target \in Files \cup {None},
           NEW count \in 0..Limit, Starts(c, op, pc, target, count)
    PROVE  TypeOK'
BY MediaAssumption DEF Starts, TypeOK, Locals, Idle

LEMMA DoneTyped ==
    ASSUME TypeOK, NEW c \in Calls, Done(c)
    PROVE  call' \in [Calls -> Locals]
BY IdleTyped DEF Done, TypeOK

LEMMA TypeStep ==
    ASSUME TypeOK, Shape, NEW c \in Calls, Step(c)
    PROVE  TypeOK'
<1>1. CASE StartUpdateGalleryPhotos(c)
  BY <1>1, StartTyped, MediaAssumption DEF StartUpdateGalleryPhotos
<1>2. CASE UpdateGalleryPhotos(c)
  <2>1. NewPhotos(c) \subseteq Photo
    BY <1>2 DEF NewPhotos, Photo, UpdateGalleryPhotos, At, Shape, CallShape, UploadStatus
  <2>2. call[c].photos \subseteq Photo
    BY DEF TypeOK, Locals
  <2> QED BY <1>2, <2>1, <2>2, DoneTyped DEF UpdateGalleryPhotos, TypeOK, ArrayChanges
<1>3. CASE StartDeleteGalleryPhoto(c)
  BY <1>3, StartTyped, MediaAssumption DEF StartDeleteGalleryPhoto, TypeOK, Photo, Files
<1>4. CASE DeleteGalleryPhoto(c)
  BY <1>4, DoneTyped DEF DeleteGalleryPhoto, TypeOK, ArrayChanges, At
<1>5. CASE StartRejectGalleryPhoto(c)
  BY <1>5, StartTyped, MediaAssumption DEF StartRejectGalleryPhoto, TypeOK, Photo, Files
<1>6. CASE RejectGalleryPhoto(c)
  <2>1. \A d \in Calls : [call[d] EXCEPT !.outdated = TRUE] \in Locals
    BY DEF TypeOK, Locals
  <2>2. call[c].photos \subseteq Photo
    BY DEF TypeOK, Locals
  <2> QED BY <1>6, <2>1, <2>2, IdleTyped DEF RejectGalleryPhoto, TypeOK, ArrayChanges
<1>7. CASE VersionError(c)
  BY <1>7, DoneTyped DEF VersionError, TypeOK
<1>8. CASE ApproveGalleryPhoto(c)
  BY <1>8 DEF ApproveGalleryPhoto, TypeOK, ArrayChanges, Photo, Files
<1>9. CASE StartUpdateProfilePicture(c)
  <2>1. 1 \in 0..Limit
    BY MediaAssumption
  <2> QED BY <1>9, <2>1, StartTyped DEF StartUpdateProfilePicture, TypeOK, Files
<1>10. CASE UpdateProfilePicture(c)
  <2>1. PICK file \in Pictures : picture' = [file |-> file, status |-> UploadStatus]
    BY <1>10 DEF UpdateProfilePicture, At, Shape, CallShape
  <2>2. UploadStatus \in {"PENDING", "APPROVED", "REJECTED"}
    BY DEF UploadStatus
  <2>3. picture' \in [file : Pictures \cup {None}, status : {"PENDING", "APPROVED", "REJECTED"}]
    BY <2>1, <2>2
  <2> QED BY <1>10, <2>3, DoneTyped DEF UpdateProfilePicture, TypeOK
<1>11. CASE StartDeleteProfilePicture(c)
  BY <1>11, StartTyped, MediaAssumption DEF StartDeleteProfilePicture, TypeOK, Files
<1>12. CASE DeleteProfilePicture(c)
  BY <1>12, DoneTyped DEF DeleteProfilePicture, TypeOK
<1>13. CASE StartApproveProfilePicture(c)
  BY <1>13, StartTyped, MediaAssumption DEF StartApproveProfilePicture, TypeOK, Files
<1>14. CASE ApproveProfilePicture(c)
  BY <1>14, DoneTyped DEF ApproveProfilePicture, TypeOK, At, Shape, CallShape, Files
<1>15. CASE StartRejectProfilePicture(c)
  BY <1>15, StartTyped, MediaAssumption DEF StartRejectProfilePicture, TypeOK, Files
<1>16. CASE RejectProfilePicture(c)
  BY <1>16, DoneTyped DEF RejectProfilePicture, TypeOK
<1>17. CASE Destroy(c)
  BY <1>17 DEF Destroy, Goes, TypeOK, Locals
<1>18. CASE Upload(c)
  <2>1. PICK new \in SUBSET Files : /\ stored' = stored \cup new
                                    /\ used' = used \cup new
                                    /\ call' = [call EXCEPT ![c].pc = "write", ![c].adding = new]
    BY <1>18 DEF Upload, Files
  <2>2. call' \in [Calls -> Locals]
    <3>1. call[c] \in Locals
      BY DEF TypeOK
    <3>2. [call[c] EXCEPT !.pc = "write", !.adding = new] \in Locals
      BY <3>1 DEF Locals
    <3>3. call' = [call EXCEPT ![c] = [call[c] EXCEPT !.pc = "write", !.adding = new]]
      BY <2>1 DEF TypeOK
    <3> QED BY <3>2, <3>3 DEF TypeOK
  <2> QED BY <1>18, <2>1, <2>2 DEF Upload, TypeOK
<1>19. CASE CallFails(c)
  BY <1>19, DoneTyped DEF CallFails, TypeOK
<1> QED
  BY <1>1, <1>2, <1>3, <1>4, <1>5, <1>6, <1>7, <1>8, <1>9, <1>10, <1>11, <1>12, <1>13, <1>14,
     <1>15, <1>16, <1>17, <1>18, <1>19 DEF Step, GallerySteps, PictureSteps
-----------------------------------------------------------------------------
(* What a step may change *)

LEMMA GalleryEffect ==
    ASSUME NEW c \in Calls, Step(c)
    PROVE  \/ gallery' = gallery
           \/ UpdateGalleryPhotos(c) \/ DeleteGalleryPhoto(c)
           \/ RejectGalleryPhoto(c) \/ ApproveGalleryPhoto(c)
BY DEF Step, GallerySteps, PictureSteps, Starts, StartUpdateGalleryPhotos, StartDeleteGalleryPhoto,
       StartRejectGalleryPhoto, VersionError, StartUpdateProfilePicture, UpdateProfilePicture,
       StartDeleteProfilePicture, DeleteProfilePicture, StartApproveProfilePicture,
       ApproveProfilePicture, StartRejectProfilePicture, RejectProfilePicture, Destroy, Upload, CallFails

LEMMA PictureEffect ==
    ASSUME NEW c \in Calls, Step(c)
    PROVE  \/ picture' = picture
           \/ UpdateProfilePicture(c) \/ DeleteProfilePicture(c)
           \/ ApproveProfilePicture(c) \/ RejectProfilePicture(c)
BY DEF Step, GallerySteps, PictureSteps, Starts, StartUpdateGalleryPhotos, StartDeleteGalleryPhoto,
       StartRejectGalleryPhoto, UpdateGalleryPhotos, DeleteGalleryPhoto, RejectGalleryPhoto,
       VersionError, ApproveGalleryPhoto, StartUpdateProfilePicture, StartDeleteProfilePicture,
       StartApproveProfilePicture, StartRejectProfilePicture, Destroy, Upload, CallFails

LEMMA FilesEffect ==
    ASSUME NEW c \in Calls, Step(c)
    PROVE  (stored' = stored /\ used' = used) \/ Destroy(c) \/ Upload(c)
BY DEF Step, GallerySteps, PictureSteps, Starts, StartUpdateGalleryPhotos, StartDeleteGalleryPhoto,
       StartRejectGalleryPhoto, UpdateGalleryPhotos, DeleteGalleryPhoto, RejectGalleryPhoto,
       VersionError, ApproveGalleryPhoto, StartUpdateProfilePicture, UpdateProfilePicture,
       StartDeleteProfilePicture, DeleteProfilePicture, StartApproveProfilePicture,
       ApproveProfilePicture, StartRejectProfilePicture, RejectProfilePicture, CallFails

LEMMA HistoryGrows ==
    ASSUME NEW c \in Calls, Step(c)
    PROVE  lapsed \subseteq lapsed' /\ reviewed \subseteq reviewed'
BY DEF Step, GallerySteps, PictureSteps, Starts, StartUpdateGalleryPhotos, StartDeleteGalleryPhoto,
       StartRejectGalleryPhoto, UpdateGalleryPhotos, DeleteGalleryPhoto, RejectGalleryPhoto,
       VersionError, ApproveGalleryPhoto, StartUpdateProfilePicture, UpdateProfilePicture,
       StartDeleteProfilePicture, DeleteProfilePicture, StartApproveProfilePicture,
       ApproveProfilePicture, StartRejectProfilePicture, RejectProfilePicture, CallFails,
       Destroy, Upload, ArrayChanges

(* An entry knows the gallery and is about one of its photos or the picture. *)
MayEnter(op, pc, target, count) ==
    /\ pc \in {"destroy", "upload"} \/ op = "approve"
    /\ pc = "destroy" => op \in {"deletePhoto", "rejectPhoto", "update", "delete", "reject"} /\ target # None
    /\ pc = "upload" => op \in {"addPhotos", "update"}
    /\ op = "addPhotos" => target = None /\ Cardinality(gallery) + count <= Limit
    /\ op \in {"deletePhoto", "rejectPhoto"} => target \in Ids(gallery)
    /\ op \in {"delete", "approve", "reject"} => target = picture.file /\ target # None
    /\ op = "update" => target = picture.file
    /\ count \in 0..Limit

Entered(c) ==
    /\ call[c].pc = "idle" /\ call' = [call EXCEPT ![c] = call'[c]]
    /\ call'[c].op \in GalleryOps \cup PictureOps
    /\ call'[c].pc \in {"destroy", "upload", "write"}
    /\ MayEnter(call'[c].op, call'[c].pc, call'[c].target, call'[c].count)
    /\ call'[c].adding = {} /\ ~call'[c].outdated
    /\ call'[c].photos = IF call'[c].op \in ArrayWriters THEN gallery ELSE {}
    /\ call'[c].target \in Ids(gallery) \cup {picture.file, None}
    /\ call'[c].op = "approve" => call'[c].status = picture.status
    /\ gallery' = gallery /\ picture' = picture /\ stored' = stored /\ used' = used
    /\ reviewed' = reviewed /\ lapsed' = lapsed

LEMMA StartEnters ==
    ASSUME TypeOK, NEW c \in Calls, NEW op \in GalleryOps \cup PictureOps,
           NEW pc \in {"destroy", "upload", "write"}, NEW target, NEW count,
           MayEnter(op, pc, target, count), Starts(c, op, pc, target, count)
    PROVE  Entered(c)
<1>1. /\ call'[c].op = op /\ call'[c].pc = pc /\ call'[c].target = target /\ call'[c].count = count
      /\ call'[c].adding = {} /\ ~call'[c].outdated
      /\ call'[c].photos = IF op \in ArrayWriters THEN gallery ELSE {}
      /\ op = "approve" => call'[c].status = picture.status
      /\ call[c].pc = "idle" /\ call' = [call EXCEPT ![c] = call'[c]]
  BY DEF Starts, TypeOK, Idle
<1>2. target \in Ids(gallery) \cup {picture.file, None}
  BY DEF MayEnter
<1>3. MayEnter(call'[c].op, call'[c].pc, call'[c].target, call'[c].count)
  BY <1>1
<1> QED BY <1>1, <1>2, <1>3 DEF Entered, Starts

LEMMA CallEffect ==
    ASSUME TypeOK, NEW c \in Calls, Step(c)
    PROVE  \/ Entered(c) \/ Done(c) \/ RejectGalleryPhoto(c) \/ call' = call
           \/ Destroy(c) \/ Upload(c)
<1>1. CASE StartUpdateGalleryPhotos(c)
  <2>1. PICK n \in 1..Limit : Cardinality(gallery) + n <= Limit /\ Starts(c, "addPhotos", "upload", None, n)
    BY <1>1 DEF StartUpdateGalleryPhotos
  <2>2. MayEnter("addPhotos", "upload", None, n)
    BY <2>1, MediaAssumption DEF MayEnter
  <2> QED BY <2>1, <2>2, StartEnters
<1>2. CASE StartDeleteGalleryPhoto(c) \/ StartRejectGalleryPhoto(c)
  <2>1. PICK p \in gallery, op \in {"deletePhoto", "rejectPhoto"} : Starts(c, op, "destroy", p.id, 0)
    BY <1>2 DEF StartDeleteGalleryPhoto, StartRejectGalleryPhoto
  <2>2. p.id \in Photos /\ p.id # None
    BY MediaAssumption DEF TypeOK, Photo
  <2>3. MayEnter(op, "destroy", p.id, 0)
    BY <2>1, <2>2, MediaAssumption DEF MayEnter, Ids
  <2> QED BY <2>1, <2>3, StartEnters
<1>3. CASE StartUpdateProfilePicture(c)
  <2>1. MayEnter("update", IF picture.file = None THEN "upload" ELSE "destroy", picture.file, 1)
    BY MediaAssumption DEF MayEnter
  <2> QED BY <1>3, <2>1, StartEnters DEF StartUpdateProfilePicture
<1>4. CASE StartDeleteProfilePicture(c) \/ StartApproveProfilePicture(c) \/ StartRejectProfilePicture(c)
  <2>1. PICK op \in {"delete", "approve", "reject"} :
          picture.file # None
          /\ Starts(c, op, IF op = "approve" THEN "write" ELSE "destroy", picture.file, 0)
    BY <1>4 DEF StartDeleteProfilePicture, StartApproveProfilePicture, StartRejectProfilePicture
  <2>2. MayEnter(op, IF op = "approve" THEN "write" ELSE "destroy", picture.file, 0)
    BY <2>1, MediaAssumption DEF MayEnter
  <2> QED BY <2>1, <2>2, StartEnters
<1> QED
  BY <1>1, <1>2, <1>3, <1>4 DEF Step, GallerySteps, PictureSteps, UpdateGalleryPhotos,
     DeleteGalleryPhoto, VersionError, ApproveGalleryPhoto, UpdateProfilePicture,
     DeleteProfilePicture, ApproveProfilePicture, RejectProfilePicture, CallFails

(* The other calls stand still, or learn that their copy is outdated. *)
LEMMA Others ==
    ASSUME TypeOK, NEW c \in Calls, Step(c), NEW d \in Calls, d # c
    PROVE  /\ call'[d] = call[d] \/ RejectGalleryPhoto(c)
           /\ call'[d].pc = call[d].pc /\ call'[d].op = call[d].op
           /\ call'[d].photos = call[d].photos /\ call'[d].target = call[d].target
           /\ call'[d].count = call[d].count /\ call'[d].adding = call[d].adding
           /\ call'[d].status = call[d].status
<1>1. call[d] \in Locals
  BY DEF TypeOK
<1>2. CASE RejectGalleryPhoto(c)
  BY <1>1, <1>2 DEF RejectGalleryPhoto, Locals
<1>3. CASE ~RejectGalleryPhoto(c)
  <2>1. call'[d] = call[d]
    BY <1>3, CallEffect DEF TypeOK, Entered, Done, Destroy, Upload, Goes
  <2> QED BY <2>1
<1> QED BY <1>2, <1>3

(* Where a call stands after its own step. *)
LEMMA Own ==
    ASSUME TypeOK, NEW c \in Calls, Step(c)
    PROVE  \/ Entered(c)
           \/ call'[c] = Idle
           \/ call'[c] = call[c]
           \/ Destroy(c) /\ call'[c] = [call[c] EXCEPT !.pc = IF call[c].op = "update" THEN "upload" ELSE "write"]
           \/ Upload(c) /\ call'[c] = [call[c] EXCEPT !.pc = "write", !.adding = call'[c].adding]
<1>1. CASE RejectGalleryPhoto(c)
  BY <1>1 DEF RejectGalleryPhoto
<1>2. CASE Destroy(c)
  BY <1>2 DEF Destroy, Goes, TypeOK
<1>3. CASE Upload(c)
  <2>1. PICK new : call' = [call EXCEPT ![c].pc = "write", ![c].adding = new]
    BY <1>3 DEF Upload
  <2>2. call'[c] = [call[c] EXCEPT !.pc = "write", !.adding = new]
    BY <2>1 DEF TypeOK
  <2>3. call[c] \in Locals
    BY DEF TypeOK
  <2>4. call'[c].adding = new
    BY <2>2, <2>3 DEF Locals
  <2> QED BY <1>3, <2>2, <2>4
<1> QED BY <1>1, <1>2, <1>3, CallEffect DEF Done, TypeOK
-----------------------------------------------------------------------------
(* What is known has been uploaded; what was just uploaded is not known *)

(* Only a call's own upload adds to what it has uploaded. *)
LEMMA AddingEffect ==
    ASSUME TypeOK, Shape, NEW c \in Calls, Step(c), NEW d \in Calls, NEW file \in call'[d].adding
    PROVE  \/ file \in call[d].adding /\ call'[d] = call[d]
           \/ file \in call[d].adding /\ d # c /\ RejectGalleryPhoto(c)
           \/ d = c /\ Upload(c) /\ file \in Files /\ file \notin used
              /\ used' = used \cup call'[c].adding /\ stored' = stored \cup call'[c].adding
<1>1. CASE d # c
  BY <1>1, Others
<1>2. CASE d = c /\ Upload(c)
  <2>1. PICK new \in SUBSET Files : /\ new \cap used = {}
                                    /\ stored' = stored \cup new
                                    /\ used' = used \cup new
                                    /\ call' = [call EXCEPT ![c].pc = "write", ![c].adding = new]
    BY <1>2 DEF Upload, Files
  <2>2. call'[c].adding = new
    <3>1. call[c] \in Locals
      BY DEF TypeOK
    <3> QED BY <2>1, <3>1 DEF TypeOK, Locals
  <2> QED BY <1>2, <2>1, <2>2
<1>3. CASE d = c /\ Destroy(c)
  <2>1. call[c] \in Locals /\ call'[c].adding = call[c].adding
    BY <1>3 DEF Destroy, Goes, TypeOK, Locals
  <2>2. call[c].adding = {}
    BY <1>3, <2>1 DEF Destroy, Shape, CallShape
  <2> QED BY <1>3, <2>1, <2>2
<1>4. CASE d = c /\ ~Upload(c) /\ ~Destroy(c)
  <2>1. Entered(c) \/ call'[c] = Idle \/ call'[c] = call[c]
    BY <1>4, Own
  <2>2. Entered(c) \/ call'[c] = Idle => call'[c].adding = {}
    BY DEF Entered, Idle
  <2> QED BY <1>4, <2>1, <2>2
<1> QED BY <1>1, <1>2, <1>3, <1>4

(* ... and a call's copy and target come from the document. *)
LEMMA CopyEffect ==
    ASSUME TypeOK, NEW c \in Calls, Step(c), NEW d \in Calls
    PROVE  /\ \/ call'[d].photos = call[d].photos
              \/ call'[d].photos = {}
              \/ call'[d].photos = gallery /\ Entered(c) /\ d = c
           /\ \/ call'[d].target = call[d].target
              \/ call'[d].target = None
              \/ call'[d].target \in Ids(gallery) \cup {picture.file} /\ Entered(c) /\ d = c
<1>1. CASE d # c
  BY <1>1, Others
<1>2. CASE d = c
  <2>1. call[c] \in Locals
    BY DEF TypeOK
  <2>2. CASE Entered(c)
    BY <1>2, <2>2 DEF Entered
  <2>3. CASE call'[c] = Idle
    BY <1>2, <2>3 DEF Idle
  <2>4. CASE call'[c] = call[c]
    BY <1>2, <2>4
  <2>5. CASE Destroy(c) \/ Upload(c)
    <3>1. call'[c].photos = call[c].photos /\ call'[c].target = call[c].target
      BY <2>1, <2>5 DEF Destroy, Upload, Goes, TypeOK, Locals
    <3> QED BY <1>2, <3>1
  <2> QED BY <2>2, <2>3, <2>4, <2>5, Own
<1> QED BY <1>1, <1>2

(* The gallery a step leaves holds photos it held, a call's copy and that
   call's uploads. *)
LEMMA GallerySources ==
    ASSUME TypeOK, NEW c \in Calls, Step(c), NEW p \in gallery'
    PROVE  \/ p.id \in Ids(gallery)
           \/ p \in call[c].photos /\ call'[c] = Idle
           \/ p.id \in call[c].adding /\ call'[c] = Idle
<1>1. CASE UpdateGalleryPhotos(c)
  BY <1>1 DEF UpdateGalleryPhotos, NewPhotos, Done, TypeOK
<1>2. CASE DeleteGalleryPhoto(c)
  BY <1>2 DEF DeleteGalleryPhoto, Ids
<1>3. CASE RejectGalleryPhoto(c)
  BY <1>3 DEF RejectGalleryPhoto
<1>4. CASE ApproveGalleryPhoto(c)
  BY <1>4 DEF ApproveGalleryPhoto, Ids, TypeOK, Photo
<1>5. CASE gallery' = gallery
  BY <1>5 DEF Ids
<1> QED BY <1>1, <1>2, <1>3, <1>4, <1>5, GalleryEffect

LEMMA PictureSources ==
    ASSUME TypeOK, NEW c \in Calls, Step(c)
    PROVE  \/ picture'.file = picture.file
           \/ picture'.file = None
           \/ picture'.file \in call[c].adding /\ call'[c] = Idle
BY PictureEffect DEF UpdateProfilePicture, DeleteProfilePicture, ApproveProfilePicture,
   RejectProfilePicture, Done, TypeOK

LEMMA AllUsedStep ==
    ASSUME TypeOK, Shape, AllUsed, NEW c \in Calls, Step(c)
    PROVE  AllUsed'
<1>1. used \subseteq used'
  BY FilesEffect DEF Destroy, Upload
<1>2. \A d \in Calls : /\ Ids(call[d].photos) \subseteq used /\ call[d].target \in used \cup {None}
                        /\ call[d].adding \subseteq used
  BY DEF AllUsed
<1>3. Ids(gallery) \subseteq used /\ picture.file \in used \cup {None}
  BY DEF AllUsed
<1>4. Ids(gallery)' \subseteq used'
  BY <1>1, <1>2, <1>3, GallerySources DEF Ids
<1>5. picture'.file \in used' \cup {None}
  BY <1>1, <1>2, <1>3, PictureSources
<1>6. ASSUME NEW d \in Calls
      PROVE  /\ Ids(call'[d].photos) \subseteq used' /\ call'[d].target \in used' \cup {None}
             /\ call'[d].adding \subseteq used'
  <2>1. Ids(call'[d].photos) \subseteq used'
    BY <1>1, <1>2, <1>3, CopyEffect DEF Ids
  <2>2. call'[d].target \in used' \cup {None}
    BY <1>1, <1>2, <1>3, CopyEffect
  <2>3. call'[d].adding \subseteq used'
    BY <1>1, <1>2, AddingEffect
  <2> QED BY <2>1, <2>2, <2>3
<1> QED BY <1>4, <1>5, <1>6 DEF AllUsed
LEMMA FreshStep ==
    ASSUME TypeOK, Shape, AllUsed, Fresh, NEW c \in Calls, Step(c)
    PROVE  Fresh'
<1> SUFFICES ASSUME NEW d \in Calls, NEW file \in call'[d].adding
             PROVE  /\ file \in stored'
                    /\ file \notin Ids(gallery') /\ file # picture'.file
                    /\ \A e \in Calls : /\ file \notin Ids(call'[e].photos) /\ file # call'[e].target
                                        /\ e # d => file \notin call'[e].adding
  BY DEF Fresh, Ids
<1>1. Ids(gallery) \subseteq used /\ picture.file \in used \cup {None}
  BY DEF AllUsed
<1>2. \A e \in Calls : /\ Ids(call[e].photos) \subseteq used /\ call[e].target \in used \cup {None}
                        /\ call[e].adding \subseteq used
  BY DEF AllUsed
<1>3. None \notin Files
  BY MediaAssumption DEF Files
<1>4. CASE file \in call[d].adding /\ (call'[d] = call[d] \/ d # c)
  <2>1. /\ file \in stored /\ file \notin Ids(gallery) /\ file # picture.file
        /\ \A e \in Calls : /\ file \notin Ids(call[e].photos) /\ file # call[e].target
                            /\ e # d => file \notin call[e].adding
    BY <1>4 DEF Fresh
  <2>2. file \in used /\ file # None
    BY <1>2, <1>3, <1>4, <2>1 DEF TypeOK
  <2>3. file \notin Ids(call[c].photos) /\ file # call[c].target /\ (c # d => file \notin call[c].adding)
    BY <2>1
  <2>4. call'[c] = Idle => file \notin call[c].adding
    <3>1. CASE c = d
      <4>1. call'[c] = Idle => call'[d].adding = {}
        BY <3>1 DEF Idle
      <4> QED BY <4>1
    <3> QED BY <2>3, <3>1
  <2>5. file \in stored'
    <3>1. (stored' = stored /\ used' = used) \/ Destroy(c) \/ Upload(c)
      BY FilesEffect
    <3>2. Destroy(c) => stored' = stored \/ stored' = stored \ {call[c].target}
      BY DEF Destroy
    <3>3. Upload(c) => stored \subseteq stored'
      BY DEF Upload
    <3> QED BY <2>1, <2>3, <3>1, <3>2, <3>3
  <2>6. file \notin Ids(gallery')
    <3> SUFFICES ASSUME NEW p \in gallery' PROVE p.id # file
      BY DEF Ids
    <3>1. \/ p.id \in Ids(gallery)
          \/ p \in call[c].photos
          \/ p.id \in call[c].adding /\ call'[c] = Idle
      BY GallerySources
    <3>2. p \in call[c].photos => p.id \in Ids(call[c].photos)
      BY DEF Ids
    <3> QED BY <2>1, <2>3, <2>4, <3>1, <3>2
  <2>7. file # picture'.file
    BY <2>1, <2>2, <2>4, PictureSources
  <2>8. ASSUME NEW e \in Calls
        PROVE  file \notin Ids(call'[e].photos) /\ file # call'[e].target
    <3>1. file \notin Ids(call[e].photos) /\ file # call[e].target
      BY <2>1
    <3>2. Ids({}) = {}
      BY DEF Ids
    <3>3. file \notin Ids(call'[e].photos)
      BY <2>1, <3>1, <3>2, CopyEffect
    <3>4. file # call'[e].target
      BY <2>1, <2>2, <3>1, CopyEffect
    <3> QED BY <3>3, <3>4
  <2>9. ASSUME NEW e \in Calls, e # d PROVE file \notin call'[e].adding
    <3>1. file \notin call[e].adding
      BY <2>1, <2>9
    <3> QED BY <2>2, <3>1, AddingEffect
  <2> QED BY <2>5, <2>6, <2>7, <2>8, <2>9
<1>5. CASE d = c /\ Upload(c) /\ file \in Files /\ file \notin used /\ stored' = stored \cup call'[c].adding
  <2>1. file # None
    BY <1>3, <1>5
  <2>2. gallery' = gallery /\ picture' = picture
    BY <1>5 DEF Upload
  <2>3. ASSUME NEW e \in Calls
        PROVE  file \notin Ids(call'[e].photos) /\ file # call'[e].target
    BY <1>1, <1>2, <1>5, <2>1, CopyEffect DEF Ids
  <2>4. ASSUME NEW e \in Calls, e # d PROVE file \notin call'[e].adding
    BY <1>2, <1>5, <2>4, AddingEffect
  <2> QED BY <1>1, <1>5, <2>1, <2>2, <2>3, <2>4
<1> QED BY <1>4, <1>5, AddingEffect
-----------------------------------------------------------------------------
(* Shape *)

LEMMA GalleryOnePerId ==
    ASSUME TypeOK, Shape, Fresh, NEW c \in Calls, Step(c)
    PROVE  OnePhotoPerId(gallery')
<1> SUFFICES ASSUME NEW p \in gallery', NEW q \in gallery', p.id = q.id PROVE p = q
  BY DEF OnePhotoPerId
<1>1. OnePhotoPerId(gallery) /\ OnePhotoPerId(call[c].photos)
  BY DEF Shape, CallShape
<1>2. CASE UpdateGalleryPhotos(c)
  <2>1. gallery' = call[c].photos \cup NewPhotos(c)
    BY <1>2 DEF UpdateGalleryPhotos
  <2>2. \A x \in NewPhotos(c) : x.id \in call[c].adding /\ x = [id |-> x.id, status |-> UploadStatus]
    BY DEF NewPhotos
  <2>3. \A x \in call[c].photos : x.id \notin call[c].adding
    BY DEF Fresh, Ids
  <2> QED BY <1>1, <2>1, <2>2, <2>3 DEF OnePhotoPerId
<1>3. CASE DeleteGalleryPhoto(c)
  BY <1>1, <1>3 DEF DeleteGalleryPhoto, OnePhotoPerId
<1>4. CASE RejectGalleryPhoto(c)
  BY <1>1, <1>4 DEF RejectGalleryPhoto, OnePhotoPerId
<1>5. CASE ApproveGalleryPhoto(c)
  <2>1. PICK r \in gallery : gallery' = (gallery \ {r}) \cup {[r EXCEPT !.status = "APPROVED"]}
    BY <1>5 DEF ApproveGalleryPhoto
  <2>2. r \in Photo /\ [r EXCEPT !.status = "APPROVED"].id = r.id
    BY DEF TypeOK, Photo
  <2> QED BY <1>1, <2>1, <2>2 DEF OnePhotoPerId
<1>6. CASE gallery' = gallery
  BY <1>1, <1>6 DEF OnePhotoPerId
<1> QED BY <1>2, <1>3, <1>4, <1>5, <1>6, GalleryEffect

LEMMA ShapeStep ==
    ASSUME TypeOK, Shape, Fresh, NEW c \in Calls, Step(c)
    PROVE  Shape'
<1>1. ASSUME NEW d \in Calls, d # c PROVE CallShape(call'[d])
  <2>1. CallShape(call[d]) /\ call[d] \in Locals
    BY DEF Shape, TypeOK
  <2>2. CASE call'[d] = call[d]
    BY <2>1, <2>2
  <2>3. CASE RejectGalleryPhoto(c)
    <3>1. call[d] = Idle => call'[d] = Idle
      BY <1>1, <2>3 DEF RejectGalleryPhoto, Idle
    <3>2. /\ call'[d].pc = call[d].pc /\ call'[d].op = call[d].op /\ call'[d].target = call[d].target
          /\ call'[d].photos = call[d].photos /\ call'[d].adding = call[d].adding
      BY <1>1, Others
    <3> QED BY <2>1, <3>1, <3>2 DEF CallShape
  <2> QED BY <1>1, <2>2, <2>3, Others
<1>2. CallShape(call'[c])
  <2>1. CallShape(call[c]) /\ call[c] \in Locals
    BY DEF Shape, TypeOK
  <2>2. CASE Entered(c)
    <3>1. OnePhotoPerId(gallery) /\ OnePhotoPerId({})
      BY DEF Shape, OnePhotoPerId
    <3>2. Ids(gallery) \subseteq Photos /\ picture.file \in Pictures \cup {None}
      BY DEF Ids, TypeOK, Photo
    <3>3. OnePhotoPerId(call'[c].photos)
      BY <2>2, <3>1 DEF Entered
    <3> QED BY <2>2, <3>2, <3>3 DEF Entered, MayEnter, CallShape
  <2>3. CASE call'[c] = Idle
    BY <2>3 DEF CallShape, Idle, OnePhotoPerId
  <2>4. CASE call'[c] = call[c]
    BY <2>1, <2>4
  <2>5. CASE Destroy(c)
    <3>1. /\ call'[c].pc = IF call[c].op = "update" THEN "upload" ELSE "write"
          /\ call[c].pc = "destroy"
          /\ call'[c].op = call[c].op /\ call'[c].target = call[c].target
          /\ call'[c].photos = call[c].photos /\ call'[c].adding = call[c].adding
      BY <2>1, <2>5 DEF Destroy, Goes, TypeOK, Locals
    <3> QED BY <2>1, <3>1 DEF CallShape
  <2>6. CASE Upload(c)
    <3>1. PICK new \in SUBSET ((IF call[c].op = "update" THEN Pictures ELSE Photos) \ used) :
            call' = [call EXCEPT ![c].pc = "write", ![c].adding = new]
      BY <2>6 DEF Upload
    <3>2. /\ call'[c].pc = "write" /\ call'[c].adding = new
          /\ call'[c].op = call[c].op /\ call'[c].target = call[c].target
          /\ call'[c].photos = call[c].photos
      BY <2>1, <3>1 DEF TypeOK, Locals
    <3>3. call[c].pc = "upload"
      BY <2>6 DEF Upload
    <3> QED BY <2>1, <3>1, <3>2, <3>3 DEF CallShape
  <2> QED BY <2>2, <2>3, <2>4, <2>5, <2>6, Own
<1> QED BY <1>1, <1>2, GalleryOnePerId DEF Shape, OnePhotoPerId, CallShape
-----------------------------------------------------------------------------
(* The limit *)

LEMMA SmallerStillSmall ==
    ASSUME NEW S, SmallEnough(S, 0), NEW T \in SUBSET S
    PROVE  SmallEnough(T, 0)
BY FS_Subset, FS_CardinalityType, MediaAssumption DEF SmallEnough

LEMMA ReplacedStillSmall ==
    ASSUME NEW S, SmallEnough(S, 0), NEW x \in S, NEW y
    PROVE  SmallEnough((S \ {x}) \cup {y}, 0)
<1>1. IsFiniteSet(S) /\ Cardinality(S) \in Nat /\ Cardinality(S) <= Limit
  BY FS_CardinalityType DEF SmallEnough
<1>2. IsFiniteSet(S \ {x}) /\ Cardinality(S \ {x}) = Cardinality(S) - 1
  BY <1>1, FS_RemoveElement
<1>3. IsFiniteSet((S \ {x}) \cup {y}) /\ Cardinality((S \ {x}) \cup {y}) \in Nat
  BY <1>2, FS_AddElement, FS_CardinalityType
<1>4. \/ Cardinality((S \ {x}) \cup {y}) = Cardinality(S \ {x})
      \/ Cardinality((S \ {x}) \cup {y}) = Cardinality(S \ {x}) + 1
  BY <1>2, FS_AddElement
<1> QED BY <1>1, <1>2, <1>3, <1>4, MediaAssumption DEF SmallEnough

LEMMA UnionSmall ==
    ASSUME NEW S, NEW T, NEW n \in Nat, SmallEnough(S, n), IsFiniteSet(T), Cardinality(T) <= n
    PROVE  SmallEnough(S \cup T, 0)
<1>1. IsFiniteSet(S) /\ Cardinality(S) \in Nat /\ Cardinality(T) \in Nat /\ Cardinality(S) + n <= Limit
  BY FS_CardinalityType DEF SmallEnough
<1>2. IsFiniteSet(S \cap T) /\ Cardinality(S \cap T) \in Nat
  BY <1>1, FS_Subset, FS_CardinalityType
<1>3. IsFiniteSet(S \cup T) /\ Cardinality(S \cup T) \in Nat
      /\ Cardinality(S \cup T) = Cardinality(S) + Cardinality(T) - Cardinality(S \cap T)
  BY <1>1, FS_Union, FS_CardinalityType
<1> QED BY <1>1, <1>2, <1>3, MediaAssumption DEF SmallEnough

LEMMA NewPhotosCount ==
    ASSUME NEW c \in Calls, IsFiniteSet(call[c].adding)
    PROVE  IsFiniteSet(NewPhotos(c)) /\ Cardinality(NewPhotos(c)) <= Cardinality(call[c].adding)
<1> DEFINE f == [file \in call[c].adding |-> [id |-> file, status |-> UploadStatus]]
<1>1. f \in Surjection(call[c].adding, NewPhotos(c))
  BY DEF Surjection, NewPhotos
<1> QED BY <1>1, FS_Surjection

LEMMA LimitStep ==
    ASSUME TypeOK, Shape, LimitHolds, NEW c \in Calls, Step(c)
    PROVE  LimitHolds'
<1>1. SmallEnough(gallery', 0)
  <2>1. SmallEnough(gallery, 0) /\ SmallEnough(call[c].photos, 0)
    BY DEF LimitHolds
  <2>2. CASE UpdateGalleryPhotos(c)
    <3>1. /\ SmallEnough(call[c].photos, call[c].count)
          /\ IsFiniteSet(call[c].adding) /\ Cardinality(call[c].adding) = call[c].count
      BY <2>2 DEF UpdateGalleryPhotos, LimitHolds, At
    <3>2. call[c].count \in Nat
      BY MediaAssumption DEF TypeOK, Locals
    <3>3. gallery' = call[c].photos \cup NewPhotos(c)
      BY <2>2 DEF UpdateGalleryPhotos
    <3>4. IsFiniteSet(NewPhotos(c)) /\ Cardinality(NewPhotos(c)) <= call[c].count
      BY <3>1, NewPhotosCount
    <3> QED BY <3>1, <3>2, <3>3, <3>4, UnionSmall
  <2>3. CASE DeleteGalleryPhoto(c)
    <3>1. gallery' \subseteq gallery
      BY <2>3 DEF DeleteGalleryPhoto
    <3> QED BY <2>1, <3>1, SmallerStillSmall
  <2>4. CASE RejectGalleryPhoto(c)
    <3>1. gallery' \subseteq call[c].photos
      BY <2>4 DEF RejectGalleryPhoto
    <3> QED BY <2>1, <3>1, SmallerStillSmall
  <2>5. CASE ApproveGalleryPhoto(c)
    <3>1. PICK p \in gallery : gallery' = (gallery \ {p}) \cup {[p EXCEPT !.status = "APPROVED"]}
      BY <2>5 DEF ApproveGalleryPhoto
    <3> QED BY <2>1, <3>1, ReplacedStillSmall
  <2>6. CASE gallery' = gallery
    BY <2>1, <2>6
  <2> QED BY <2>2, <2>3, <2>4, <2>5, <2>6, GalleryEffect
<1>2. ASSUME NEW d \in Calls
      PROVE  /\ SmallEnough(call'[d].photos, 0)
             /\ call'[d].op = "addPhotos" => SmallEnough(call'[d].photos, call'[d].count)
             /\ call'[d].op = "addPhotos" /\ call'[d].pc = "write"
                   => IsFiniteSet(call'[d].adding) /\ Cardinality(call'[d].adding) = call'[d].count
  <2>1. /\ SmallEnough(call[d].photos, 0)
        /\ call[d].op = "addPhotos" => SmallEnough(call[d].photos, call[d].count)
        /\ call[d].op = "addPhotos" /\ call[d].pc = "write"
              => IsFiniteSet(call[d].adding) /\ Cardinality(call[d].adding) = call[d].count
    BY DEF LimitHolds, At
  <2>2. CASE d # c
    BY <2>1, <2>2, Others
  <2>3. CASE d = c /\ Entered(c)
    <3>1. SmallEnough(gallery, 0) /\ SmallEnough({}, 0)
      BY FS_EmptySet, MediaAssumption DEF LimitHolds, SmallEnough
    <3>2. call'[c].op = "addPhotos" => Cardinality(gallery) + call'[c].count <= Limit /\ call'[c].pc # "write"
      BY <2>3 DEF Entered, MayEnter
    <3>3. call'[c].op = "addPhotos" => call'[c].photos = gallery
      BY <2>3 DEF Entered
    <3>4. call'[c].photos = gallery \/ call'[c].photos = {}
      BY <2>3 DEF Entered
    <3> QED BY <2>3, <3>1, <3>2, <3>3, <3>4 DEF SmallEnough
  <2>4. CASE d = c /\ call'[c] = Idle
    <3>1. SmallEnough({}, 0)
      BY FS_EmptySet, MediaAssumption DEF SmallEnough
    <3> QED BY <2>4, <3>1 DEF Idle
  <2>5. CASE d = c /\ call'[c] = call[c]
    BY <2>1, <2>5
  <2>6. CASE d = c /\ Destroy(c)
    <3>1. /\ call'[c].op = call[c].op /\ call'[c].count = call[c].count /\ call'[c].photos = call[c].photos
      BY <2>6 DEF Destroy, Goes, TypeOK, Locals
    <3>2. call[c].op # "addPhotos"
      BY <2>6 DEF Destroy, Shape, CallShape
    <3> QED BY <2>1, <2>6, <3>1, <3>2
  <2>7. CASE d = c /\ Upload(c)
    <3>1. PICK new : /\ IsFiniteSet(new) /\ Cardinality(new) = call[c].count
                     /\ call' = [call EXCEPT ![c].pc = "write", ![c].adding = new]
      BY <2>7 DEF Upload
    <3>2. /\ call'[c].op = call[c].op /\ call'[c].count = call[c].count /\ call'[c].photos = call[c].photos
          /\ call'[c].adding = new
      BY <3>1 DEF TypeOK, Locals
    <3> QED BY <2>1, <2>7, <3>1, <3>2
  <2> QED BY <2>2, <2>3, <2>4, <2>5, <2>6, <2>7, Own
<1> QED BY <1>1, <1>2 DEF LimitHolds, At, SmallEnough
-----------------------------------------------------------------------------
(* Reviews *)

LEMMA ReviewedStep ==
    ASSUME TypeOK, ApprovedPhotosReviewed, CopiesReviewed, NEW c \in Calls, Step(c)
    PROVE  ApprovedPhotosReviewed' /\ CopiesReviewed'
<1>1. reviewed \subseteq reviewed'
  BY HistoryGrows
<1>2. Reviewed(gallery)
  BY DEF ApprovedPhotosReviewed, Reviewed
<1>3. \A d \in Calls : Reviewed(call[d].photos)
  BY DEF CopiesReviewed
<1>4. ASSUME NEW p \in gallery', p.status = "APPROVED"
      PROVE  AutoApproved \/ p.id \in reviewed'
  <2>1. CASE UpdateGalleryPhotos(c)
    <3>1. p \in call[c].photos \/ p.status = UploadStatus
      BY <2>1 DEF UpdateGalleryPhotos, NewPhotos
    <3> QED BY <1>1, <1>3, <1>4, <3>1 DEF Reviewed, UploadStatus
  <2>2. CASE DeleteGalleryPhoto(c)
    BY <1>1, <1>2, <1>4, <2>2 DEF DeleteGalleryPhoto, Reviewed
  <2>3. CASE RejectGalleryPhoto(c)
    BY <1>1, <1>3, <1>4, <2>3 DEF RejectGalleryPhoto, Reviewed
  <2>4. CASE ApproveGalleryPhoto(c)
    <3>1. PICK q \in gallery : /\ gallery' = (gallery \ {q}) \cup {[q EXCEPT !.status = "APPROVED"]}
                               /\ reviewed' = reviewed \cup {q.id}
      BY <2>4 DEF ApproveGalleryPhoto
    <3>2. [q EXCEPT !.status = "APPROVED"].id = q.id
      BY DEF TypeOK, Photo
    <3> QED BY <1>1, <1>2, <1>4, <3>1, <3>2 DEF Reviewed
  <2>5. CASE gallery' = gallery
    BY <1>1, <1>2, <1>4, <2>5 DEF Reviewed
  <2> QED BY <2>1, <2>2, <2>3, <2>4, <2>5, GalleryEffect
<1>5. ASSUME NEW d \in Calls, NEW p \in call'[d].photos, p.status = "APPROVED"
      PROVE  AutoApproved \/ p.id \in reviewed'
  <2>1. p \in call[d].photos \/ p \in gallery
    BY CopyEffect
  <2> QED BY <1>1, <1>2, <1>3, <1>5, <2>1 DEF Reviewed
<1>6. ApprovedPhotosReviewed'
  BY <1>4 DEF ApprovedPhotosReviewed
<1>7. CopiesReviewed'
  BY <1>5 DEF CopiesReviewed, Reviewed
<1> QED BY <1>6, <1>7

(* An approval is not overtaken by an upload, or the lapse is recorded. *)
LEMMA PictureReviewedStep ==
    ASSUME TypeOK, Shape, ApprovalsCurrent, PictureReviewedUnlessReplaced, NEW c \in Calls, Step(c)
    PROVE  PictureReviewedUnlessReplaced' /\ ApprovalsCurrent'
<1>1. lapsed \subseteq lapsed' /\ reviewed \subseteq reviewed'
  BY HistoryGrows
<1>2. PictureReviewedUnlessReplaced'
  <2>1. CASE UpdateProfilePicture(c)
    BY <2>1 DEF UpdateProfilePicture, UploadStatus, PictureReviewedUnlessReplaced
  <2>2. CASE DeleteProfilePicture(c) \/ RejectProfilePicture(c)
    BY <2>2 DEF DeleteProfilePicture, RejectProfilePicture, PictureReviewedUnlessReplaced, TypeOK
  <2>3. CASE ApproveProfilePicture(c)
    <3>1. picture'.file = picture.file /\ reviewed' = reviewed \cup {call[c].target} /\ lapsed' = lapsed
      BY <2>3 DEF ApproveProfilePicture, TypeOK
    <3>2. "replaced" \notin lapsed => picture.file \in {call[c].target, None}
      BY <2>3 DEF ApproveProfilePicture, At, ApprovalsCurrent
    <3> QED BY <3>1, <3>2 DEF PictureReviewedUnlessReplaced
  <2>4. CASE picture' = picture
    BY <1>1, <2>4 DEF PictureReviewedUnlessReplaced
  <2> QED BY <2>1, <2>2, <2>3, <2>4, PictureEffect
<1>3. ASSUME "replaced" \notin lapsed', NEW d \in Calls, call'[d].op = "approve"
      PROVE  picture'.file \in {call'[d].target, None}
  <2>1. CASE d = c /\ Entered(c)
    BY <1>3, <2>1 DEF Entered, MayEnter
  <2>2. CASE call'[d].op = call[d].op /\ call'[d].target = call[d].target
    <3>1. picture.file \in {call[d].target, None}
      BY <1>1, <1>3, <2>2 DEF ApprovalsCurrent
    <3>2. ~UpdateProfilePicture(c)
      BY <1>3, <2>2 DEF UpdateProfilePicture
    <3>3. picture'.file \in {picture.file, None}
      BY <3>2, PictureEffect DEF DeleteProfilePicture, ApproveProfilePicture, RejectProfilePicture, TypeOK
    <3> QED BY <2>2, <3>1, <3>3
  <2>3. CASE d = c /\ call'[c] = Idle
    BY <1>3, <2>3 DEF Idle
  <2>4. CASE d = c /\ (Destroy(c) \/ Upload(c))
    <3>1. call'[c].op = call[c].op /\ call'[c].target = call[c].target
      BY <2>4 DEF Destroy, Upload, Goes, TypeOK, Locals
    <3> QED BY <2>2, <2>4, <3>1
  <2> QED BY <2>1, <2>2, <2>3, <2>4, Own, Others
<1> QED BY <1>2, <1>3 DEF ApprovalsCurrent

-----------------------------------------------------------------------------
(* The array *)

(* A step that changes the gallery while another call holds the array is
   recorded as a lapse. *)
LEMMA ArrayEffect ==
    ASSUME NEW c \in Calls, Step(c), NEW d \in Calls, d # c, call[d].op \in ArrayWriters,
           "array" \notin lapsed'
    PROVE  gallery' = gallery /\ ~RejectGalleryPhoto(c)
<1>1. ~ArrayChanges(c)
  BY DEF ArrayChanges
<1> QED
  BY <1>1, GalleryEffect
  DEF UpdateGalleryPhotos, DeleteGalleryPhoto, RejectGalleryPhoto, ApproveGalleryPhoto

LEMMA CurrentStep ==
    ASSUME TypeOK, Shape, CopiesCurrent, NEW c \in Calls, Step(c)
    PROVE  CopiesCurrent'
<1> SUFFICES ASSUME "array" \notin lapsed', NEW d \in Calls, call'[d].op \in ArrayWriters
             PROVE  call'[d].photos = gallery' /\ ~call'[d].outdated
  BY DEF CopiesCurrent
<1>1. "array" \notin lapsed
  BY HistoryGrows
<1>2. CASE d # c
  <2>1. call[d].op \in ArrayWriters
    BY <1>2, Others
  <2>2. gallery' = gallery /\ ~RejectGalleryPhoto(c)
    BY <1>2, <2>1, ArrayEffect
  <2>3. call'[d] = call[d]
    BY <1>2, <2>2, Others
  <2> QED BY <1>1, <2>1, <2>2, <2>3 DEF CopiesCurrent
<1>3. CASE d = c /\ Entered(c)
  BY <1>3 DEF Entered
<1>4. CASE d = c /\ call'[c] = Idle
  BY <1>4 DEF Idle
<1>5. CASE d = c /\ (Destroy(c) \/ Upload(c))
  <2>1. /\ call'[c].op = call[c].op /\ call'[c].photos = call[c].photos
        /\ call'[c].outdated = call[c].outdated /\ gallery' = gallery
    BY <1>5 DEF Destroy, Upload, Goes, TypeOK, Locals
  <2> QED BY <1>1, <1>5, <2>1 DEF CopiesCurrent
<1>6. CASE d = c /\ call'[c] = call[c]
  <2>1. gallery' = gallery
    <3>1. call[c].pc # "idle" /\ call[c] # Idle
      BY <1>6 DEF Shape, CallShape, Idle
    <3>2. ~UpdateGalleryPhotos(c) /\ ~DeleteGalleryPhoto(c) /\ ~RejectGalleryPhoto(c)
      BY <1>6, <3>1 DEF UpdateGalleryPhotos, DeleteGalleryPhoto, RejectGalleryPhoto, Done, TypeOK
    <3> QED BY <3>1, <3>2, GalleryEffect DEF ApproveGalleryPhoto
  <2> QED BY <1>1, <1>6, <2>1 DEF CopiesCurrent
<1> QED BY <1>2, <1>3, <1>4, <1>5, <1>6, Own
-----------------------------------------------------------------------------
(* The files *)

Finishes(c) ==
    \/ UpdateProfilePicture(c) \/ DeleteProfilePicture(c) \/ RejectProfilePicture(c)
    \/ DeleteGalleryPhoto(c) \/ RejectGalleryPhoto(c) \/ VersionError(c) \/ CallFails(c)

LEMMA RemovingStep ==
    ASSUME TypeOK, Shape, NEW c \in Calls, Step(c), NEW e \in Calls, NEW file \in Files, Removing(e, file)
    PROVE  Removing(e, file)' \/ (e = c /\ Finishes(c))
<1>1. CASE e # c
  <2>1. call'[e].target = call[e].target /\ call'[e].pc = call[e].pc /\ call'[e].op = call[e].op
    BY <1>1, Others
  <2> QED BY <2>1 DEF Removing
<1>2. CASE e = c
  <2>1. /\ call[c].pc \in {"upload", "write"} /\ call[c].op # "approve" /\ call[c].op # "addPhotos"
        /\ call[c].target = file
    BY <1>2, MediaAssumption DEF Removing, Shape, CallShape, Files
  <2>2. CASE call' = call
    BY <2>2 DEF Removing
  <2>3. CASE Upload(c)
    <3>1. call'[c].pc = "write" /\ call'[c].op = call[c].op /\ call'[c].target = call[c].target
      BY <2>3 DEF Upload, TypeOK, Locals
    <3> QED BY <1>2, <2>1, <3>1 DEF Removing
  <2>4. CASE Done(c)
    <3>1. call[c].pc # "idle" /\ ~Destroy(c) /\ ~Entered(c)
      BY <2>1 DEF Destroy, Entered
    <3>2. ~UpdateGalleryPhotos(c) /\ ~ApproveProfilePicture(c) /\ ~ApproveGalleryPhoto(c)
      BY <2>1 DEF UpdateGalleryPhotos, ApproveProfilePicture, ApproveGalleryPhoto, At
    <3>3. ~\E op, pc, target, count : Starts(c, op, pc, target, count)
      BY <2>1 DEF Starts
    <3>4. ~Upload(c)
      <4>1. Upload(c) => call'[c].pc = "write"
        BY DEF Upload, TypeOK, Locals
      <4>2. call'[c].pc = "idle"
        BY <2>4 DEF Done, TypeOK, Idle
      <4> QED BY <4>1, <4>2
    <3> QED BY <1>2, <3>1, <3>2, <3>3, <3>4 DEF Step, GallerySteps, PictureSteps, Finishes,
          StartUpdateGalleryPhotos, StartDeleteGalleryPhoto, StartRejectGalleryPhoto,
          StartUpdateProfilePicture, StartDeleteProfilePicture, StartApproveProfilePicture,
          StartRejectProfilePicture
  <2>5. ~Entered(c) /\ ~Destroy(c)
    BY <2>1 DEF Entered, Destroy
  <2> QED BY <1>2, <2>2, <2>3, <2>4, <2>5, CallEffect DEF Finishes
<1> QED BY <1>1, <1>2

LEMMA StoredStep ==
    ASSUME TypeOK, Shape, NEW c \in Calls, Step(c), NEW file \in stored
    PROVE  file \in stored' \/ Removing(c, file)'
<1>1. CASE Destroy(c)
  <2>1. /\ call[c].pc = "destroy" /\ call[c].op # "approve"
        /\ stored' = stored \/ stored' = stored \ {call[c].target}
    BY <1>1 DEF Destroy, Shape, CallShape
  <2>2. /\ call'[c].pc \in {"upload", "write"} /\ call'[c].op = call[c].op
        /\ call'[c].target = call[c].target
    BY <1>1 DEF Destroy, Goes, TypeOK, Locals
  <2> QED BY <2>1, <2>2 DEF Removing
<1>2. CASE stored' = stored \/ Upload(c)
  BY <1>2 DEF Upload
<1> QED BY <1>1, <1>2, FilesEffect

LEMMA PictureFileStep ==
    ASSUME TypeOK, Shape, Fresh, PictureHasFileUnlessFailed, NEW c \in Calls, Step(c)
    PROVE  PictureHasFileUnlessFailed'
<1> SUFFICES ASSUME NEW file, file = picture'.file, file # None, "failed" \notin lapsed'
             PROVE  file \in stored' \/ \E e \in Calls : Removing(e, file)'
  BY DEF PictureHasFileUnlessFailed, Removing
<1>1. "failed" \notin lapsed
  BY HistoryGrows
<1>2. CASE UpdateProfilePicture(c)
  BY <1>2 DEF UpdateProfilePicture, Fresh
<1>3. CASE picture'.file = picture.file /\ ~UpdateProfilePicture(c)
  <2>1. file = picture.file /\ file \in Pictures /\ file \in Files
    BY <1>3 DEF TypeOK, Files
  <2>2. CASE file \in stored
    BY <2>2, StoredStep
  <2>3. ASSUME NEW e \in Calls, Removing(e, file)
        PROVE  Removing(e, file)'
    <3>1. SUFFICES ASSUME e = c, Finishes(c) PROVE FALSE
      BY <2>1, <2>3, RemovingStep
    <3>2. ~DeleteProfilePicture(c) /\ ~RejectProfilePicture(c)
      BY <1>3 DEF DeleteProfilePicture, RejectProfilePicture, TypeOK
    <3>3. call[c].target \in Pictures /\ call[c].op \notin {"deletePhoto", "rejectPhoto"}
      BY <2>1, <2>3, <3>1, MediaAssumption DEF Removing, Shape, CallShape
    <3>4. ~DeleteGalleryPhoto(c) /\ ~RejectGalleryPhoto(c) /\ ~VersionError(c)
      BY <3>3 DEF DeleteGalleryPhoto, RejectGalleryPhoto, VersionError, At
    <3>5. ~CallFails(c)
      BY <2>1, <2>3, <3>1, MediaAssumption DEF CallFails, HasDestroyed, Removing, Files
    <3> QED BY <1>3, <3>1, <3>2, <3>4, <3>5 DEF Finishes
  <2>4. file \in stored \/ \E e \in Calls : Removing(e, file)
    BY <1>1, <2>1 DEF PictureHasFileUnlessFailed
  <2> QED BY <2>2, <2>3, <2>4
<1>4. picture'.file = picture.file \/ UpdateProfilePicture(c)
  BY PictureEffect DEF DeleteProfilePicture, ApproveProfilePicture, RejectProfilePicture, TypeOK
<1> QED BY <1>2, <1>3, <1>4

LEMMA GalleryFilesStep ==
    ASSUME TypeOK, Shape, Fresh, CopiesCurrent, GalleryHasFilesUnlessOverlap, NEW c \in Calls, Step(c)
    PROVE  GalleryHasFilesUnlessOverlap'
<1> SUFFICES ASSUME lapsed' \cap {"array", "failed"} = {}, NEW p \in gallery'
             PROVE  p.id \in stored' \/ \E e \in Calls : Removing(e, p.id)'
  BY DEF GalleryHasFilesUnlessOverlap, Removing
<1>1. lapsed \cap {"array", "failed"} = {}
  BY HistoryGrows
<1>2. p.id \in Ids(gallery) \/ (UpdateGalleryPhotos(c) /\ p.id \in call[c].adding)
  <2>1. CASE UpdateGalleryPhotos(c)
    <3>1. call[c].photos = gallery
      BY <1>1, <2>1 DEF CopiesCurrent, UpdateGalleryPhotos, At
    <3> QED BY <2>1, <3>1 DEF UpdateGalleryPhotos, NewPhotos, Ids
  <2>2. CASE RejectGalleryPhoto(c)
    <3>1. call[c].photos = gallery
      BY <1>1, <2>2 DEF CopiesCurrent, RejectGalleryPhoto, At
    <3> QED BY <2>2, <3>1 DEF RejectGalleryPhoto, Ids
  <2>3. CASE DeleteGalleryPhoto(c)
    BY <2>3 DEF DeleteGalleryPhoto, Ids
  <2>4. CASE ApproveGalleryPhoto(c)
    BY <2>4 DEF ApproveGalleryPhoto, Ids, TypeOK, Photo
  <2>5. CASE gallery' = gallery
    BY <2>5 DEF Ids
  <2> QED BY <2>1, <2>2, <2>3, <2>4, <2>5, GalleryEffect
<1>3. CASE UpdateGalleryPhotos(c) /\ p.id \in call[c].adding
  BY <1>3 DEF UpdateGalleryPhotos, Fresh
<1>4. CASE p.id \in Ids(gallery)
  <2>1. p.id \in Photos /\ p.id \in Files
    BY <1>4 DEF Ids, TypeOK, Photo, Files
  <2>2. CASE p.id \in stored
    BY <2>2, StoredStep
  <2>3. ASSUME NEW e \in Calls, Removing(e, p.id)
        PROVE  Removing(e, p.id)'
    <3>1. SUFFICES ASSUME e = c, Finishes(c) PROVE FALSE
      BY <2>1, <2>3, RemovingStep
    <3>2. call[c].target = p.id /\ call[c].op \notin {"update", "delete", "reject"}
      BY <2>1, <2>3, <3>1, MediaAssumption DEF Removing, Shape, CallShape
    <3>3. ~UpdateProfilePicture(c) /\ ~DeleteProfilePicture(c) /\ ~RejectProfilePicture(c)
      BY <3>2 DEF UpdateProfilePicture, DeleteProfilePicture, RejectProfilePicture, At
    <3>4. ~DeleteGalleryPhoto(c) /\ ~RejectGalleryPhoto(c)
      BY <3>2 DEF DeleteGalleryPhoto, RejectGalleryPhoto
    <3>5. ~VersionError(c)
      BY <1>1 DEF VersionError, At, CopiesCurrent
    <3>6. ~CallFails(c)
      BY <2>1, <2>3, <3>1, MediaAssumption DEF CallFails, HasDestroyed, Removing, Files
    <3> QED BY <3>1, <3>3, <3>4, <3>5, <3>6 DEF Finishes
  <2>4. p.id \in stored \/ \E e \in Calls : Removing(e, p.id)
    BY <1>1, <1>4 DEF GalleryHasFilesUnlessOverlap, Ids
  <2> QED BY <2>2, <2>3, <2>4
<1> QED BY <1>2, <1>3, <1>4
-----------------------------------------------------------------------------
(* The theorems *)

LEMMA MediaInit == Init => MediaInv
<1> SUFFICES ASSUME Init PROVE MediaInv
  OBVIOUS
<1>1. SmallEnough({}, 0) /\ Ids({}) = {} /\ OnePhotoPerId({})
  BY FS_EmptySet, MediaAssumption DEF SmallEnough, Ids, OnePhotoPerId
<1>2. CallShape(Idle)
  BY <1>1 DEF CallShape, Idle
<1>3. TypeOK /\ Shape
  BY <1>1, <1>2, TypeInit DEF Init, Shape
<1>4. Fresh /\ AllUsed /\ LimitHolds
  BY <1>1 DEF Init, Fresh, AllUsed, LimitHolds, At, Idle
<1>5. ApprovedPhotosReviewed /\ CopiesReviewed /\ CopiesCurrent /\ ApprovalsCurrent
  BY DEF Init, ApprovedPhotosReviewed, CopiesReviewed, Reviewed, CopiesCurrent, ApprovalsCurrent, Idle
<1>6. PictureReviewedUnlessReplaced /\ PictureHasFileUnlessFailed /\ GalleryHasFilesUnlessOverlap
  BY DEF Init, PictureReviewedUnlessReplaced, PictureHasFileUnlessFailed, GalleryHasFilesUnlessOverlap
<1> QED BY <1>3, <1>4, <1>5, <1>6 DEF MediaInv

LEMMA MediaStep == MediaInv /\ [Next]_vars => MediaInv'
<1> SUFFICES ASSUME MediaInv, [Next]_vars PROVE MediaInv'
  OBVIOUS
<1>1. CASE UNCHANGED vars
  BY <1>1 DEF vars, MediaInv, TypeOK, Fresh, AllUsed, LimitHolds, At, ApprovedPhotosReviewed, CopiesReviewed,
     Reviewed, CopiesCurrent, ApprovalsCurrent, Shape, CallShape, Ids, OnePhotoPerId, SmallEnough,
     PictureReviewedUnlessReplaced, PictureHasFileUnlessFailed, GalleryHasFilesUnlessOverlap, Removing
<1>2. ASSUME NEW c \in Calls, Step(c) PROVE MediaInv'
  BY <1>2, TypeStep, ShapeStep, FreshStep, AllUsedStep, LimitStep, ReviewedStep, CurrentStep,
     PictureReviewedStep, PictureFileStep, GalleryFilesStep DEF MediaInv
<1> QED BY <1>1, <1>2 DEF Next, Step

THEOREM Invariant == Spec => []MediaInv
BY MediaInit, MediaStep, PTL DEF Spec

(* However many uploads overlap, the gallery never exceeds the limit. *)
THEOREM LimitKept == Spec => []GalleryLimit
<1>1. MediaInv => GalleryLimit
  BY FS_CardinalityType, MediaAssumption DEF MediaInv, LimitHolds, SmallEnough, GalleryLimit
<1> QED BY <1>1, Invariant, PTL

(* Every photo marked as approved was approved by an admin, whatever arrays
   were written back.  (Who is served a photo is no matter of the mark alone.) *)
THEOREM ApprovedAreReviewed == Spec => []ApprovedPhotosReviewed
<1>1. MediaInv => ApprovedPhotosReviewed
  BY DEF MediaInv
<1> QED BY <1>1, Invariant, PTL

(* The approved picture is one an admin saw, unless an upload overtook the
   approval. *)
THEOREM OnlyReviewedPicture == Spec => []PictureReviewedUnlessReplaced
<1>1. MediaInv => PictureReviewedUnlessReplaced
  BY DEF MediaInv
<1> QED BY <1>1, Invariant, PTL

(* The document names no picture that Cloudinary has lost, unless a call
   failed after its deletion. *)
THEOREM PictureStored == Spec => []PictureHasFileUnlessFailed
<1>1. MediaInv => PictureHasFileUnlessFailed
  BY DEF MediaInv
<1> QED BY <1>1, Invariant, PTL

(* The same of the photos while array writers do not overlap. *)
THEOREM PhotosStored == Spec => []GalleryHasFilesUnlessOverlap
<1>1. MediaInv => GalleryHasFilesUnlessOverlap
  BY DEF MediaInv
<1> QED BY <1>1, Invariant, PTL

(* Without such an overlap a step adds its own photos, removes its own photo
   or approves one. *)
THEOREM GalleryIsKept == Spec => GalleryKeptUnlessOverlap
<1>1. MediaInv /\ [Next]_vars
        => [gallery' = gallery \/ Added \/ Removed \/ Approved \/ "array" \in lapsed']_vars
  <2> SUFFICES ASSUME MediaInv, NEW c \in Calls, Step(c), "array" \notin lapsed'
               PROVE  gallery' = gallery \/ Added \/ Removed \/ Approved
    BY DEF Next, Step
  <2>1. "array" \notin lapsed
    BY HistoryGrows
  <2>2. \A d \in Calls : call[d].op \in ArrayWriters => call[d].photos = gallery
    BY <2>1 DEF MediaInv, CopiesCurrent
  <2>3. gallery \subseteq Photo /\ OnePhotoPerId(gallery)
    BY DEF MediaInv, TypeOK, Shape
  <2>4. CASE UpdateGalleryPhotos(c)
    BY <2>2, <2>4 DEF UpdateGalleryPhotos, At, Added
  <2>5. CASE DeleteGalleryPhoto(c) \/ RejectGalleryPhoto(c)
    <3>1. gallery' = {p \in gallery : p.id # call[c].target}
      BY <2>2, <2>5 DEF DeleteGalleryPhoto, RejectGalleryPhoto, At
    <3>2. ASSUME NEW p \in gallery, p.id = call[c].target PROVE Removed
      <4>1. gallery' = gallery \ {p}
        BY <2>3, <3>1, <3>2 DEF OnePhotoPerId
      <4>2. Removing(c, p.id)
        BY <2>5, <3>2 DEF Removing, DeleteGalleryPhoto, RejectGalleryPhoto, At
      <4> QED BY <4>1, <4>2 DEF Removed
    <3> QED BY <3>1, <3>2
  <2>6. CASE ApproveGalleryPhoto(c)
    <3>1. PICK p \in gallery : gallery' = (gallery \ {p}) \cup {[p EXCEPT !.status = "APPROVED"]}
      BY <2>6 DEF ApproveGalleryPhoto
    <3>2. [p EXCEPT !.status = "APPROVED"] = [id |-> p.id, status |-> "APPROVED"]
      BY <2>3 DEF Photo
    <3> QED BY <3>1, <3>2 DEF Approved
  <2> QED BY <2>4, <2>5, <2>6, GalleryEffect
<1> QED BY <1>1, Invariant, PTL DEF Spec, GalleryKeptUnlessOverlap
-----------------------------------------------------------------------------
(* The handlers that act at once *)

LEMMA StandStep ==
    ASSUME TypeOK, ApprovalsStand, NEW c \in Calls, Step(c)
    PROVE  ApprovalsStand'
<1> SUFFICES ASSUME "replaced" \notin lapsed', NEW d \in Calls,
                    call'[d].op = "approve", call'[d].status = "APPROVED", picture'.file # None
             PROVE  picture'.status = "APPROVED"
  BY DEF ApprovalsStand
<1>1. "replaced" \notin lapsed
  BY HistoryGrows
<1>2. CASE d = c /\ Entered(c)
  BY <1>2 DEF Entered
<1>3. CASE d = c /\ call'[c] = Idle
  BY <1>3 DEF Idle
<1>4. CASE call'[d].op = call[d].op /\ call'[d].status = call[d].status
  <2>1. ~UpdateProfilePicture(c)
    BY <1>4 DEF UpdateProfilePicture
  <2>2. ~DeleteProfilePicture(c) /\ ~RejectProfilePicture(c)
    BY DEF DeleteProfilePicture, RejectProfilePicture, TypeOK
  <2>3. CASE ApproveProfilePicture(c)
    <3>1. picture'.file = picture.file /\ (picture'.status = picture.status \/ picture'.status = "APPROVED")
      BY <2>3 DEF ApproveProfilePicture, TypeOK
    <3> QED BY <1>1, <1>4, <3>1 DEF ApprovalsStand
  <2>4. CASE picture' = picture
    BY <1>1, <1>4, <2>4 DEF ApprovalsStand
  <2> QED BY <2>1, <2>2, <2>3, <2>4, PictureEffect
<1>5. CASE d = c /\ (Destroy(c) \/ Upload(c))
  <2>1. call'[c].op = call[c].op /\ call'[c].status = call[c].status
    BY <1>5 DEF Destroy, Upload, Goes, TypeOK, Locals
  <2> QED BY <1>4, <1>5, <2>1
<1> QED BY <1>2, <1>3, <1>4, <1>5, Own, Others

LEMMA StandAlways == Spec => [](MediaInv /\ ApprovalsStand)
<1>1. Init => ApprovalsStand
  BY DEF Init, ApprovalsStand, Idle
<1>2. MediaInv /\ ApprovalsStand /\ [Next]_vars => ApprovalsStand'
  <2>1. ASSUME UNCHANGED vars, ApprovalsStand PROVE ApprovalsStand'
    BY <2>1 DEF vars, ApprovalsStand
  <2>2. ASSUME MediaInv, ApprovalsStand, NEW c \in Calls, Step(c) PROVE ApprovalsStand'
    BY <2>2, StandStep DEF MediaInv
  <2> QED BY <2>1, <2>2 DEF Next, Step
<1> QED BY <1>1, <1>2, Invariant, PTL DEF Spec

(* The instance of FiniteSets that the promise extends is a copy. *)
LEMMA SameCardinality == \A S : AtOnce!Cardinality(S) = Cardinality(S)
BY Zenon DEF Cardinality, AtOnce!Cardinality

(* What the promise speaks of. *)
Document == <<gallery, picture, reviewed, lapsed>>

LEMMA ArrayLapse ==
    ASSUME NEW c \in Calls, ArrayChanges(c)
    PROVE  AtOnce!MayLapse("array") /\ ("array" \in lapsed => lapsed' = lapsed)
BY DEF ArrayChanges, AtOnce!MayLapse

(* A whole array written back, where others overlapped. *)
LEMMA WritesBack ==
    ASSUME MediaInv, MediaInv', NEW c \in Calls, ArrayChanges(c), "array" \in lapsed,
           UNCHANGED <<picture, reviewed>>
    PROVE  AtOnce!Next
<1>1. Cardinality(gallery') <= Limit
  BY FS_CardinalityType, MediaAssumption DEF MediaInv, LimitHolds, SmallEnough
<1>2. \A p \in gallery' : p.status = "APPROVED" => AutoApproved \/ p.id \in reviewed
  BY DEF MediaInv, ApprovedPhotosReviewed
<1>3. gallery' \in SUBSET [id : Photos, status : {"PENDING", "APPROVED"}]
  BY DEF MediaInv, TypeOK, Photo
<1>4. lapsed' = lapsed
  BY ArrayLapse
<1>5. AtOnce!WriteBack(gallery')
  BY <1>1, <1>2, <1>4, SameCardinality DEF AtOnce!WriteBack
<1> QED BY <1>3, <1>5 DEF AtOnce!Next

LEMMA GalleryMaps ==
    ASSUME MediaInv, MediaInv', NEW c \in Calls,
           UpdateGalleryPhotos(c) \/ DeleteGalleryPhoto(c) \/ RejectGalleryPhoto(c) \/ ApproveGalleryPhoto(c)
    PROVE  AtOnce!Next
<1>1. ArrayChanges(c) /\ AtOnce!MayLapse("array") /\ picture' = picture
  BY ArrayLapse DEF UpdateGalleryPhotos, DeleteGalleryPhoto, RejectGalleryPhoto, ApproveGalleryPhoto
<1>2. CASE "array" \in lapsed /\ (UpdateGalleryPhotos(c) \/ RejectGalleryPhoto(c))
  BY <1>1, <1>2, WritesBack DEF UpdateGalleryPhotos, RejectGalleryPhoto
<1>3. CASE "array" \notin lapsed /\ UpdateGalleryPhotos(c)
  <2>1. call[c].photos = gallery
    BY <1>3 DEF MediaInv, CopiesCurrent, UpdateGalleryPhotos, At
  <2>2. call[c].adding \in SUBSET Photos
    BY <1>3 DEF MediaInv, Shape, CallShape, UpdateGalleryPhotos, At
  <2>3. \A p \in gallery : p.id \notin call[c].adding
    BY DEF MediaInv, Fresh, Ids
  <2>4. Cardinality(gallery') <= Limit
    BY FS_CardinalityType, MediaAssumption DEF MediaInv, LimitHolds, SmallEnough
  <2>5. gallery' = gallery \cup {[id |-> file, status |-> AtOnce!FirstStatus] : file \in call[c].adding}
    BY <1>3, <2>1 DEF UpdateGalleryPhotos, NewPhotos, UploadStatus, AtOnce!FirstStatus
  <2>6. reviewed' = reviewed
    BY <1>3 DEF UpdateGalleryPhotos
  <2>7. AtOnce!AddPhotos(call[c].adding)
    BY <1>1, <2>3, <2>4, <2>5, <2>6, SameCardinality DEF AtOnce!AddPhotos
  <2> QED BY <2>2, <2>7 DEF AtOnce!Next
<1>4. CASE DeleteGalleryPhoto(c) \/ ("array" \notin lapsed /\ RejectGalleryPhoto(c))
  <2>1. gallery' = {p \in gallery : p.id # call[c].target} /\ reviewed' = reviewed
    BY <1>4 DEF MediaInv, CopiesCurrent, RejectGalleryPhoto, DeleteGalleryPhoto, At
  <2>2. call[c].target \in Photos
    BY <1>4 DEF MediaInv, Shape, CallShape, RejectGalleryPhoto, DeleteGalleryPhoto, At
  <2>3. AtOnce!RemovePhoto(call[c].target)
    BY <1>1, <2>1 DEF AtOnce!RemovePhoto
  <2> QED BY <2>2, <2>3 DEF AtOnce!Next
<1>5. CASE ApproveGalleryPhoto(c)
  <2>1. PICK p \in gallery : /\ gallery' = (gallery \ {p}) \cup {[p EXCEPT !.status = "APPROVED"]}
                             /\ reviewed' = reviewed \cup {p.id}
    BY <1>5 DEF ApproveGalleryPhoto
  <2>2. [p EXCEPT !.status = "APPROVED"] = [id |-> p.id, status |-> "APPROVED"]
    BY DEF MediaInv, TypeOK, Photo
  <2>3. AtOnce!ApprovePhoto(p)
    BY <1>1, <2>1, <2>2 DEF AtOnce!ApprovePhoto
  <2> QED BY <2>3 DEF AtOnce!Next
<1> QED BY <1>2, <1>3, <1>4, <1>5

(* An approval is of the picture that is there, or of none, until an upload
   wrote between its read and its save. *)
LEMMA ApprovalMaps ==
    ASSUME MediaInv, ApprovalsStand, NEW c \in Calls, ApproveProfilePicture(c)
    PROVE  AtOnce!Next
<1>1. call[c].op = "approve" /\ call[c].target \in Pictures /\ call[c].target # None
  BY MediaAssumption DEF MediaInv, Shape, CallShape, ApproveProfilePicture, At
<1>2. "replaced" \in lapsed \/ picture.file \in {call[c].target, None}
  BY <1>1 DEF MediaInv, ApprovalsCurrent
<1>3. picture' = IF call[c].status = "APPROVED" THEN picture ELSE [picture EXCEPT !.status = "APPROVED"]
  BY DEF ApproveProfilePicture, MediaInv, TypeOK
<1>4. "replaced" \in lapsed \/ (picture.file = call[c].target => picture'.status = "APPROVED")
  <2>1. CASE call[c].status = "APPROVED"
    BY <1>1, <1>3, <2>1 DEF ApprovalsStand
  <2>2. CASE call[c].status # "APPROVED"
    BY <1>3, <2>2 DEF MediaInv, TypeOK
  <2> QED BY <2>1, <2>2
<1>5. AtOnce!ApprovePicture(call[c].target)
  BY <1>2, <1>3, <1>4 DEF AtOnce!ApprovePicture, AtOnce!Guards, ApproveProfilePicture
<1> QED BY <1>1, <1>5 DEF AtOnce!Next

LEMMA PictureMaps ==
    ASSUME MediaInv, ApprovalsStand, NEW c \in Calls,
           UpdateProfilePicture(c) \/ DeleteProfilePicture(c)
               \/ ApproveProfilePicture(c) \/ RejectProfilePicture(c)
    PROVE  AtOnce!Next
<1>1. CASE UpdateProfilePicture(c)
  <2>1. PICK file \in call[c].adding : picture' = [file |-> file, status |-> UploadStatus]
    BY <1>1 DEF UpdateProfilePicture
  <2>2. file \in Pictures /\ file # picture.file
    BY <1>1 DEF MediaInv, Shape, CallShape, Fresh, UpdateProfilePicture, At
  <2>3. AtOnce!MayLapse("replaced")
    BY <1>1 DEF UpdateProfilePicture, AtOnce!MayLapse
  <2>4. AtOnce!SetPicture(file)
    BY <1>1, <2>1, <2>2, <2>3 DEF AtOnce!SetPicture, AtOnce!FirstStatus, UploadStatus, UpdateProfilePicture
  <2> QED BY <2>2, <2>4 DEF AtOnce!Next
<1>2. CASE DeleteProfilePicture(c)
  <2>1. [picture EXCEPT !.file = None] = [file |-> None, status |-> picture.status]
    BY DEF MediaInv, TypeOK
  <2>2. AtOnce!RemovePicture(picture.status)
    BY <1>2, <2>1 DEF DeleteProfilePicture, AtOnce!RemovePicture
  <2> QED BY <2>2 DEF AtOnce!Next
<1>3. CASE RejectProfilePicture(c)
  <2>1. AtOnce!RemovePicture("REJECTED")
    BY <1>3 DEF RejectProfilePicture, AtOnce!RemovePicture
  <2> QED BY <2>1 DEF AtOnce!Next
<1> QED BY <1>1, <1>2, <1>3, ApprovalMaps

(* Nothing else is seen of a call but that it failed halfway. *)
LEMMA RestMaps ==
    ASSUME NEW c \in Calls, Step(c),
           ~UpdateGalleryPhotos(c), ~DeleteGalleryPhoto(c), ~RejectGalleryPhoto(c), ~ApproveGalleryPhoto(c),
           ~UpdateProfilePicture(c), ~DeleteProfilePicture(c), ~ApproveProfilePicture(c),
           ~RejectProfilePicture(c)
    PROVE  UNCHANGED Document \/ AtOnce!Fail
<1>1. gallery' = gallery /\ picture' = picture
  BY GalleryEffect, PictureEffect
<1>2. CASE CallFails(c)
  BY <1>1, <1>2 DEF CallFails, AtOnce!Fail, Document
<1>3. CASE ~CallFails(c)
  BY <1>1, <1>3 DEF Document, Step, GallerySteps, PictureSteps, Starts, StartUpdateGalleryPhotos,
     StartDeleteGalleryPhoto, StartRejectGalleryPhoto, VersionError, StartUpdateProfilePicture,
     StartDeleteProfilePicture, StartApproveProfilePicture, StartRejectProfilePicture, Destroy, Upload
<1> QED BY <1>2, <1>3

(* However uploads, deletions and reviews interleave, what becomes of the
   document is what handlers that act at once could have done, except that a
   member whose array was overwritten may miss photos or see some again. *)
THEOREM Implementation == Spec => ImplementsMemberMedia
<1>1. Init => AtOnce!Init
  BY DEF Init, AtOnce!Init
<1>2. MediaInv /\ MediaInv' /\ ApprovalsStand /\ [Next]_vars => [AtOnce!Next]_Document
  <2>1. ASSUME UNCHANGED vars PROVE UNCHANGED Document
    BY <2>1 DEF vars, Document
  <2>2. ASSUME MediaInv, MediaInv', ApprovalsStand, NEW c \in Calls, Step(c)
        PROVE  [AtOnce!Next]_Document
    BY <2>2, GalleryMaps, PictureMaps, RestMaps DEF AtOnce!Next
  <2> QED BY <2>1, <2>2 DEF Next, Step
<1>3. ImplementsMemberMedia <=> AtOnce!Init /\ [][AtOnce!Next]_Document
  BY DEF ImplementsMemberMedia, AtOnce!Spec, AtOnce!mediaVars, Document
<1> QED BY <1>1, <1>2, <1>3, StandAlways, PTL DEF Spec

=============================================================================
