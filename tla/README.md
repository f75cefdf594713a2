# A TLA+ model of the Match Made In Jannah backend

The backend is one NestJS process (`src/src`) over MongoDB (through Mongoose),
a Redis cache, a BullMQ queue and a socket.io gateway. JavaScript runs one
handler at a time, but every `await` on one of those stores lets other handlers
run. Almost every operation reads a document, decides, and writes in a later
call; nothing uses a transaction. The models keep exactly that: **one step is one
awaited call together with the synchronous code after it**, and the locals a
handler carries across the `await` are part of the state.

Contents: [system](#the-system) · [modules](#the-modules) ·
[runs](#what-the-runs-check) · [fairness](#fairness) · [proofs](#what-is-proved) ·
[abstractions](#abstractions) · [findings](#findings) · [not modelled](#not-modelled)

## The system

| Component | State it keeps | Operations | Hard part |
|---|---|---|---|
| Account authentication (`auth/auth.service.ts`, `users/users.service.ts`) | the `users` document of an address; in Redis the code, the wrong-attempt counter and the resend cooldown, each for `signup` and `reset` | sign-up with rollback, verify, generate, forgot, reset and change password, login, social sign-in | two handlers work from different snapshots of one document; any call may throw after earlier ones took effect; keys expire |
| Token check (`auth/jwt.strategy.ts`) | `user_status_<id>` in Redis for 30 s | `validate` on every request; eviction by `banUser` | a fill races the eviction |
| User administration (`admin/admin.service.ts`) | `role` and `status` of users | role change, status update, soft delete, ban, permanent delete | count-then-write guards; decisions on a copy |
| Chat requests and rooms (`chat-room/chat.service.ts`) | `chatrequests`, `chatrooms` | send, accept, reject, create room | search-then-insert without unique indexes; an acceptance is four writes |
| Account deletion (`users.service.ts` 902-1071) | six collections | seven writes in sequence, the tombstone last | every other handler may write into a collection already cleaned; a deletion may fail midway and be repeated |
| Saved and blocked profiles (`user-interaction/`) | `userinteractions`, unique on (user, target, kind) | save, unsave, block, unblock, the lists of both | two kinds of record kept exclusive by separate calls |
| Messages and gateway (`chat-room/chat.gateway.ts`, `message/`) | `messages`, the room and its last message; in memory the sockets per user and the channels they joined | connect, disconnect, join, leave, send, mark delivered, mark read, delete | a connection is set up in several calls while rooms open; status writes are unconditional; a restart forgets the memory and keeps the documents |
| Media upload and review (`media/media.service.ts`, `admin.service.ts` 500-832) | picture, gallery, video and their review status in the user document; external assets | upload, resubmit, delete; approve, reject, batch | seconds of upload between the read and a whole-array write |
| Push notifications (`notifications/`) | BullMQ jobs, `profileCompleteNotificationSent` | find the devices, enqueue one job each, send with five attempts, delete invalid tokens | at-least-once delivery, lost answers, stalled jobs, stale tokens |
| Device registry (`devices/`) | `devices`, unique installation id and token, expiring after 60 days | register, hand over, rotate the token, delete by token or member | the worker deletes by a token it read long ago |
| Profiles and onboarding (`users.service.ts`, `utils/user.utils.ts`) | profile fields, `isOnboarded`, `requiresAuthCompletion` | update, backfill, completion, search, view | two stored flags derived from the fields by two writers |

They interact through the shared collections (deletion touches all of them),
through `user_status_<id>` (written by the token check, evicted by
administration), through service calls (`acceptChatRequest` calls
`createChatRoom` and `createMessage`; `permanentlyDeleteUser` calls
`deleteAccount`; social sign-in calls `linkSocialOrCreate`) and through
notifications, which are sent without being awaited: a message, an answer to a
request, a review or a complete profile ends in jobs on the devices of a member, and
their outcome may delete a device. `PROJECT.json` lists every
component, also those that are not modelled, and every hazard with its line.

What makes each component correct:

- *authentication*: no account is usable and no token signed before somebody has
  shown control of the address, however requests interleave; the password of a usable
  account is confirmed for that very registration, but for an activation that was under
  way when the registration was rolled back and made again; a rollback removes only what
  its own sign-up left;
- *token check*: a ban that was answered holds; a closed account is refused in the end;
- *administration*: an admin remains;
- *chat*: an accepted request has one room and its text becomes one message; two
  members have one room and one pending request; an answer is final;
- *deletion*: when the tombstone is there, nothing else names the member;
- *interactions*: a profile is not saved and blocked by one member;
- *profiles*: the stored flag says what the fields say; no search, view or list shows a
  member with placeholder identity (a chat request does, see the findings);
- *messages*: who is connected hears the room; what was read stays read; the room names its newest message;
- *media*: no more than three photos; what is marked as approved was approved by an admin,
  and is what the admin saw unless an upload overtook the approval. A member's profile
  shows approved media only (`getProfile`, users.service.ts:425-500); the media endpoints
  (media.service.ts:326-423) look at the visibility alone and serve pending media too;
- *push*: a job's push is taken once unless its answer was lost; a job costs no device its
  record but the one with its token, and with a token that works only if Firebase called
  the job's message invalid; all work ends; the completion notice goes out once.

## The modules

| Module | Models | State and actions |
|---|---|---|
| `OtpCode` | `generateOtp` | `NextCodes(previous)`: the codes a draw can give |
| `AccountAuth` | the account behind one address | `user` is the document; `otp`, `attempts`, `cooldown` the Redis keys; `sessions` the ids a token was signed for; `req[r]` the locals of the request in slot `r` and the call it makes next. One action per awaited call: `StartX` is the entry of handler X with its first read, the other actions are named after the function or write they make |
| `AccountLifecycle` | the promise of authentication | an abstract specification of status, password and evidence with no requests, caches or snapshots |
| `JwtStatus` | `validate` and the status cache | `cached` is the key; requests look, read, fill, serve; admin calls save, then evict |
| `AdminRoles` | `admin.service.ts` user management | `role`, `status`, `valid`: whether Mongoose's validation lets `save()` write the document, and `nulls`: the phone numbers that are null, of which the unique index takes one |
| `ChatRequests` | chat requests and rooms | `requests`, `rooms`, `greetings` (messages stored for a request's text), `call[c]` |
| `Introductions` | the promise of chat requests and rooms | an abstract specification of the documents alone: every operation looks and writes at once |
| `AccountDeletion` | `deleteAccount` and who writes against it | one variable per collection, holding the members it names |
| `Media` | media upload and review | `gallery`, `picture` of the document, `stored`, the files Cloudinary holds, and `call[c]`: the array a handler read, the file it is about to destroy, the files it uploaded |
| `MemberMedia` | the promise of uploads and reviews | an abstract specification of the gallery and the picture, with no copies, files or calls |
| `Discovery` | profile fields, onboarding, interactions, search, views and lists | `doc`, `saved`, `blocked`, and `call[c]`; `Percent` and `Complete` are the rounded completion percentages |
| `IncomingRequests` | what a chat request shows of its sender | `Discovery` with `asked`, the pending requests, and `reading`, the senders a list is still to be filled with |
| `Messages` | one room of two members, its messages and the gateway | `room`, `message` are documents; `userSockets`, `socket[s]` (how far `handleConnection` got, the room's channel) and `send[m]` (how far `handleMessage` got) are memory |
| `PushDelivery` | devices, dispatcher, queue and worker | `device`, `job[e, t]` are stored; `event[e]` is the dispatch in memory; `valid` is what Firebase knows |
| `Delivery` | the composition of the two | the announcement of a message begins its dispatch; `Restart` stops both; fairness |
| `MC...` | instances for TLC | model values, handler sets, symmetry, constraints; `MCAccountSubjects` the three subjects of the run `account` |
| `AccountAuthProofs`, `JwtStatusProofs`, `AdminRolesProofs`, `ChatRequestsProofs`, `AccountDeletionProofs`, `MediaProofs`, `DiscoveryProofs`, `DeliveryProofs` | | theorems and proofs |

`AccountAuth` is shown to implement `AccountLifecycle` (`INSTANCE ... WITH
status <- user.status, password <- user.password`), `ChatRequests` to implement
`Introductions` and `Media` to implement `MemberMedia` (`AtOnce == INSTANCE ...`, the
variables that both have being the mapping), each by TLC and by proof.

In the last two the operations are atomic and keep the guards that the code means to keep.
What the split into calls costs is written there as `Guards(kind, condition)`: the
condition holds until two decisions of that kind have overlapped. In `Introductions`
two overlapping requests may leave two pending ones, two openings two rooms, two answers
two outcomes; no other interleaving, failure or deletion takes the documents where atomic
operations could not (a failure may leave out the later of an operation's writes).
In `MemberMedia` overlapping array writers give up which photos are there (`WriteBack`),
and keep the limit and the reviews; an upload that overtakes an approval gives up whose
picture was approved.

The components share the user document only through its status and role, so
`JwtStatus`, `AdminRoles`, `ChatRequests`, `AccountDeletion` and `Discovery` let the
other components' writes to it arrive at any time instead of composing with
`AccountAuth`. `Messages` and `PushDelivery` do interact step by step, and crash
together, so they are composed: each keeps its own variables and next-state relation,
and `Delivery` adds the steps that belong to both.

Variables and fields marked *history* in the modules are not in the program;
they record what a property must know (for which registration a code was mailed and
presented, whether two guarded decisions overlapped) and no guard reads them.

Operators that no action uses and whose comment or name says what they get wrong
(`TakeOverKeepingPassword`, `CountAdminsTooLate`, ...) are plausible mistakes.
`PROJECT.json` pairs each with the definition it replaces and the property that
must then fail, so that no property is there which no mistake could break.

## What the runs check

State counts are distinct states. `Handlers` is the set of operations the
environment calls in a run; slots limit how many are in flight, never how many
are made. `MaxIds` bounds the documents created for the address (a sign-up that
would create another waits), so a run stops where it is reached and deadlock
checking is off there. It is off too in `chat`, `media`, `discovery` and `delivery`,
where request ids, files, members or messages run out.

| Run | Bounds | Shows |
|---|---|---|
| `account` | 2 requests, 1 password, 1 provider, codes 10..11, 2 attempts, 2 documents, failures; 2.7 million | all ten handlers interleaved, by subject (below): the inductive invariant `AuthInv`, `PasswordConfirmedUnlessStray`, `NoAccessWithoutEvidence`, `VerifiedNeverRemoved`, `OnlyActivationRevives`, `TombstoneScrubbedUnlessCrowded`, `ResendReplacesCodeUnlessOutdated`, and the refinement `ImplementsLifecycle` |
| `ban` | 2 requests, 2 admin calls; 195 000, with fairness | `BanInv`, `BanHoldsUnlessFilling`, and the liveness property `ClosedIsRefused` |
| `roles` | 3 users, 2 calls; 1.1 million | `AdminRemainsUnlessOverlap`: whatever two admins do at once, an admin remains unless their checks overlapped |
| `chat` | 2 users, 2 requests, 2 rooms, 2 calls, failures, deletions; 3.8 million | the promises about answers, rooms and pending requests, `ChatInv` (with `AcceptedHasRoom` in it), and the refinement `ImplementsIntroductions` |
| `deletion` | 2 members, 2 calls, failures; 2 million | `EraseInv`, `ErasedUnlessTouched`, with deletions that fail and start again |
| `media` | 3 photos and 3 pictures ever uploaded, limit 2, 2 calls, failures; 216 000 | uploads, deletions and reviews interleaved: `MediaInv`, `GalleryLimit`, `ApprovedPhotosReviewed`, the refinement `ImplementsMemberMedia`, and what a document names against what Cloudinary holds |
| `discovery` | 2 members, 3 fields in 2 sections, 3 patches, 2 calls, failures; 769 000 | updates, backfill, notices, searches, lists, saves, blocks and deletions: `DiscoveryInv`, `OnboardedUnlessOverlap`, `SentinelNeverDiscovered`, `SavedNotBlockedUnlessOverlap`, `NoticedOnceUnlessOverlap` |
| `delivery` | 2 members, 2 sockets, 2 messages, 1 request, 1 notice, 2 devices, 2 tokens, 2 attempts, restarts; 166 000, with fairness | `DeliveryInv`, `OnlineHearsUnlessOpening`, `LastMessageUnlessOverlap`, `PushedOnceUnlessUnanswered`, `OnlyDeadTokensPrunedUnlessInvalid`, and the liveness property `WorkSettles` |
| `concurrent_sign_ins` | 2 requests, 2 providers, 1 document | a [finding](#findings): `AccountsLinked` must be violated |
| `last_admin_demoted`, `second_deletion` | one call at a time | [findings](#findings): `UsableAdminRemains` and `DeletionDeletes` must be violated |
| `placeholder_introduced` | as `discovery`, with chat requests | a [finding](#findings): `DefaultsNeverSeen` must be violated |

Why these bounds are enough. Every race in this code is between one handler's
read and its write, with another handler's writes between, so two slots contain
it; a third would add more of the same, and the theorems cover any number. Two
codes let a submission be right, wrong or stale. Two attempts make the first wrong
submission count and the second lock. Two documents let a registration be rolled back and made again
under a handler that still holds the first: that the password is the same does not
matter, since `confirmed` belongs to the document. Three users let an admin be purged while
another is left. `deletion` leaves out two of the seven kinds of writers, `save` and
`read`, for size; the theorem has them all. `media` has a limit of two photos and one
more file than fits, so that the guard refuses, a deletion frees a place and two
uploads overlap at the limit; its constraint `OneSubject` lets a behaviour upload photos
or pictures, not both, since the two share no variable but the slots.

Four more runs are divided so, which keeps a behaviour to one subject; every
interleaving within a subject is there, and the theorems have no constraint.
`account` (`SubjectSpec`): registrations made, rolled back and made again, with resends,
resets and deletions; forgotten and changed passwords with logins; or social sign-ins with
an admin's status writes and deletions, where only right codes are submitted.
`chat`: one request and everything that may happen to it, or two requests and their
answers. `discovery`: the profile of one member, whom the other saves and looks for,
or the interactions of both; one field is an array, which counts as filled when empty,
and one section has a single field, as the code's last one. `delivery`: two messages
sent at once by members in the room's channel (`TwoSends`); two sockets that come and
go while the room opens (`TwoConnections`); one message, request or notice on its way to
the devices of the other member, while they register, change hands, rotate and expire and
a token dies (`Pushes`). Two attempts make a first failure retry and the second give up;
two stalls are the limit in BullMQ itself.

Properties called `...UnlessOverlap`, `...UnlessFilling`, `...UnlessTouched` and
`...UnlessFailed` say precisely when a promise that the code makes unconditionally
does hold. The excluded case is real in each of them (two calls past one check; a
cache fill across an eviction; a write into a cleaned collection; a failure after
the request was saved; a socket that is being set up as the room opens, or a room opened
over HTTP, which tells nobody; a push that was taken and whose answer was lost; a message
that Firebase calls invalid although its token works): the code
has no lock, index or filter there. The three of `AccountAuth` are of this kind:

- `PasswordConfirmedUnlessStray`: `verifyCode` matches a code mailed for one registration;
  that sign-up's mail call fails and rolls it back, the address registers again, and
  `updateOne({email})` activates the new document, whose password nobody confirmed.
  The code itself can do it too: the rollback deletes the document before the code, so
  it may be presented after the address has registered again. `confirmed` is then
  `"stray"`; without the exception TLC finds a violation.
- `TombstoneScrubbedUnlessCrowded`: a social sign-in in flight pushes its provider by `_id`
  into the tombstone of the account it looked at (users.service.ts:333), and an admin's
  status write in flight reopens the tombstone.
- `ResendReplacesCodeUnlessOutdated`: of two resends at once each draws against the code
  that was stored, and the second may store the code the first has just stored.

## Fairness

Two properties need it. For `ClosedIsRefused`, `JwtStatus!FairSpec` assumes weak fairness
of the continuation of a request (the event loop runs every callback of a promise that
settles) and of the expiry of the cached status (Redis drops a key at its time to
live). It assumes nothing about admin calls or about requests arriving.

For `WorkSettles`, `Delivery!Spec` assumes weak fairness of `ServerSteps` as a whole:
while some handler, dispatch or job can go on, one of them does. Node.js returns to a
handler whose call was answered, the worker takes the next job, and MongoDB, Redis and
Firebase answer or time out. Which step comes next, whether Firebase accepts, refuses or
fails, and whether an answer is lost is left open; nothing is assumed of clients,
devices or restarts. That all work ends then rests on the code: attempts are counted,
stalls are limited, and no step of a dispatch goes back. An instance has finitely many
messages and notices, so the property says that what was begun is not worked on
forever, not that a busy server is ever idle.

## What is proved

TLAPS checks each theorem for every value of the constants, from the named
assumptions in the modules (`CodeRange`, `AuthAssumption`, `RolesAssumption`,
`IdsAssumption`, `MediaAssumption`, `DiscoveryAssumption`, `MessagesAssumption`,
`PushAssumption`, `DeliveryAssumption`), which TLC evaluates in the runs.

- **Authentication** (`AccountAuthProofs`). `TypeCorrect`; then
  `Invariant`, that `AuthInv` is inductive. `PasswordConfirmedUnlessStray` alone is
  not: a handler that passed its checks long ago may write now. `AuthInv` adds
  that each request about to activate, to set a password or to sign a token has
  its evidence (`Justified`), which only grows (`EvidenceStays`), that a snapshot whose
  document is still stored is of a confirmed one when a password is about to be changed
  (`StillConfirmed`), that ids and sessions agree with the document (`Shape`), and that the
  password behind a session is confirmed (`SessionsConfirmed`). From it:
  `PasswordsConfirmed`, `AccessNeedsEvidence`, and `Implementation`: under `AuthInv`
  every step is a step of `AccountLifecycle` or leaves it alone. `RollbackSpares`,
  `DocumentStays` and `ClosedStaysClosed` are its action properties (`TypeCorrect` and
  `DocumentStays` state what the run checks inside `AuthInv` or not at all). `NextCodesExact`:
  after a code, `generateOtp` draws exactly the other codes. `TombstonesScrubbed` rests on
  `TombstoneInv` (whoever still is at work on an uncrowded tombstone has read a document that
  no longer validates) and `ResendsReplace` on `DrawnCodesDiffer`; both hold for any number of
  concurrent requests.
- **Token check** (`JwtStatusProofs`): `BanInvariant` and from it `BanHolds`. `BanInv` says that while a
  ban stands and no fill was in flight at its eviction, neither the cache nor any
  request holds ACTIVE. `OldFades` and `StaysRefused` are the safety core of `ClosedIsRefused`:
  while an account stays closed nobody newly comes to hold its old status, the
  cache gets it only from a request that held it, and once cache and requests have lost
  it the account is refused for good. What is left to TLC is that they do lose it, which
  rests on fairness.
- **Administration** (`AdminRolesProofs`): `LastAdminKept`. While demotions do not
  overlap, at most one is past the count and another admin stands behind it; the
  step from the count to that admin is a fact about cardinalities (`AnotherAdmin`). The
  tombstone keeps the role, so a purge takes no admin from the count.
- **Chat** (`ChatRequestsProofs`): `ChatInvariant` and from it `RoomForAccepted`,
  `OneRoom`, `OneAnswer`, `AnswerKept`, `GreetingKept`. The invariant says what a call
  may still believe of what it read: between the search and the insertion nobody else
  makes the room; a response finds its request as it left it or deleted; the text
  of an accepted request is a message or in the hands of the acceptance.
  `OnePending`: `OnePendingUnlessOverlap` is one of its conjuncts. `Implementation`:
  under the invariant every step is a step of `Introductions` or leaves the documents alone.
  A guard of the abstract operation, say that no other request is pending, was seen by
  the call earlier; the invariant says that it still holds unless the overlap is recorded.
  `GreetsAlways` is the one fact it lacks: who stores a text has a request with a text and a room.
- **Deletion** (`AccountDeletionProofs`): `EraseInvariant`, `Erased`. A deletion nobody wrote against
  has emptied every collection it has passed. `OneTombstone` generalises the finding
  `second_deletion`: for any number of members and calls, at most one account ever becomes a
  tombstone.
- **Media** (`MediaProofs`): `Invariant`, that `MediaInv` is inductive, and from it
  `LimitKept`, `ApprovedAreReviewed`, `OnlyReviewedPicture`, `PictureStored`,
  `PhotosStored` and `GalleryIsKept`. The limit alone is not inductive: what is written
  is a copy read before the upload, so `LimitHolds` says of every copy that it has room
  for what its call uploads; `Fresh` says that an uploaded file is known to nobody
  else until it is written; `CopiesReviewed` keeps the approvals of the copies
  honest; `CopiesCurrent` says that while no array writer overlapped, a copy is the gallery.
  `Implementation`: every step is a step of `MemberMedia` or leaves the document alone. It
  needs one fact more, `ApprovalsStand`: an approval that read APPROVED, and so writes
  nothing, still finds it so.
- **Profiles and interactions** (`DiscoveryProofs`): `CompleteMeansAll`, that percentages
  rounded to an integer are all 100 exactly when every field has a value, for sections of
  fewer than 200 fields; `DiscoveryHolds`, and from it `FlagIsTrue`, `PlaceholdersHidden`,
  `SavedOrBlocked` and `NoticedOnce`. That discovery shows nobody with placeholders depends
  on what calls carry: `SentinelsApart` says that while a member has them, no update
  without the identity is under way, no computation of an update is pending, and the
  backfill can only have computed FALSE.
- **Messages, devices and pushes** (`DeliveryProofs`): `DeliveryHolds`, and from it
  `OnlineHears`, `LastMessageKept`, `PushedOnce` and `OnlyDeadPruned`. `DeliveryInv` is
  the invariant of each half and what relates them: `PresenceCurrent` needs that a
  connected socket has a user; `LastMessageUnlessOverlap` needs that a message between
  its two calls is the newest (`TouchesApart`); `PushedOnceUnlessUnanswered` needs that a
  job that may still be sent has not been taken, or not been seen to succeed
  (`PushesCurrent`), and that a restart can tell which jobs were at work;
  `OnlyDeadTokensPrunedUnlessInvalid` needs that a token that is not registered is dead for
  good (`JobsCurrent`). The lemmas are by kind of step: one
  socket moves (`SocketMoves`), one handler (`SendMoves`), one dispatch
  (`EventMoves`), one job (`JobMoves`), and each action is one of these. `CountsDown` is the
  safety core of `WorkSettles`: whatever clients, devices and restarts do, no handler,
  connection, dispatch or job goes back, and every step the server takes by itself brings one
  of them nearer to its end (`SendPlace`, `EventPlace`, `JobPlace` and the like are natural
  numbers). What is left to TLC is that a step is possible while something is unfinished
  (`ENABLED`) and that finitely many numbers cannot fall for ever (well-founded induction).

Only model-checked: the four refuted properties, `AccountsLinked`, `UsableAdminRemains`,
`DeletionDeletes` and `DefaultsNeverSeen`, and the liveness properties `ClosedIsRefused` and `WorkSettles`, since
fairness and `ENABLED` are out of the prover's reach; the safety each rests on is proved.

Still to do: an operations-at-once specification for `Discovery` and for `Messages`, as
`Introductions` is for `ChatRequests`.

## Abstractions

- One e-mail address per `AccountAuth`; its keys and document are independent of
  other addresses' but for the unique user name and phone number. The password
  stands for user name, phone number and password of a registration form. A bcrypt
  hash is the password it verifies, codes are a small interval.
- The caller of `changePassword` holds a token; `validate` in front of it is modelled
  in `JwtStatus` alone. `deleteAccount` may be called whatever the status is (the
  admin's call looks at the role only). Both let more happen than the code does.
- `save()` validates the whole loaded copy, writes the changed paths and throws if the
  document is gone; `updateOne` and `findByIdAndUpdate` validate nothing. A tombstone
  (required fields null) and the document of `create-admin.ts` (no `onBehalf`) are
  therefore never saved. This is how Mongoose behaves, and the models state it at
  each write.
- Any call may throw where a run says so; a lost answer of a write to MongoDB or Redis that
  took effect is not modelled. Firebase's is (`AnswerLost`).
- `AccountAuth` writes the tombstone as one update; `AccountDeletion` has what comes
  before it, and the duplicate key that may refuse it. `Discovery` and `Messages` have
  the steps of a deletion that touch their variables. In `AccountAuth` that refusal is
  a call that fails.
- `ChatRequests` keeps of a room who takes part and who has left by deletion, and of a
  message that it exists. `Messages` keeps of one room what connections and messages do
  to it, from its opening on; it leaves out `lastActivity`, typing indicators and pages.
- `Discovery` keeps of a profile which of its counted fields have a value, and of the
  identity whether it is made of placeholders; `SignUp` stands for sign-up and social
  sign-in. A PATCH that sends null for the identity is not among the patches: its DTO lets it pass
  although its type does not.
- In `PushDelivery` a job's delay before a retry is another wait, and a payload is the kind of
  its event: whether Firebase finds it malformed or too big is left open (`SendInvalid`).
  The notices of a review or a complete profile name no sender, and
  firebase-admin refuses a payload with an undefined field before anything is sent: their
  attempts all fail (`SendAccepted`, `SendRefused` and `SendInvalid` ask for a chat event).
  An update of a device with `fcmToken: null` is left out.
- `AccountDeletion` has one room and one message per member, since a deletion treats
  all alike, and leaves out the hand-over of a device to another user.
- `Media` models the profile video by the picture, whose handlers are the same
  statement by statement on fields of their own, and runs a batch approval as
  approvals in slots of their own. Thumbnails and rejection reasons, which no code
  reads, the files an upload leaves behind when another file of its batch fails, and
  `resubmitGalleryPhoto`, whose guard asks for a rejected photo that no code makes, are
  left out.
## Findings

- `concurrent_sign_ins`: `linkSocialOrCreate` says that concurrent sign-ins are race-safe
  (users.service.ts:197). Two providers that both read a registration as PENDING race: one
  flip matches and replaces `authType` by its own provider, the other matches nothing and
  still pushes its record, whose provider is then not among the sign-in methods.
- `last_admin_demoted`: the guard "Prevent demoting the last admin" (admin.service.ts:226)
  counts documents with the role. A purged admin's tombstone keeps it, so after one purge the
  last admin who can sign in is demoted. (A second purge would not get there: its tombstone
  is refused, as the next finding says.)
- `second_deletion`: the tombstone stores `mobilePhone: null` under a unique sparse
  index, which leaves out absent fields and not nulls; the second deletion ever made
  fails at its last write, with the other collections already cleaned.
- `placeholder_introduced`: "other users never see these defaults", users.service.ts:229-233
  says of the placeholders of a social sign-in. A member who still has them may send a chat
  request, and `getIncomingChatRequests` (chat.service.ts:375-386) returns the stored birth
  date to the receiver.

More divergences have no run of their own, since a model would only restate a line:

- `push-notification.processor.ts:16` counts `messaging/invalid-argument` among the invalid
  tokens; `notifications/SPEC.md:64` lists only the two codes that are about a token. Firebase
  answers it for a malformed or too big message too, and a name in the text has no maximum
  length, so a device that works may be deleted: the exception in
  `OnlyDeadTokensPrunedUnlessInvalid`.
- The media endpoints look at the visibility and never at the review status
  (media.service.ts:326-423), unlike `getProfile`, which shows approved media only
  (users.service.ts:425, 446).
- A message is never marked as delivered. `chat.gateway.ts:125` says "Mark as delivered
  for online users", but the key it looks up is the text of a populated participant and not an id
  (`ParticipantKey`). With the id, `markMessageAsDelivered` would overwrite a
  status that is already `read`: `DeliveryInv` fails in that variant, so the slip hides a
  race that appears once it is mended.
- `getUserChatRooms` compares `chatRoomId` with strings in an aggregation, which casts
  nothing, so every unread count it returns is 0.
- `blockProfile` removes the blocker's saved record and leaves the one of the
  blocked member, who keeps seeing the profile in the saved list; `getProfile` filters
  its result by ids that the profile itself can never be among. A tombstone keeps `isOnboarded`, so a member who was
  saved after the deletion passed the interactions is listed with scrubbed fields.

## Not modelled

| Left out | Why |
|---|---|
| mail templates and SMTP | a call that succeeds or throws in the models that send mail |
| verification of provider tokens | external keys; the models start from a verified identity |
| routing, request validation, formatting of errors, logging | no state, or written and never read |
| listings, statistics, pages, filters of a search | read only; `QueryProfiles` shows any part of those who match |
| file transformations and formats | uploads and deletions of files are in `Media` |
| `resubmitGalleryPhoto` | its guard asks for a rejected gallery photo, which no code makes |
| media privacy of a profile | a filter of one answer, with nothing to interleave |
| a server without Firebase credentials | drops every job at once |
| a third participant of a room | rooms are made of the two members of a request or a call |
| a refinement of a one-step deletion by `AccountDeletion` | `ErasedUnlessTouched` states its content: who was not written against is erased |
