# Verification of the user-management service

TLA+ models of the NestJS service in `src/src` (users, administrators,
notifications, review reports of a campus application): what its handlers do to
MongoDB and to the Amazon Cognito user pools when requests overlap and calls
fail. TLC checks small instances, TLAPS proves the main results for every
instance. Paths and line numbers below are relative to the repository root's
parent, as in `PROJECT.json` (`src/src/modules/...`).

## 1. The system

One Node.js process (or several behind a balancer) serves HTTP requests. There
are no transactions and no locks: a handler is a sequence of awaited calls to
MongoDB, to Cognito, to e-mail and to Firebase, and any other handler may run at
each await. MongoDB updates one document atomically; the only thing that spans
documents is a unique index. A handler that throws leaves behind what it wrote.

| Component | State | Operations | Interacts with |
|---|---|---|---|
| Users: sign-up and deletion (`modules/users/users.service.ts`) | `users` collection | unified phone OTP, signup, managed creation, delete | Cognito customer pool, configuration |
| Users: onboarding, profile, membership (same file) | `users` (status, name, e-mail, verification flags, institution) | verify OTP, set/change user name, verify/confirm e-mail, activate, profile, managed update, detach | Cognito attributes and codes, institutions |
| Users: login, sessions, devices (same file) | `users.deviceId`, sessions and challenges of the pool | request, send again and verify an OTP, log out | Cognito customer pool |
| Users: listings and look-ups (same file, pagination) | none; read from `users` and the chat service page by page | findFriends, findAllFriends, findAllUsers, look-up by phone number | chat service |
| Configuration (`modules/configuration`) | one document, or defaults | get, update | read by every sign-up |
| Users: bulk upload (`modules/users/bulk-upload`) | maps of one upload, rate-limit windows | upload, template | managed creation and update |
| Administrators (`modules/admin-users`, with its bulk upload) | `admin_users`, institutions, permission groups | create, onboard, update, password, status, delete, upload | Cognito admin pool, e-mail, `users` of the same address |
| Admin authentication, Cognito service | none of their own | forward to the pools | Cognito |
| Notifications, Firebase | `device_tokens`, `notifications` | register, update and deactivate tokens; create, send, mark, dismiss | Firebase, chat service |
| Review reports | `review_reports` | create, moderate, delete | chat service, `users` (block) |
| Permissions, permission groups | their collections | create, update, replace, delete | administrators |
| Dashboard, store, guards, plumbing | none between requests | reads, signed URLs, checks | - |
| Maintenance scripts (`src/scripts`) | a snapshot of `users` while they run | migrate statuses, synchronise institutions | `users`, `admin_users`, next to the service |
| OTP lambda | - | an earlier copy that nothing imports | - |

`PROJECT.json` lists every component with its sources and whether it is
modelled, and every hazard with its line.

What is hard, and what correctness means, component by component:

* **Sign-up.** The phone number has no unique index and the user limit is a
  count: both are read several awaits before the insert. Cognito accounts are
  created before users and deleted after them. Correct means: limits are
  exceeded by no more than requests that overlap; a failed attempt does not lock
  a phone number out; a live user has an account to send an OTP to.
* **Onboarding.** Handlers read the user, decide, call Cognito and write by user
  id. Correct means: user names are unique; an address comes after the phone
  number and the name; a verified address is one somebody vouched for; a request
  that outlives its user's deletion, or its pending status, writes nothing; a
  client that repeats its steps gets activated.
* **Sessions.** A verification signs the device before out, writes the new one and
  only then answers the password; the user is read twice on the way. Correct
  means: sessions on one device at a time, and none for a user that was deleted, or
  blocked, before its device was written. The second half does not hold of who has not yet
  signed up, whose status nothing asks for again.
* **Listings.** A page is a count and a find of different moments, and what is left
  out was read earlier still. Correct means: a walk misses and repeats no more
  users than came and left, and offers nobody as a stranger who is none.
* **Bulk upload.** What becomes of a row is settled from one reading of the users for
  the whole file; rows are then written one by one and fail one by one. Correct
  means: an upload that was let in fits, a dry run announces what the upload
  would do, and where others wrote meanwhile the members of other institutions
  and deleted users are left alone. The dry run keeps this of everything but user names,
  which it does not look at.
* **Administrators.** A creation writes to four places and compensates for
  failures by hand. Correct means: a creation is kept for good, undone, or left
  behind because undoing it failed; documents match accounts; phone numbers
  are shared only by races.
* **Notifications.** Token registration is find-then-write; sends finish after
  the user has read or dismissed the notification. Correct means: no more active
  tokens of a type, or notifications about a message, than requests overlap; a
  read notification stays read; a delivered one is not called failed.
* **Review reports.** The connection, the report and the user are written in turn with
  a call to the chat service in between. Correct means: who stands in a report
  can no longer reach the reporter, and only who may deal with a report does.
* **Maintenance scripts.** They read all users once, write them from that, and may stop
  anywhere. Correct means: a run that ends leaves nothing to do, and what it
  overwrites is not what somebody decided meanwhile.

## 2. Modules

| Module | Models | Checked by | Proofs |
|---|---|---|---|
| `Admission` | the abstract promise of a check-then-insert | through `Signup` and `Notifications` | `SignupProofs` |
| `Signup` | account creation and deletion | `MCSignup` | `SignupProofs` |
| `SignupOverlap` | `Signup` with a look back at which requests overlapped | `MCSignup` | `SignupProofs` |
| `SignupRetry` | `Signup` with a client that asks again | itself | - |
| `Onboarding` | everything that happens to a user afterwards | `MCOnboarding` | `OnboardingProofs` |
| `OnboardingLive` | `Onboarding` with a client that goes on | `MCOnboardingLive` | - |
| `Session` | one-time passwords, sessions, devices, log-out | `MCSession` | `SessionProofs` |
| `Directory` | listings read page by page, look-up by phone number | `MCDirectory` | `DirectoryProofs` |
| `UserBulk` | files of users of an institution, beside sign-ups, changes of users and deletions | `MCUserBulk` | `UserBulkProofs` |
| `Compensation` | the abstract promise of an operation that undoes its writes | through `Administration` | - |
| `Administration` | administrators, onboarded institutions, their accounts, uploads of administrators | `MCAdministration` | `AdministrationProofs` |
| `Notifications` | device tokens, notifications and their delivery | `MCNotifications` | `NotificationsProofs` |
| `Moderation` | review reports, connections, blocks | through `BackOffice` | `BackOfficeProofs` |
| `Maintenance` | the migration and synchronisation scripts | through `BackOffice` | `BackOfficeProofs` |
| `BackOffice` | `Moderation` and `Maintenance` on the same users | `MCBackOffice` | `BackOfficeProofs` |

A request is a *slot* with a program counter; each action is the code between two
awaits, so any two requests interleave as they may in the event loop (of one
process or of several: nothing in the models is shared but the stores). `Abort`
is an awaited call that rejects: what was written before stays written. The
operators marked *Mutant* are plausible bugs; `PROJECT.json` says which property
detects each, and no specification uses them.

### Signup

`users` is the collection (id to phone number and absent/live/deleted),
`accounts` the customer pool (its user names are phone numbers), `config` the
configuration document, `base` a history variable (live users when `config` was
last written).

| Code | Actions |
|---|---|
| `requestUnifiedPhoneOtp` (325) | `StartUnified`, `FindByPhone`, first `ReadConfig`/`CountUsers` |
| `checkSignupRestrictions` (1420) | `ReadConfig`, `CountUsers` |
| `signup` (148) | `ResolveReferral`, `ReadConfig`, `CountUsers`, `EnsurePhoneAvailable`, `SignUp` or `UsernameExists`, `SendOtp`, `InsertUser` |
| `createInstitutionManagedUser` (669) | `StartManaged`, `ReadConfig`, `CountUsers`, `EnsurePhoneAvailable`, `SignUp` or `UsernameExists`, `AutoHeal`, `RetrySignUp`, `InsertUser` |
| `deleteUser` (2579), a turn of `bulkDeleteUsers` | `StartDelete`, `SoftDelete`, `DropAccount` |
| `updateConfiguration` | `UpdateConfiguration` |

The limit is read once and compared with a count read one await later, so
`ReadConfig` and `CountUsers` are separate. A managed creation finds an existing
account, deletes it and signs up again, without asking whose it is.
`deleteUser` and `bulkDeleteUsers` are service methods that no controller of this
commit routes to; they are modelled because the service offers them.

`Admission` says what such a check promises: a requester is admitted while the
total is below what is allowed, and adds one later. `LimitIsAdmission` and
`PhoneIsAdmission` state that the sign-up follows it, once with all live users as
the total, once for each phone number with a limit of one. The refinement
mapping makes a requester a holder when nothing will stop it any more:
for the limit that includes a request whose allowance, read before an update of
the configuration, is larger than the one in force now.

`SignupOverlap` adds a history variable, `overlapped`: the phone numbers that two
requests have been handled for at the same time. It restricts nothing, and lets
`OneAtATime` speak of the other numbers.

### Onboarding

`doc` is the part of a user document that the handlers decide by, `attribute` the
e-mail attribute of its Cognito account, `code` the address the last verification
code was sent to, `vouched` a history variable: the addresses a code was entered
for, or that an institution uploaded, with the institution.

| Code | Actions |
|---|---|
| `verifyUnifiedPhoneOtp` (388), `verifySignupOtp` (232) | `StartVerifyOtp`, `AnswerOtp` |
| `setUsername` (510), `changeUsername` (554) | `StartSetUsername`, `StartChangeUsername`, `FindName`, `WriteName` |
| `updateUserProfile` (1974): name and status | `StartProfile`, `FindName`, `WriteProfile` |
| `verifyEmail` (972) | `StartVerifyEmail`, `FindEmail`, `WriteEmail`, `UpdateAttribute`, `RequestCode` |
| `confirmEmail` (1059) | `StartConfirmEmail`, `EnterCode`/`RejectCode`/`EnterDefaultCode`, `ConfirmEmail` |
| `activateByQrCode`, `activateByReferralCode` (1720) | `StartActivate`, `Activate` |
| `updateInstitutionManagedUser` (766) | `StartManage`, `FindEmail`, `FindName`, `UpdateManaged` |
| `removeUserFromInstitution` (2486), a turn of its bulk form | `StartDetach`, `Detach`, `ClearAttribute` |
| `deleteUser` (2579) | `StartDelete`, `Delete`, `DropAccount` |
| `ReviewReportService.updateStatus`: the block of a user | `BlockReported` |

A request's arrival and its first read are one action, since it does nothing
before; one that is turned away there has no action. `setUsername` filters its
update by status pending, the other handlers by `isDeleted: false` (`Update`), the
moderator's block by neither. The unique index on `userName` is the guard
`~NameTaken` of every action that writes a name. Which institutions an address
belongs to (its administrator's, or those of its domain) is the constant
`Belongs`; `AdminEmails` are addresses of administrators without an institution.

Left out of `Onboarding`: the phone number is the user's identity (one number,
one user; `Signup` shows how far that can fail); profile fields nothing decides
by; a profile update that sets the name to null; `deviceId` and `referralCode`,
which are written by user id alone, also to a deleted user; the institution that
admin creation writes to users of the same address (admin-user.service.ts
115-141, 344-359); the TTL index on `expiresAt`, which never fires because
nothing sets the field.

### Notifications

`device` is the device tokens (user, device type, active), `note` the
notification history (user, message, status). Four history variables say what the
properties need: `revived` (tokens made active other than by their creation),
`settled` (notifications read while no request handled them), `delivered` and
`disturbed` (see `FailedUndelivered`).

| Code | Actions |
|---|---|
| `registerDeviceToken` (131) | `StartRegister`, then `Own`, or `Clear` and `Create` |
| `updateDeviceToken` (179) | `UpdateDeviceToken` |
| `deactivateDeviceToken` (255), `validateToken`, `sendToDevices` | `Deactivate` |
| TTL index of the device tokens | `Expire` |
| `createNotificationRecord` (305) | `StartAgain`, or `StartCreate` and `Insert`; `CheckMute` |
| `sendNotificationToUser` (384), `sendToDevice` | `FindTokens`, `SendReaches`/`SendRefused`, `CleanUp`, `MarkFailed`, `MarkUnread`; its catch: `SendThrows`, `MarkFailed` |
| `dismissChatNotifications` (558) | `Dismiss` |
| `updateNotificationStatus` (520), from a client | `UpdateNotificationStatus` |

A handler that is one update is one action without a slot. The unique index on
`token` is the guard of `Create`. Whether a user or a connection is muted is a
choice, since nothing here writes it; so is what Firebase answers: it
takes the message, refuses it, or refuses the token. A bulk send appears only
through the tokens it deactivates (`Deactivate` takes any set). Left out:
notifications for no user, which nothing sends; the statuses that only a client
writes and nothing reads; conversations (a dismissal names any set of messages).
Devices are sent to in any order, as the database returns them.

### Session

`challenges` is the one-time passwords that clients hold, `sessions` what the pool
holds, of a user on a device; `users.device` is `deviceId`. `fit`, `overtaken` and `unsure`
are history variables (see the properties). `Suits` is what the handlers ask of a user when
they read it again: a login asks for an active one, a sign-up only for one that is not
deleted. `Fit`, which history goes by, asks for one that is not blocked as well. A caller without a device id is a client
of its own (`NoDevice`).

| Code | Actions |
|---|---|
| `requestLoginOtp`, `resendSignupOtp`, `resendUnifiedPhoneOtp` | `RequestLoginOtp`, `ResendOtp` (one read, one call) |
| `verifyUnifiedPhoneOtp` (388) | `Verify`, `SignOutDevice`, `Bind`, `Check`, `Answer` |
| `verifyLoginOtp`, `verifySignupOtp` | `StartLogin`, `Check`, `Answer` |
| `logout` | `StartLogout`, `Revoke`, `GlobalSignOut` |
| moderators, sign-up's end, deletion | `SetStatus`, `DeleteUser`, `DropAccount` |

A sign-out that fails is logged and the verification goes on; a wrong password may
be tried again; the pool may also refuse it for good. The service's own JWT and
its refresh are left out: they keep no state.

### Directory

A walk is a client that asks for page after page until it has been through as many
users as there are said to be. `status` and `joined` are the users collection:
listings are sorted by `createdAt`, the newest first, and `joined` numbers the
users in the order of their creation. A page is the users whose `Rank` in the
listing, the number of those newer than they, lies in the page. `requests` and `connection` what the chat
service keeps of the requester; `findFriends` and `findAllFriends` read friend requests
(`friend`) only, the look-up by phone number reads requests of any type
(`PendingFor`). `steady`, `came`, `left` and `fresh` are history variables.

| Code | Actions |
|---|---|
| `getExcludedFriendPeerIds` of `findFriends` | `ReadPeers` |
| `PaginationService`: count and find, sent together | `CountUsers`, `FindUsers` in either order |
| details of `findAllFriends` (2279-2300) | `ReadConnections`, `ReadRequests` |
| `getUsersByPhoneNumbers` | the operator `ByPhone` (one aggregation) |
| users and requests that come and go | `Register`, `SetStatus`, `Relate`, `Accept`, `Withdraw` |

Search terms and the projections of the documents are left out.

### UserBulk

`users` is the collection in the order of creation, `slot` the uploads and sign-ups, with
the rows they have still to write (by their place in the file), `disturbed` whether somebody
else wrote since an upload read the users of its file, or of its present row. A sign-up does
what a row of a new user does, awaits apart: it counts, looks for its number, and inserts.
So it is a request with one row, which has no address, name or institution.

| Code | Actions |
|---|---|
| `processUpload` up to the first row (parse, duplicates, maps, outcomes, limit) | `StartUpload` with `Repeats`, `Conflicts`, `Found`, `Links`, `Settled`, `Projected` |
| a row of a known user: `updateInstitutionManagedUser` | `ReadLinked`, `FindEmail`, `FindName`, `Link` |
| a row of a new user: `createInstitutionManagedUser` | `CheckLimit`, `FindUsers`, `Insert` |
| a rejected await of a row; the end of the file | `Abort`, `EndUpload` |
| `signup` | `StartSignup`, then `CheckLimit`, `FindUsers`, `Insert` |
| the writes of `verifyEmail`, `confirmEmail`, `changeUsername`, `deleteUser` | `VerifyEmail`, `ConfirmEmail`, `ChangeUsername`, `Delete` |

Of the last line only the writes are modelled, to any address and institution: what they were
decided on is the subject of `Onboarding`. The unique index on `userName` is the guard of
every write of a name; `NoName` stands for a temporary name, which is chosen so that nobody
has it. A row that names no user name keeps the one its user has (`Resolved`).

The pure part of an upload is operators over a file and the users of one moment; a
dry run is the upload without its rows, and `DryRunsPredict` compares what it
announces with what the rows meet. The Cognito account of a row is that of
`Signup` and left out here; so are departments, reports and the
rate-limit guard.

### Compensation and Administration

`Compensation` says of each thing an operation makes that it is pending until the
operation is over, and then kept for good, undone, or left behind because the
undoing failed. `Administration` is `createAdminUser`, `createOnboardingAdminUser`,
`update`, `deleteAdminUser` and the bulk upload of administrators, each await a
step, over `admin` (documents), `pool` (accounts by user name) and `inst`
(institutions with their permission group). `AdminPhase` and `InstPhase` are the
refinement mappings.

| Code | Actions |
|---|---|
| `createAdminUser` (30) | `StartCreate`, `FindInstitution`, `FindPhone`, `Insert`, `CreateAccount`, `SetPassword`, `UndoAdmin` |
| `createOnboardingAdminUser` (158) | `StartOnboard`, `FindPhone`, `DomainFree`, `FoundInstitution`, `LoseName`, `MakeGroup`, `Insert` or `OnboardRefused`, `CreateAccount`, `SetPassword`, `UndoAdmin`, `UndoInstitution` |
| `update` (429) | `StartUpdate`, `CheckDuplicate`, `WriteAdmin` |
| `deleteAdminUser` | `DeleteAdmin` |
| `processUpload` of administrators | `ReadRow`, then `CreateRow` and the creation, or `UpdateRow` and the update |
| `CognitoService.createAdminUser` (38) | `CreateAccount`, `SetPassword`: two calls, either of which may fail |

A row of a file is a request of its own, since the rows were settled from what was
read before the first. The record service that keeps institutions is external: a
query for a domain may or may not return what was deleted, and a query that
fails is taken for one that finds nothing, as in the code.

### Moderation, Maintenance, BackOffice

| Code | Actions |
|---|---|
| `ReviewReportService.create` (135) | `StartReport`, `ResolveInstitution`, `Sever`, `SaveReport` |
| `updateStatus` (407), with `loadAndAuthorize` and `assertReviewReportScope` | `StartSettle`, `Settle`, `BlockUser` |
| `delete` | `StartRemove`, `Remove` |
| `migrate-user-status-and-remove-isactive.ts` | `StartMigrate`, `MigrateUser` |
| `sync-institution-id-to-users.ts` | `StartSync`, `FindAdmin`, `SyncUser` |
| either script: a failing write, the end, a kill | `FailUser`, `FinishScript`, `Crash` |
| `removeUserFromInstitution`, `deleteUser`, `update` of an administrator | `Detach`, `DeleteUser`, `MoveAdmin`, `RenumberAdmin` |

`phone` is, for each user, the phone number of the administrator with its address: the user's
own, another, or missing; `PhoneMatch` is what the script makes of it. `isBlocked`, which
`updateStatus` writes beside the status, is read by nothing in the repository and left out.

Scripts run one at a time, as their operator runs them, and may be run again. The
users that exist before the first migration may have a status of an older
version: `completed` stands for those that become active and `unknown` for all
that the mapping does not know. `inactive` belongs to deleted users only, which
`deleteUser` writes in the same update. `moved` and `stale` are history variables:
what changed behind the back of a moderator, and of a script.

## 3. Runs

| Run | Question | Bounds |
|---|---|---|
| `signup_concurrent` | Do limits overshoot by less than the overlap, and are both checks admission checks? Can a failing call leave a number whose requests came one by one with a user without an account, or with two users? | 2 requests, 2 numbers, 3 users, allowances 1 and 2; 909k states |
| `signup_retry` | Does a client that asks again get its user? | 2 requests, 1 number, 2 failing calls |
| `onboarding_sequential` | Is a verified address always a vouched one, while nothing overlaps or fails? | 1 user, 3 addresses (one an administrator's), 2 institutions, every operation; 419k states |
| `onboarding_overlap` | What do two overlapping, failing requests of any kind preserve? | 2 requests, one user with every operation and a rival for its name; 735k states |
| `onboarding_live` | Does a client that repeats its steps become active? | 2 requests, 1 user, 2 names, 1 failing call |
| `onboarding_failed_email` | (violated) Does a verified address stay vouched for when a call fails? | 1 request, 2 addresses, 2 institutions |
| `session` | One device at a time, and sessions only for users that were fit to enter? | 2 requests, 1 user, 2 devices and callers without one, 3 passwords, 2 outside changes; 477k states |
| `directory` | What does a client that turns pages miss, see twice, or get offered? | 4 users besides the requester, pages of 1, 3 outside changes, requests by target and by metadata, one of them no friend request; 667k states |
| `user_bulk` | Does what was settled for a file hold to its last row, and who is harmed where it does not? | 2 uploads or sign-ups, 2 users, 2 rows under way, 2 addresses, numbers and institutions, limits 1 and 2, 1 user name; 193k states |
| `administration` | What does a failure undo, what may be left behind, and is it compensation? | 2 requests, 2 administrators, addresses and names, 1 number, 1 institution, 1 failed undoing, 1 rename; 575k states |
| `back_office` | What do scripts leave when they end, what may their snapshot undo, and are reports sound? | 2 requests, 2 users, 1 report, 1 institution, 1 outside change, any number of crashes; 1.5M states |
| `notifications_overlap` | How far do overlapping registrations and creations get, and what do late outcomes of sends spoil? | 2 requests, 1 user, 2 tokens of one type, 1 message, 2 notifications; 306k states |

Why the bounds are enough. The hazards of these handlers are races between a
read and a write, and two slots give every such race a first and a second party;
what more than two would add is a larger overshoot, and the theorems say how
large for any number. Three user ids let a limit of 1 or 2 be reached, exceeded
and restored by a deletion. Two phone numbers tell the total from the count per
number. Three addresses are needed to change an address, and to have one of an
administrator beside those of two institutions. `RivalsStayPending` (a
CONSTRAINT of `onboarding_overlap`) keeps the second user pending and out of
institutions: user names are the only thing two users of the model compete for in
that run, and the rival reaches every step that writes one as a pending user.
`NamesUnique` is proved without it. Symmetry is used only in runs without
liveness; the constants it permutes appear in no other definition of those runs
(`Belongs` is built with CHOOSE, so addresses and institutions are not permuted).
In `notifications_overlap` two tokens and two notifications about one message
are the smallest number that can break a bound of one, and as many as two
requests can make; users and types do not compete with each other, as every
property speaks of one user and one type or message. Its client writes only
"read", the status that could hide or undo what a send writes.
In `session` one user is enough, since sessions of different users never meet; the
two devices and the caller without one are the least that can hold sessions
side by side. In `directory` pages of one user make every page boundary a place
where a user can be missed, and three changes let one shift the pages twice.
In `user_bulk` two rows are what can repeat or depend on each other, whether in
one file, in two, or in a file and a sign-up; two documents are what two rows can make, or
one to be made and one to be in its way, and a limit of 1 or 2 is reached by them. While user
names are about, `NamesAlone` (its CONSTRAINT) has one request handled at a time, beside the
requests of users that change and delete them: what names can spoil is the rows that come
after one that was refused, and a race of two requests for a name is decided by its unique
index, which one of them meets either way. The theorems are proved without it. `administration` has one phone number because only its
being shared matters, and one institution because the domain all addresses have
is taken by it; `GroupMade` = {TRUE} keeps the group's failure out of the run,
which no property depends on. In `back_office` the first user has a status that the
migration maps to pending and is in no institution, the second is completed or blocked and
in one, the administrator of the first has another phone number and that of the second
none, until an outside change gives it the user's own or another: every branch of
both scripts is taken.
The runs without deadlock check are those in which every user can be deleted,
every identifier used up, or the walk ended, with nothing left to do.

What the merged properties say: `OneAtATime` joins what holds of a number as long as
no two requests for it have overlapped; `ChecksAreAdmission` the two refinements of
`Admission`; `AccountsMatch` is both directions between documents and accounts;
`Compensated` both instances of `Compensation`; `ScriptsComplete` one conjunct per
script; `ReportsSound` an invariant and an action property; `StrangersOffered` the
pages and their agreement with the look-up by phone number.

What the violation shows:

* `onboarding_failed_email`: `verifyEmail` writes the new address before it asks
  Cognito to change the attribute (1020-1040). If that call fails, the code sent
  to the previous address still confirms, and `confirmEmail` marks the new
  address verified, of which nobody has entered a code.

Findings without a run of their own, because a passing property states exactly how
far the guarantee goes instead:

* `verifyUnifiedPhoneOtp` refuses a blocked user at its look-up (401). One that is blocked
  after it, and before the device is written, is refused as an active user, since
  `verifyLoginOtp` asks for the status again; who has not yet signed up goes on to
  `verifySignupOtp` (446, 232), which asks only whether the user is deleted, and gets a
  session. `SessionsVouched` has exactly this exception (`overtaken`).
* A file may name user names, and the users service refuses those that are taken
  (users.service.ts 707, 819), by a user or by a row before. `processUpload` looks up whom
  they belong to (125) and makes nothing of it, so a dry run answers "Validated
  successfully" for a row that is then refused. `DryRunsPredict` is about all the other checks.
* In the synchronisation `phoneMatch` is true too when either phone number is missing
  (93-94), and an administrator's is optional. Such a user is verified although the header of
  the script says "only if phone numbers match". `SyncVouched` states what does hold: nobody
  becomes verified whose number is known to differ.
* Two sign-ups of one number both find it free (users.service.ts 1402); the second
  meets the account of the first, treats it as its own (184-206), and both
  insert. `PhoneOvershootBounded` bounds the damage by the number of overlapping
  requests, `OneAtATime` says that nothing else does it.
* `updateDeviceToken` looks a document up by its token and then asks whether the two
  tokens differ (notification.service.ts 187), so "Only one token per device
  type is allowed" (200) is never said; registering a known token again activates
  it beside the user's others (142). `ActiveTokensBounded` is what registration of
  new tokens does guarantee.
* The status migration writes from its snapshot: a block that a moderator sets in
  between is undone, though the header promises that 'blocked' stays. `BlockedStay`
  has exactly this exception.
* Its `$unset` of `isActive` goes through a model that does not know the field.
* An onboarding goes on without a permission group when that cannot be made, and
  answers that it was created.
* `updatePassword` compares with a password that no read of the document returns.
* `findAllFriends` shows as strangers those who have asked the requester, and those
  asked through the metadata; `StrangersOffered` has them as exceptions.

Other observations from the model have no run, since it is not clear what the
authors intend: two pending users may verify the same address and both become
active (`verifyEmail` looks for active holders only, 990); an activation code lifts a
block, because only status active is refused (1732); a `confirmEmail` that
overlaps a detach leaves the user verified without an address (1180); a send
that ends after the user has read the notification makes it failed or unread
again (459), which is why `ReadForGood` speaks of notifications that no request
was handling; and when the last write of a successful retry fails, the catch
marks a delivered notification failed (475), which is one of the disturbances
`FailedUndelivered` leaves out. The others are two requests that handle the
same notification and a client that sets its status.

## 4. Liveness and fairness

`signup_retry` and `onboarding_live` assume

* weak fairness of each slot's handler (`Handle`): the event loop resumes a
  handler whose awaited call has answered, and every call answers or rejects;
* strong fairness of the client's request: a client without an answer asks
  again, and the service has a free slot again and again. Strong, because other
  requests may take the slot each time. In `onboarding_live` the client asks for a
  name that `check-available-username` says is free;
* at most `MaxFailures` failing calls. Failures are not fair in any way, and a
  service whose calls always fail promises nothing.

Nothing is assumed of other clients, of administrators or of managed creations,
which may go on for ever. The other runs check safety only, and assume no
fairness. Both models keep deletion out: a user that is deleted again and again
does not stay. In `onboarding_live` the client keeps to one
address and enters the code it was sent; the default code is excluded, since it
would make the e-mail steps unnecessary.

## 5. Proofs

All for any sets of slots, users, devices, administrators, phone numbers, names,
addresses, institutions, reports, friend requests and page lengths, under the named assumptions of the modules (finite, non-empty
`Slots`; sentinels outside their sets; `Belongs` a function into sets of
institutions).

* `AdmissionBounded`: the overshoot is less than the number of requesters. The
  bound itself is not inductive, since a holder adds one without a check.
  `Promised` counts what is on its way with what is there (total plus
  holders), which a step either keeps or lowers, except an admission that checks.
  `SignupProofs` proves it of `Limit`, the instance that the sign-up implements.
* `SignupTyped`; `LimitRefinement`: every step of the sign-up maps to a step of
  `Admission` or a stutter; `LimitHolds` follows from it and `AdmissionBounded`.
* `PhoneBoundHolds`: proved directly with `PhonePromised`, the same invariant
  for each phone number. `ChecksRefinement`: every step also maps to a step of
  `Admission` for each phone number, or a stutter (`PhoneStep`); together with
  `LimitRefinement` this is `ChecksAreAdmission`.
* `OneAtATimeHolds`: from `AloneInv`, for each number that has not overlapped. Its
  request is the only one (`Alone`), so that what it looked up still holds at each
  of its writes: nobody has the number when it signs up, heals, retries or inserts
  (`AloneHandled`), and a deletion drops the account of nobody. That a deletion
  finds its user under the number it was asked for (`DeletesOwn`) keeps the requests for
  other numbers apart from this one (`AloneElsewhere`).
* `OnboardingTyped`: `RequestOK` (a request carries what its next steps write)
  and `DeletedNotPending` make it inductive: `setUsername` writes without asking
  for `isDeleted`, and is kept off a deleted user only by the status a deletion
  leaves.
* `DeletedFinal`, `SetUsernameLate`: action properties from that invariant.
* `NamesUnique`: from the typing and the index.
* `EmailLast`: needs `VerifyingReady` beside it: a `verifyEmail` past its first
  read has a user with a verified phone number and a name, or a deleted one, and
  nothing takes either away from a live user.
* `EmailVouched`: of the service whose calls do not fail (`SmoothSpec`), under the
  condition that no two requests for the same user are handled at once
  (`PerUserApart`). Without it a `confirmEmail` that overlaps a detach breaks the
  property (section 3), and with calls that fail `onboarding_failed_email` does. `VouchInv` says of
  each address that Cognito has it, or is about to be told, or that it was vouched
  for (`AddressReached`), and of each request that what it read or wrote before is
  still so (`Current`). The proof shows that a request disturbs only its own user's
  part (`VouchFrame`). `EmailVouchedAlone` is the case of one slot, which needs
  no condition.
* `NotificationsTyped`: `RequestOK` makes it inductive.
* `ActiveTokensHold`, `DuplicatesHold`: the bounds count what is there together
  with what is about to be created, which makes them inductive. `Counts` says what a
  step may do to the two sets (empty the first, shrink both, or turn one of the
  second into one of the first), `Counting` that this keeps the bound.
* `ReadForGoodHolds`: from `SettledLeft`, that no request handles a settled
  notification: a request takes up only a new or a failed one (`TakesUp`).
* `DuplicatesRefinement`: every step maps to a step of `Admission` for a user and
  a message, or a stutter. That an insertion adds one needs `AbsentIsNobodys`: a
  notification that is not there belongs to nobody.
* `FailedUndeliveredHolds`: from `AllTold`. A notification that nothing disturbed
  has at most one request, because a second one that takes it up disturbs it; and
  that request is past the steps that mark it failed once a device was reached
  (`Sound`). The proof shows it for the steps of that request (`HolderTold`), of
  the other requests (`OtherTold`) and of those that start (`StartTold`).
* `SessionTyped`, `SessionsVouchedHold`: from `FitKept`, that a request about to answer
  was fit, or signs up and was overtaken, and one before that is fit if its user is. `SingleDeviceHolds`: from
  `DeviceKept`, that a user nobody is unsure about has its sessions on the
  device of its document, or on one that a verification is about to sign out.
* `Typed` (of `Directory`): users keep numbers of their own, `Numbering`.
* `PagesHold`: from `PagesInv`. Of a walk page by page `Account` is kept in order:
  the users that stay and were passed over, and those that were or may be seen
  twice, are no more than the reasons on record. Both are counted by the line where
  the next page begins (`Passed`, `Ahead`). What keeps the account when the listing
  changes is counting alone: users that leave the listing move as many others
  before the line as they are (`Shrink`), users that come in bring as many
  behind it (`Grow`, over the oldest of those that crossed the line), because ranks
  in a listing are apart (`RankApart`, `Ranked`). Peers that `findFriends` leaves out
  are part of the account until the next page asks again (`OutsideMoves`,
  `TurnWalked`). At the end no more are behind the line than came since the count
  (`Behind`). The bounds themselves are not inductive: at the time of a change
  nobody has missed anything yet.
* `StrangersHold`: from `StrangersInv`: whom the request at work does not leave out, or
  has not found asked, is in `fresh`. That the look-up by phone number agrees
  as to friend requests rests on `RequestsAssumption`, that a request names its addressee once.
* `AdministrationTyped`; `OnboardingsUndone` is inductive with it. `PhonesShared`:
  `PhonesInv` adds that a request past its look-up carries a number nobody has,
  unless it is in `raced`. `AccountsAndDocuments`: `AccountsInv` says who makes a
  document (`OneMaker`), what it has by then (`Pending`, `Named`, `Temporary`),
  that names and addresses are apart, and that a ready account is never undone
  (`ReadyKept`). `BothCompensated`: every step maps to a step of `Compensation` for
  one administrator and for one institution, or to a stutter;
  `FoundingInv` keeps an institution to the onboarding that made it. From it follow
  `AdminsOverForGood` and `InstitutionsOverForGood`: what was made, undone or left
  stays so, which no run checks by itself.
* `BackOfficeTyped`; `ScriptsLeaveNothing`, `BlocksStay` and `SyncsVouched` follow from
  one invariant, `ScriptInv`: what a script has read of a user it has not yet
  written still holds, or the user is in `stale`, or it was blocked; what it has
  written holds too. `ReportsAreSound`: `ReportInv` adds that the
  connection is severed once a request is about to store its report, and that
  whatever let an administrator in still holds or the user has moved.
* `BulkTyped`, `AdmittedUploadsFit`, `DryRunsHold`, `UploadsLeaveOthers`,
  `UploadsShareByRaces`: from `BulkInv`. `Prepared` says that, while nobody else has
  written, every row that is left would succeed now (`Ready`) and that no two get
  into each other's way (`Apart`: other addresses, other users, other numbers),
  which is what makes it survive the rows before, whether they are written or refused, for a
  user name or because a call failed; `SettledReady` and
  `SettledApart` prove both of any file, `StartUploadStep` that the file
  fits. `Seen` says that what the present row has been told of the users holds
  until somebody else writes, so a write that goes wrong is a `LateWrite`.

The proofs go action by action: `HandlerWrites` (of users), `SlotWritesDevices`,
`SlotWritesNotes` (of notifications), `HandleStores` (of reports) and the like list
what a handler may do to the documents, `HandlerElsewhere`, `SlotProceeds` and
`Aside` what it does to the rest, and the invariants are shown over those few
cases.

Only model-checked: liveness (`Registers`, `Onboards`; liveness under fairness and
ENABLED are beyond the proof system). Every other property of a passing run is
stated by a theorem.

## 6. Not modelled

`PROJECT.json` has a row for each component.

* Permissions and permission groups are kept by another service; what this code adds
  is one look-up before a create. Dashboards, listings of administrators, signed
  URLs, guards and request plumbing keep no state between requests.
* Admin authentication and most of the Cognito service forward one call each.
* The OTP lambda is an earlier copy of the authentication that nothing imports; the
  generator of test users and the renaming of administrators are scripts for
  development that read and write nothing the properties speak of.
* `ReviewReportService.update`, which no controller calls; the status of an administrator,
  which nothing modelled reads.
* Referral codes (a second code for a user is overwritten, and nothing else reads
  what is raced about), the rate limit of uploads (one map in one process), password changes
  of administrators, and two first updates of the configuration that both
  create the document.
* The copy of an administrator's institution to the user of the same address
  (admin-user.service.ts 115-141, 344-359): a failure there is only logged.

What could follow: referral codes as another instance of `Admission`.

Checking: `tlc -config <Run>.cfg <Module>`, with the pairs of `PROJECT.json`
"runs"; `tlapm <Module>Proofs.tla` for the proofs.
