------------------------------- MODULE Signup -------------------------------
(***************************************************************************)
(* Account creation in UsersAuthService (src/src/modules/users): the       *)
(* unified phone-OTP sign-up, the institution-managed creation used by the *)
(* bulk upload, and the account deletion, run by concurrent requests       *)
(* against the users collection and the Cognito customer pool.             *)
(*                                                                         *)
(* Every await of a handler is a point where other requests run, so a      *)
(* request is a slot with a program counter and each action is the code    *)
(* between two awaits.  The users collection has no unique index on the    *)
(* phone number and the count behind the user limit is a plain read:       *)
(* what holds is what the order of reads and writes gives.                 *)
(***************************************************************************)
EXTENDS Integers, FiniteSets

CONSTANTS
    Slots,          \* requests the service handles at the same time
    Phones,         \* phone numbers
    Ids,            \* user ids generateUniqueId can return
    AllowedCounts,  \* values an administrator gives to allowedUserCount
    DefaultAllowed, \* allowedUserCount while no configuration document exists
    Requests,       \* the kinds of request that arrive
    NoPhone, NoId

ASSUME SlotsAssumption == IsFiniteSet(Slots) /\ Slots # {}
ASSUME IdsAssumption == IsFiniteSet(Ids) /\ NoId \notin Ids
ASSUME PhonesAssumption == NoPhone \notin Phones
ASSUME CountsAssumption == AllowedCounts \subseteq Nat /\ DefaultAllowed \in Nat
ASSUME RequestsAssumption == Requests \subseteq {"unified", "managed", "delete"}

VARIABLES
    users,    \* the users collection: user id -> phone number, and isDeleted;
              \* whether a user is pending, active or blocked changes nothing here
    accounts, \* phone numbers that have an account in the Cognito pool
    config,   \* the configuration document (or its defaults)
    slot,     \* the state of each request being handled
    base      \* history: live users when config was last updated

vars == <<users, accounts, config, slot, base>>

User == [phone : Phones \cup {NoPhone}, status : {"absent", "live", "deleted"}]
Absent == [phone |-> NoPhone, status |-> "absent"]

Labels == {"idle", "find", "config", "count", "referral", "available",
           "signUp", "heal", "retry", "sendOtp", "insert",
           "softDelete", "dropAccount"}
Request == [phone : Phones \cup {NoPhone},
            pc : Labels,
            flow : {"none", "entry", "signup", "managed", "delete"},
            uid : Ids \cup {NoId},
            limit : Nat]
Handling(l, f, p, i) == [phone |-> p, pc |-> l, flow |-> f, uid |-> i, limit |-> 0]
Idle == Handling("idle", "none", NoPhone, NoId)

TypeOK ==
    /\ users \in [Ids -> User]
    /\ accounts \subseteq Phones
    /\ config \in [force : BOOLEAN, allowed : Nat]
    /\ slot \in [Slots -> Request]
    /\ base \in Nat
    /\ \A s \in Slots : slot[s].pc # "idle" => slot[s].phone \in Phones
    /\ \A i \in Ids : users[i].status = "live" => users[i].phone \in Phones

-----------------------------------------------------------------------------
LiveUsers == {i \in Ids : users[i].status = "live"}
LiveWith(p) == {i \in LiveUsers : users[i].phone = p}
Live == Cardinality(LiveUsers)

\* The service starts with no users and any configuration document, or none:
\* then getConfiguration answers defaults that do not restrict sign-ups.
Init ==
    /\ users = [i \in Ids |-> Absent]
    /\ accounts = {}
    /\ config \in [force : BOOLEAN, allowed : AllowedCounts]
                  \cup {[force |-> FALSE, allowed |-> DefaultAllowed]}
    /\ slot = [s \in Slots |-> Idle]
    /\ base = 0

\* The request of s answers, or throws: it holds nothing any more.
Done(s) == slot' = [slot EXCEPT ![s] = Idle]
Goto(s, l) == slot' = [slot EXCEPT ![s].pc = l]
At(s, l) == slot[s].pc = l

-----------------------------------------------------------------------------
(* Arrivals *)

StartUnified(s, p) ==
    /\ "unified" \in Requests
    /\ At(s, "idle")
    /\ slot' = [slot EXCEPT ![s] = Handling("find", "entry", p, NoId)]
    /\ UNCHANGED <<users, accounts, config, base>>

StartManaged(s, p) ==
    /\ "managed" \in Requests
    /\ At(s, "idle")
    /\ slot' = [slot EXCEPT ![s] = Handling("config", "managed", p, NoId)]
    /\ UNCHANGED <<users, accounts, config, base>>

\* deleteUser and one turn of bulkDeleteUsers' loop: findOne, then the nanoid
\* import is awaited before anything is written.
StartDelete(s, i) ==
    /\ "delete" \in Requests
    /\ At(s, "idle")
    /\ i \in LiveUsers
    /\ slot' = [slot EXCEPT ![s] = Handling("softDelete", "delete", users[i].phone, i)]
    /\ UNCHANGED <<users, accounts, config, base>>

-----------------------------------------------------------------------------
(* requestUnifiedPhoneOtp *)

\* A known phone number only gets an OTP, or a refusal: nothing modelled here
\* changes.  An unknown one goes on to sign up.
FindByPhone(s) ==
    /\ At(s, "find")
    /\ \/ LiveWith(slot[s].phone) # {} /\ Done(s)
       \/ LiveWith(slot[s].phone) = {} /\ Goto(s, "config")
    /\ UNCHANGED <<users, accounts, config, base>>

(* checkSignupRestrictions: two reads, and a stop between them.  The first
   call of a sign-up guards requestUnifiedPhoneOtp, the second signup; a
   managed creation makes one. *)

AfterCheck(f) == IF f = "entry" THEN "referral" ELSE "available"

\* Mutant: managed creations are not checked.
ReadConfigSignupOnly(s) ==
    /\ At(s, "config")
    /\ \/ config.force /\ slot[s].flow # "managed"
          /\ slot' = [slot EXCEPT ![s].pc = "count", ![s].limit = config.allowed]
       \/ (config.force => slot[s].flow = "managed") /\ Goto(s, AfterCheck(slot[s].flow))
    /\ UNCHANGED <<users, accounts, config, base>>

ReadConfig(s) ==
    /\ At(s, "config")
    /\ \/ config.force /\ slot' = [slot EXCEPT ![s].pc = "count",
                                               ![s].limit = config.allowed]
       \/ ~config.force /\ Goto(s, AfterCheck(slot[s].flow))
    /\ UNCHANGED <<users, accounts, config, base>>

\* Mutant: the user about to be added is not counted.
CountUsersOffByOne(s) ==
    /\ At(s, "count")
    /\ \/ Live > slot[s].limit /\ Done(s)
       \/ Live <= slot[s].limit /\ slot' =
            [slot EXCEPT ![s].pc = AfterCheck(slot[s].flow), ![s].limit = 0]
    /\ UNCHANGED <<users, accounts, config, base>>

CountUsers(s) ==
    /\ At(s, "count")
    /\ \/ Live + 1 > slot[s].limit /\ Done(s)
       \/ Live + 1 <= slot[s].limit /\ slot' =
            [slot EXCEPT ![s].pc = AfterCheck(slot[s].flow), ![s].limit = 0]
    /\ UNCHANGED <<users, accounts, config, base>>

\* The referrer of a referral code is looked up; a bad code is an Abort.
ResolveReferral(s) ==
    /\ At(s, "referral")
    /\ slot' = [slot EXCEPT ![s].pc = "config", ![s].flow = "signup"]
    /\ UNCHANGED <<users, accounts, config, base>>

\* Mutant: nobody looks whether the phone number is taken.
AssumePhoneAvailable(s) ==
    /\ At(s, "available")
    /\ Goto(s, "signUp")
    /\ UNCHANGED <<users, accounts, config, base>>

\* ensurePhoneAvailable, and the managed creation's own look-up by phone.
EnsurePhoneAvailable(s) ==
    /\ At(s, "available")
    /\ \/ LiveWith(slot[s].phone) # {} /\ Done(s)
       \/ LiveWith(slot[s].phone) = {} /\ Goto(s, "signUp")
    /\ UNCHANGED <<users, accounts, config, base>>

-----------------------------------------------------------------------------
(* The Cognito calls.  A user is only inserted after them. *)

SignUp(s) ==
    /\ At(s, "signUp")
    /\ slot[s].phone \notin accounts
    /\ accounts' = accounts \cup {slot[s].phone}
    /\ Goto(s, IF slot[s].flow = "managed" THEN "insert" ELSE "sendOtp")
    /\ UNCHANGED <<users, config, base>>

\* Mutant: a sign-up stops at an existing account, as handleCognitoSignupError
\* would have it.
UsernameExistsIsFinal(s) ==
    /\ At(s, "signUp")
    /\ slot[s].phone \in accounts
    /\ \/ slot[s].flow = "managed" /\ Goto(s, "heal")
       \/ slot[s].flow # "managed" /\ Done(s)
    /\ UNCHANGED <<users, accounts, config, base>>

\* UsernameExistsException: a sign-up takes the account over and sends an OTP
\* all the same, a managed creation deletes it and signs up once more.
UsernameExists(s) ==
    /\ At(s, "signUp")
    /\ slot[s].phone \in accounts
    /\ Goto(s, IF slot[s].flow = "managed" THEN "heal" ELSE "sendOtp")
    /\ UNCHANGED <<users, accounts, config, base>>

AutoHeal(s) ==
    /\ At(s, "heal")
    /\ \/ /\ slot[s].phone \in accounts
          /\ accounts' = accounts \ {slot[s].phone}
          /\ Goto(s, "retry")
       \/ slot[s].phone \notin accounts /\ Done(s) /\ UNCHANGED accounts
    /\ UNCHANGED <<users, config, base>>

RetrySignUp(s) ==
    /\ At(s, "retry")
    /\ \/ /\ slot[s].phone \notin accounts
          /\ accounts' = accounts \cup {slot[s].phone}
          /\ Goto(s, "insert")
       \/ slot[s].phone \in accounts /\ Done(s) /\ UNCHANGED accounts
    /\ UNCHANGED <<users, config, base>>

\* generateOtp starts a custom challenge, which needs the account.
SendOtp(s) ==
    /\ At(s, "sendOtp")
    /\ \/ slot[s].phone \in accounts /\ Goto(s, "insert")
       \/ slot[s].phone \notin accounts /\ Done(s)
    /\ UNCHANGED <<users, accounts, config, base>>

\* Mutant: the document is created without its phone number.
InsertUserNoPhone(s) ==
    /\ At(s, "insert")
    /\ \E i \in Ids :
        /\ users[i].status = "absent"
        /\ users' = [users EXCEPT ![i].status = "live"]
    /\ Done(s)
    /\ UNCHANGED <<accounts, config, base>>

\* Mutant: the insert is repeated, as a blind retry would.
InsertUserTwice(s) ==
    /\ At(s, "insert")
    /\ \E i \in Ids :
        /\ users[i].status = "absent"
        /\ users' = [users EXCEPT ![i] = [phone |-> slot[s].phone, status |-> "live"]]
    /\ UNCHANGED <<slot, accounts, config, base>>

\* users.create, of either flow.
InsertUser(s) ==
    /\ At(s, "insert")
    /\ \E i \in Ids :
        /\ users[i].status = "absent"
        /\ users' = [users EXCEPT ![i] = [phone |-> slot[s].phone, status |-> "live"]]
    /\ Done(s)
    /\ UNCHANGED <<accounts, config, base>>

-----------------------------------------------------------------------------
(* deleteUser *)

\* The update is filtered by isDeleted: a second delete finds nothing to
\* write, and goes on all the same.
SoftDelete(s) ==
    /\ At(s, "softDelete")
    /\ \/ /\ slot[s].uid \in LiveUsers
          /\ users' = [users EXCEPT ![slot[s].uid].status = "deleted"]
       \/ slot[s].uid \notin LiveUsers /\ UNCHANGED users
    /\ Goto(s, "dropAccount")
    /\ UNCHANGED <<accounts, config, base>>

\* The account is deleted by phone number; an error is swallowed (see Abort).
DropAccount(s) ==
    /\ At(s, "dropAccount")
    /\ accounts' = accounts \ {slot[s].phone}
    /\ Done(s)
    /\ UNCHANGED <<users, config, base>>

-----------------------------------------------------------------------------
\* An awaited call rejects, or a check on data left out here throws (referral
\* code, institution, e-mail, user name, a unique index): what was written
\* before it stays.
Abort(s) ==
    /\ ~At(s, "idle")
    /\ Done(s)
    /\ UNCHANGED <<users, accounts, config, base>>

\* An update leaves out the fields it does not change.
UpdateConfiguration ==
    /\ \E f \in BOOLEAN, a \in AllowedCounts \cup {config.allowed} :
          config' = [force |-> f, allowed |-> a]
    /\ base' = Live
    /\ UNCHANGED <<users, accounts, slot>>

Handle(s) ==
    \/ FindByPhone(s) \/ ReadConfig(s) \/ CountUsers(s) \/ ResolveReferral(s)
    \/ EnsurePhoneAvailable(s) \/ SignUp(s) \/ UsernameExists(s) \/ AutoHeal(s)
    \/ RetrySignUp(s) \/ SendOtp(s) \/ InsertUser(s) \/ SoftDelete(s)
    \/ DropAccount(s)

\* What happens when no call fails.
Step ==
    \/ \E s \in Slots, p \in Phones : StartUnified(s, p) \/ StartManaged(s, p)
    \/ \E s \in Slots, i \in Ids : StartDelete(s, i)
    \/ \E s \in Slots : Handle(s)
    \/ UpdateConfiguration

Next == Step \/ \E s \in Slots : Abort(s)

Spec == Init /\ [][Next]_vars

-----------------------------------------------------------------------------
(* Properties *)

\* A request past its last look at the user count, which nothing will stop
\* from inserting a user: the check admitted it, or it holds an allowance that
\* is larger than the one in force now.
Admitted(s) == slot[s].pc \in {"available", "signUp", "heal", "retry",
                               "sendOtp", "insert"}
Holding(s) ==
    \/ Admitted(s)
    \/ At(s, "count") /\ slot[s].flow # "entry" /\ slot[s].limit > config.allowed
Holders == {s \in Slots : Holding(s)}

\* The same for one phone number, past the look-up that found nobody with it.
PhoneHolders(p) ==
    {s \in Slots : slot[s].phone = p
                   /\ slot[s].pc \in {"signUp", "heal", "retry", "sendOtp", "insert"}}

Limit == INSTANCE Admission WITH
            Requesters <- Slots, total <- Live, enforced <- config.force,
            allowed <- config.allowed, base <- base, holders <- Holders
OnePerPhone(p) == INSTANCE Admission WITH
            Requesters <- Slots, total <- Cardinality(LiveWith(p)), enforced <- TRUE,
            allowed <- 1, base <- 0, holders <- PhoneHolders(p)

\* The user limit.  The count and the insert are not atomic, so requests that
\* run together can overshoot; since the last update of the configuration they
\* do so by less than their number, beyond what was allowed or what was there.
\* With one request at a time the limit is exact.
QuotaOvershootBounded == Limit!OvershootBounded

\* No phone number has more live users than requests can overlap: one request
\* at a time never registers a phone number twice.
PhoneOvershootBounded ==
    \A p \in Phones : Cardinality(LiveWith(p)) <= Cardinality(Slots)

\* The sign-up uses checkSignupRestrictions and ensurePhoneAvailable as the
\* admission checks of Admission: no other path adds a user, and whoever is
\* turned away or fails gives its admission back.
LimitIsAdmission == Limit!Spec
PhoneIsAdmission ==
    /\ \A p \in Phones : OnePerPhone(p)!Init
    /\ [][\A p \in Phones : [OnePerPhone(p)!Next]_<<Cardinality(LiveWith(p)),
                                                    PhoneHolders(p)>>]_vars

ChecksAreAdmission == LimitIsAdmission /\ PhoneIsAdmission

\* A live user can be sent an OTP: its phone number has a Cognito account.
LiveUsersHaveAccounts == \A i \in LiveUsers : users[i].phone \in accounts

\* signup turns a number somebody has away with "Phone number already
\* registered": a phone number belongs to one user.
OneUserPerPhone == \A p \in Phones : Cardinality(LiveWith(p)) <= 1
=============================================================================
