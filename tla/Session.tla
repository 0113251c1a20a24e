------------------------------- MODULE Session -------------------------------
(***************************************************************************)
(* Signing in with a phone number (UsersAuthService): one-time passwords,  *)
(* sessions in the customer pool, and the device a user is signed in on.   *)
(*                                                                         *)
(* A verification signs the device before out, writes the new one, and     *)
(* only then answers the one-time password; the user is read again on the  *)
(* way.  That two devices do not hold sessions of one user comes from the  *)
(* order of these calls alone.                                             *)
(***************************************************************************)
EXTENDS Integers, FiniteSets

CONSTANTS
    Users,
    Devices,
    Slots,      \* requests the service handles at the same time
    NoUser, NoDevice,
    MaxOtps,    \* bound: one-time passwords that are sent
    MaxOutside  \* bound: changes made to the accounts by others

ASSUME NoneAssumption == NoUser \notin Users /\ NoDevice \notin Devices
ASSUME BoundsAssumption == MaxOtps \in Nat /\ MaxOutside \in Nat

VARIABLES
    users,      \* the documents of users
    accounts,   \* users that have an account in the customer pool
    challenges, \* one-time passwords sent, and the client they were asked for by
    sessions,   \* sessions in the pool: of a user, on a device
    slot,       \* the state of each request
    otps,       \* one-time passwords sent so far
    outside,    \* changes made by others so far
    fit,        \* history: requests whose user has been fit to enter; the writing of its
                \* device makes this count anew
    overtaken,  \* history: requests whose user was blocked between the look-up and the writing
                \* of the device
    unsure      \* history: users since whose last sign-out from everywhere a sign-out failed,
                \* or verifications overlapped

vars == <<users, accounts, challenges, sessions, slot, otps, outside, fit, overtaken, unsure>>

Clients == Devices \cup {NoDevice} \* who calls without a device is a client as well
User == [status : {"pending", "active", "blocked"}, live : BOOLEAN, device : Clients]
Session == [user : Users, device : Clients]

Labels == {"idle", "signOut", "bind", "check", "answer", "revoke", "globalSignOut"}
Request == [pc : Labels, user : Users \cup {NoUser}, device : Clients,
            flow : {"none", "login", "signup"}, asked : BOOLEAN]
Idle == [pc |-> "idle", user |-> NoUser, device |-> NoDevice, flow |-> "none", asked |-> FALSE]

TypeOK ==
    /\ users \in [Users -> User]
    /\ accounts \subseteq Users
    /\ challenges \subseteq Session /\ sessions \subseteq Session
    /\ slot \in [Slots -> Request]
    /\ \A s \in Slots : slot[s].pc # "idle" => slot[s].user \in Users
    /\ otps \in 0..MaxOtps /\ outside \in 0..MaxOutside
    /\ fit \subseteq Slots /\ overtaken \subseteq Slots /\ unsure \subseteq Users

-----------------------------------------------------------------------------
\* Users that have begun to sign up; their accounts are in the pool.
Init ==
    /\ users \in [Users -> {[status |-> st, live |-> TRUE, device |-> NoDevice] :
                              st \in {"pending", "active"}}]
    /\ accounts = Users
    /\ challenges = {} /\ sessions = {}
    /\ slot = [s \in Slots |-> Idle]
    /\ otps = 0 /\ outside = 0
    /\ fit = {} /\ overtaken = {} /\ unsure = {}

At(s, l) == slot[s].pc = l
Of(u) == {x \in sessions : x.user = u}
Verifying(u) ==
    {s \in Slots : slot[s].user = u /\ slot[s].pc \in {"signOut", "bind", "check", "answer"}}
Unwritten(u) == {s \in Verifying(u) : slot[s].pc \in {"signOut", "bind"}}

\* What the handlers ask: a login is for an active user, who signs up has only not to be deleted.
Suits(user, flow) == user.live /\ (flow = "login" => user.status = "active")

\* History only: fit to enter is who suits and is not blocked.
Fit(user, flow) == Suits(user, flow) /\ user.status # "blocked"

Become(s, q) == slot' = [slot EXCEPT ![s] = q]
Goto(s, l) == Become(s, [slot[s] EXCEPT !.pc = l])
Done(s) == Become(s, Idle) /\ fit' = fit \ {s} /\ overtaken' = overtaken \ {s}

Arrive(s, u, l, d, f) ==
    /\ At(s, "idle")
    /\ Become(s, [pc |-> l, user |-> u, device |-> d, flow |-> f,
                  asked |-> [user |-> u, device |-> d] \in challenges])
    /\ fit' = IF Fit(users[u], f) THEN fit \cup {s} ELSE fit
    /\ UNCHANGED overtaken
    /\ unsure' = IF Verifying(u) # {} THEN unsure \cup {u} ELSE unsure

\* The user is found, and not blocked.
MayEnter(u) == users[u].live /\ users[u].status # "blocked"

-----------------------------------------------------------------------------
(* One-time passwords *)

\* The pool sends a password to who has an account; the client keeps what it was sent.
SendOtp(u, d) ==
    /\ otps < MaxOtps
    /\ u \in accounts
    /\ challenges' = challenges \cup {[user |-> u, device |-> d]}
    /\ otps' = otps + 1
    /\ UNCHANGED <<users, accounts, sessions, slot, outside, fit, overtaken, unsure>>

RequestLoginOtp(u, d) == Suits(users[u], "login") /\ SendOtp(u, d)
ResendSignupOtp(u, d) == Suits(users[u], "signup") /\ SendOtp(u, d)

\* resendUnifiedPhoneOtp; requestUnifiedPhoneOtp does the same for a user there is.
ResendOtp(u, d) ==
    /\ MayEnter(u)
    /\ IF users[u].status = "active" THEN RequestLoginOtp(u, d) ELSE ResendSignupOtp(u, d)

-----------------------------------------------------------------------------
(* verifyUnifiedPhoneOtp *)

\* Where a verification goes on: with the device before, the device, or the password.
FirstStep(u, d) ==
    CASE d # NoDevice /\ users[u].device \notin {NoDevice, d} -> "signOut"
      [] d # NoDevice /\ users[u].device = NoDevice -> "bind"
      [] OTHER -> "check"

Verify(s, u, d) ==
    /\ MayEnter(u)
    /\ Arrive(s, u, FirstStep(u, d), d, IF users[u].status = "active" THEN "login" ELSE "signup")
    /\ UNCHANGED <<users, accounts, challenges, sessions, otps, outside>>

\* From everywhere; where another verification is under way nothing is certain after it.
SignOut(s) ==
    LET u == slot[s].user
    IN  /\ sessions' = sessions \ Of(u)
        /\ unsure' = IF Verifying(u) \subseteq {s} THEN unsure \ {u} ELSE unsure

\* The failure of the sign-out is logged, and the verification goes on.
SignOutDevice(s) ==
    /\ At(s, "signOut")
    /\ \/ SignOut(s)
       \/ unsure' = unsure \cup {slot[s].user} /\ UNCHANGED sessions
    /\ Goto(s, "bind")
    /\ UNCHANGED <<users, accounts, challenges, otps, outside, fit, overtaken>>

\* Mutant: a device is written only where there was none.
BindFirst(s) ==
    LET u == slot[s].user
    IN  /\ At(s, "bind")
        /\ users' = IF users[u].device = NoDevice
                    THEN [users EXCEPT ![u].device = slot[s].device] ELSE users
        /\ Goto(s, "check")
        /\ fit' = IF Fit(users[u], slot[s].flow) THEN fit \cup {s} ELSE fit \ {s}
        /\ UNCHANGED <<accounts, challenges, sessions, otps, outside, overtaken, unsure>>

\* Written by userId alone, also for a user that was deleted meanwhile.
Bind(s) ==
    LET u == slot[s].user
    IN  /\ At(s, "bind")
        /\ users' = [users EXCEPT ![u].device = slot[s].device]
        /\ Goto(s, "check")
        /\ fit' = IF Fit(users[u], slot[s].flow) THEN fit \cup {s} ELSE fit \ {s}
        /\ UNCHANGED <<accounts, challenges, sessions, otps, outside, overtaken, unsure>>

-----------------------------------------------------------------------------
(* verifyLoginOtp, on its own as well, and verifySignupOtp *)

StartLogin(s, u) ==
    /\ Arrive(s, u, "check", NoDevice, "login")
    /\ UNCHANGED <<users, accounts, challenges, sessions, otps, outside>>

\* Mutant: the user of the caller is trusted, who has read it before the device was written.
CheckNothing(s) ==
    /\ At(s, "check")
    /\ Goto(s, "answer")
    /\ UNCHANGED <<users, accounts, challenges, sessions, otps, outside, fit, overtaken, unsure>>

\* The user is read again, by its phone number; a login asks for an active one, a sign-up
\* takes a blocked one as well.
Check(s) ==
    /\ At(s, "check")
    /\ IF Suits(users[slot[s].user], slot[s].flow)
       THEN Goto(s, "answer") /\ UNCHANGED <<fit, overtaken>>
       ELSE Done(s)
    /\ UNCHANGED <<users, accounts, challenges, sessions, otps, outside, unsure>>

\* The pool finds the password right.
Opened(x) ==
    /\ x \in challenges /\ x.user \in accounts
    /\ sessions' = sessions \cup {x} /\ challenges' = challenges \ {x}

\* It is wrong, and the same password can be tried again.
TryAgain == UNCHANGED <<sessions, challenges>>

\* It is refused for good.
Refused(x) == challenges' = challenges \ {x} /\ UNCHANGED sessions

\* lastLoginAt, and phoneVerified of who signs up, are written next; they are abstracted.
Answer(s) ==
    LET x == [user |-> slot[s].user, device |-> slot[s].device]
    IN  /\ At(s, "answer")
        /\ (slot[s].asked /\ Opened(x)) \/ TryAgain \/ Refused(x)
        /\ Done(s)
        /\ UNCHANGED <<users, accounts, otps, outside, unsure>>

-----------------------------------------------------------------------------
(* logout *)

StartLogout(s, x) ==
    /\ x \in sessions /\ At(s, "idle")
    /\ Become(s, [pc |-> "revoke", user |-> x.user, device |-> x.device, flow |-> "none",
                  asked |-> FALSE])
    /\ UNCHANGED <<users, accounts, challenges, sessions, otps, outside, fit, overtaken, unsure>>

\* Mutant: the access token is lost with the refresh token.
RevokeForgetful(s) ==
    /\ At(s, "revoke")
    /\ sessions' = sessions \ {[user |-> slot[s].user, device |-> slot[s].device]}
    /\ Become(s, [Idle EXCEPT !.pc = "globalSignOut"])
    /\ UNCHANGED <<users, accounts, challenges, otps, outside, fit, overtaken, unsure>>

\* Neither call has to succeed.
Revoke(s) ==
    /\ At(s, "revoke")
    /\ \/ sessions' = sessions \ {[user |-> slot[s].user, device |-> slot[s].device]}
       \/ UNCHANGED sessions
    /\ Goto(s, "globalSignOut")
    /\ UNCHANGED <<users, accounts, challenges, otps, outside, fit, overtaken, unsure>>

GlobalSignOut(s) ==
    /\ At(s, "globalSignOut")
    /\ \/ SignOut(s)
       \/ UNCHANGED <<sessions, unsure>>
    /\ Done(s)
    /\ UNCHANGED <<users, accounts, challenges, otps, outside>>

-----------------------------------------------------------------------------
(* Others *)

Outside(u, new) ==
    /\ outside < MaxOutside /\ outside' = outside + 1
    /\ users' = [users EXCEPT ![u] = new]
    /\ fit' = fit \cup {s \in Verifying(u) : Fit(new, slot[s].flow)}
    /\ overtaken' = IF new.status = "blocked" THEN overtaken \cup Unwritten(u) ELSE overtaken
    /\ UNCHANGED <<slot, otps, unsure>>

\* A sign-up ends; an administrator blocks a user, or lets it in again.
SetStatus(u, status) ==
    /\ users[u].live /\ status # users[u].status
    /\ Outside(u, [users[u] EXCEPT !.status = status])
    /\ UNCHANGED <<accounts, challenges, sessions>>

\* The account follows, unless the pool does not answer: that is logged only.
DeleteUser(u) ==
    /\ users[u].live
    /\ Outside(u, [users[u] EXCEPT !.live = FALSE])
    /\ UNCHANGED <<accounts, challenges, sessions>>

DropAccount(u) ==
    /\ ~users[u].live /\ u \in accounts
    /\ accounts' = accounts \ {u}
    /\ challenges' = {x \in challenges : x.user # u} /\ sessions' = sessions \ Of(u)
    /\ UNCHANGED <<users, slot, otps, outside, fit, overtaken, unsure>>

Handle(s) == SignOutDevice(s) \/ Bind(s) \/ Check(s) \/ Answer(s) \/ Revoke(s) \/ GlobalSignOut(s)

Next ==
    \/ \E s \in Slots :
          \/ Handle(s)
          \/ \E u \in Users : StartLogin(s, u) \/ \E d \in Clients : Verify(s, u, d)
          \/ \E x \in sessions : StartLogout(s, x)
    \/ \E u \in Users :
          \/ DeleteUser(u) \/ DropAccount(u)
          \/ \E d \in Clients : RequestLoginOtp(u, d) \/ ResendOtp(u, d)
          \/ \E status \in {"active", "blocked"} : SetStatus(u, status)

Spec == Init /\ [][Next]_vars

-----------------------------------------------------------------------------
(* Properties *)

\* A user does not hold sessions on two devices, unless the sign-out of the one before
\* failed or two verifications of the user overlapped since it was last signed out from
\* everywhere.  (verifyUnifiedPhoneOtp: sign-out, device and password in that order.)
SingleDevice ==
    \A x, y \in sessions :
        x.user = y.user /\ x.device # NoDevice /\ y.device \notin {x.device, NoDevice} =>
            x.user \in unsure

OpenedFor(s, x) == slot[s].user = x.user /\ slot[s].device = x.device /\ slot[s].pc = "answer"

\* A session is opened only for a user that was fit to enter at some moment after its device
\* was written, except that who had not yet signed up may have been blocked after it was found
\* and before its device was written.  (verifyUnifiedPhoneOtp refuses blocked users at its
\* look-up only; verifyLoginOtp reads the user again and asks for an active one,
\* verifySignupOtp asks only that it is not deleted.)
SessionsVouched ==
    [][\A x \in sessions' \ sessions :
          \E s \in Slots :
              /\ OpenedFor(s, x)
              /\ s \in fit \/ (slot[s].flow = "signup" /\ s \in overtaken)]_vars

=============================================================================
