---------------------------- MODULE SessionProofs ----------------------------
(***************************************************************************)
(* Proofs about Session, for any number of users, devices, requests and    *)
(* one-time passwords.                                                     *)
(***************************************************************************)
EXTENDS Session, TLAPS

RequestOK(r) == r \in Request /\ (r.pc # "idle" => r.user \in Users)

\* What a step does to the slots is one of these.
Took(s, r) == Become(s, r) /\ RequestOK(r)

LEMMA IdleOK == RequestOK(Idle)
BY DEF Idle, RequestOK, Request, Labels, Clients

LEMMA TookTyped ==
    ASSUME TypeOK, NEW s \in Slots, NEW r, Took(s, r)
    PROVE  slot' \in [Slots -> Request] /\ \A q \in Slots : slot'[q].pc # "idle" => slot'[q].user \in Users
BY DEF TypeOK, Took, Become, RequestOK

LEMMA GotoTyped ==
    ASSUME TypeOK, NEW s \in Slots, NEW l \in Labels, Goto(s, l), slot[s].pc # "idle"
    PROVE  Took(s, [slot[s] EXCEPT !.pc = l])
<1>1. slot[s] \in Request /\ slot[s].user \in Users
  BY DEF TypeOK
<1> QED BY <1>1 DEF Goto, Took, RequestOK, Request

LEMMA ArriveTyped ==
    ASSUME TypeOK, NEW s \in Slots, NEW u \in Users, NEW l \in Labels, NEW d \in Clients,
           NEW f \in {"login", "signup"}, Arrive(s, u, l, d, f)
    PROVE  (\E r : Took(s, r)) /\ fit' \subseteq Slots /\ overtaken' \subseteq Slots /\ unsure' \subseteq Users
<1> DEFINE r == [pc |-> l, user |-> u, device |-> d, flow |-> f,
                 asked |-> [user |-> u, device |-> d] \in challenges]
<1>1. RequestOK(r)
  BY DEF RequestOK, Request
<1>2. Took(s, r)
  BY <1>1 DEF Arrive, Took
<1> QED BY <1>2 DEF Arrive, TypeOK

LEMMA SignOutTyped ==
    ASSUME TypeOK, NEW s \in Slots, SignOut(s)
    PROVE  sessions' \subseteq Session /\ unsure' \subseteq Users
BY DEF SignOut, Of, TypeOK

-----------------------------------------------------------------------------
LEMMA InitTyped == Init => TypeOK
<1> SUFFICES ASSUME Init PROVE TypeOK
  OBVIOUS
<1> DEFINE fresh == {[status |-> st, live |-> TRUE, device |-> NoDevice] : st \in {"pending", "active"}}
<1>1. users \in [Users -> User]
  <2>1. ASSUME NEW st \in {"pending", "active"}
        PROVE  [status |-> st, live |-> TRUE, device |-> NoDevice] \in User
    BY <2>1 DEF User, Clients
  <2>2. users \in [Users -> fresh]
    BY DEF Init
  <2> QED BY <2>1, <2>2
<1>2. 0 \in 0..MaxOtps /\ 0 \in 0..MaxOutside
  BY BoundsAssumption
<1> QED BY <1>1, <1>2, IdleOK DEF Init, TypeOK, RequestOK, Idle

LEMMA StepTyped == TypeOK /\ [Next]_vars => TypeOK'
<1> SUFFICES ASSUME TypeOK, [Next]_vars PROVE TypeOK'
  OBVIOUS
<1> USE BoundsAssumption
<1>1. ASSUME NEW s \in Slots, Handle(s) PROVE TypeOK'
  <2>0. slot[s].pc # "idle" => slot[s].user \in Users /\ slot[s] \in Request
    BY DEF TypeOK
  <2>1. CASE SignOutDevice(s)
    <3>1. sessions' \subseteq Session /\ unsure' \subseteq Users
      BY <2>0, <2>1, SignOutTyped DEF SignOutDevice, At, TypeOK
    <3>2. Took(s, [slot[s] EXCEPT !.pc = "bind"])
      BY <2>1, GotoTyped DEF SignOutDevice, At, Labels
    <3> QED BY <2>1, <3>1, <3>2, TookTyped DEF SignOutDevice, TypeOK
  <2>2. CASE Bind(s)
    <3>1. Took(s, [slot[s] EXCEPT !.pc = "check"])
      BY <2>2, GotoTyped DEF Bind, At, Labels
    <3>2. users' \in [Users -> User]
      BY <2>0, <2>2 DEF Bind, At, TypeOK, User, Request
    <3>3. fit' \subseteq Slots
      BY <2>2 DEF Bind, TypeOK
    <3> QED BY <2>2, <3>1, <3>2, <3>3, TookTyped DEF Bind, TypeOK
  <2>3. CASE Check(s)
    <3>1. \E r : Took(s, r)
      BY <2>3, GotoTyped, IdleOK DEF Check, At, Labels, Done, Took
    <3>2. fit' \subseteq Slots /\ overtaken' \subseteq Slots
      BY <2>3 DEF Check, Done, TypeOK
    <3> QED BY <2>3, <3>1, <3>2, TookTyped DEF Check, TypeOK
  <2>4. CASE Answer(s)
    <3> DEFINE x == [user |-> slot[s].user, device |-> slot[s].device]
    <3>1. x \in Session
      BY <2>0, <2>4 DEF Answer, At, Session, Request
    <3>2. sessions' \subseteq Session /\ challenges' \subseteq Session
      BY <2>4, <3>1 DEF Answer, Opened, TryAgain, Refused, TypeOK
    <3>3. Took(s, Idle) /\ fit' \subseteq Slots /\ overtaken' \subseteq Slots
      BY <2>4, IdleOK DEF Answer, Done, Took, TypeOK
    <3> QED BY <2>4, <3>2, <3>3, TookTyped DEF Answer, TypeOK
  <2>5. CASE Revoke(s)
    <3>1. sessions' \subseteq Session
      BY <2>5 DEF Revoke, TypeOK
    <3>2. Took(s, [slot[s] EXCEPT !.pc = "globalSignOut"])
      BY <2>5, GotoTyped DEF Revoke, At, Labels
    <3> QED BY <2>5, <3>1, <3>2, TookTyped DEF Revoke, TypeOK
  <2>6. CASE GlobalSignOut(s)
    <3>1. sessions' \subseteq Session /\ unsure' \subseteq Users
      BY <2>6, SignOutTyped DEF GlobalSignOut, TypeOK
    <3>2. Took(s, Idle) /\ fit' \subseteq Slots /\ overtaken' \subseteq Slots
      BY <2>6, IdleOK DEF GlobalSignOut, Done, Took, TypeOK
    <3> QED BY <2>6, <3>1, <3>2, TookTyped DEF GlobalSignOut, TypeOK
  <2> QED BY <1>1, <2>1, <2>2, <2>3, <2>4, <2>5, <2>6 DEF Handle
<1>2. ASSUME NEW s \in Slots, NEW u \in Users, StartLogin(s, u) PROVE TypeOK'
  <2>1. NoDevice \in Clients /\ "check" \in Labels
    BY DEF Clients, Labels
  <2>2. (\E r : Took(s, r)) /\ fit' \subseteq Slots /\ overtaken' \subseteq Slots /\ unsure' \subseteq Users
    BY <1>2, <2>1, ArriveTyped DEF StartLogin
  <2> QED BY <1>2, <2>2, TookTyped DEF StartLogin, TypeOK
<1>3. ASSUME NEW s \in Slots, NEW u \in Users, NEW d \in Clients, Verify(s, u, d) PROVE TypeOK'
  <2>1. FirstStep(u, d) \in Labels
    BY DEF FirstStep, Labels
  <2>2. (\E r : Took(s, r)) /\ fit' \subseteq Slots /\ overtaken' \subseteq Slots /\ unsure' \subseteq Users
    BY <1>3, <2>1, ArriveTyped DEF Verify
  <2> QED BY <1>3, <2>2, TookTyped DEF Verify, TypeOK
<1>4. ASSUME NEW s \in Slots, NEW x \in sessions, StartLogout(s, x) PROVE TypeOK'
  <2> DEFINE r == [pc |-> "revoke", user |-> x.user, device |-> x.device, flow |-> "none",
                   asked |-> FALSE]
  <2>1. RequestOK(r)
    BY DEF RequestOK, Request, Labels, Session, TypeOK
  <2>2. Took(s, r)
    BY <1>4, <2>1 DEF StartLogout, Took
  <2> QED BY <1>4, <2>2, TookTyped DEF StartLogout, TypeOK
<1>5. ASSUME NEW u \in Users, DeleteUser(u) \/ \E status \in {"active", "blocked"} : SetStatus(u, status)
      PROVE  TypeOK'
  <2>1. users[u] \in User
    BY DEF TypeOK
  <2>2. PICK new \in User : Outside(u, new)
    BY <1>5, <2>1 DEF DeleteUser, SetStatus, User
  <2> QED BY <1>5, <2>2 DEF Outside, Verifying, Unwritten, DeleteUser, SetStatus, TypeOK
<1>6. ASSUME NEW u \in Users, DropAccount(u) PROVE TypeOK'
  BY <1>6 DEF DropAccount, Of, TypeOK
<1>7. ASSUME NEW u \in Users, NEW d \in Clients, RequestLoginOtp(u, d) \/ ResendOtp(u, d)
      PROVE  TypeOK'
  <2>1. SendOtp(u, d)
    BY <1>7 DEF RequestLoginOtp, ResendOtp, ResendSignupOtp
  <2> QED BY <2>1 DEF SendOtp, Session, TypeOK
<1>8. ASSUME UNCHANGED vars PROVE TypeOK'
  BY <1>8 DEF vars, TypeOK
<1> QED BY <1>1, <1>2, <1>3, <1>4, <1>5, <1>6, <1>7, <1>8 DEF Next

\* Type correctness: whatever a client sends and whoever changes the accounts, every request
\* goes on for a user there is, and sessions and passwords are of users and devices.
THEOREM SessionTyped == Spec => []TypeOK
<1>1. Init => TypeOK
  BY InitTyped
<1>2. TypeOK /\ [Next]_vars => TypeOK'
  BY StepTyped
<1> QED BY <1>1, <1>2, PTL DEF Spec

-----------------------------------------------------------------------------
(* Who enters: the user was fit once its device was written, or was blocked before *)

Starting == {"signOut", "bind", "check"}
SignsUp(r) == r.flow = "signup" /\ users[r.user].live

\* What a request that has the user still to look at has in its histories: the user is fit, and
\* it counts as such; or it may yet sign up, and was overtaken if it was not fit.
Accounted(s) ==
    LET r == slot[s]
    IN  /\ r.pc \in Starting => r.flow \in {"login", "signup"}
        /\ r.pc = "answer" => s \in fit \/ (r.flow = "signup" /\ s \in overtaken)
        /\ r.pc \in Starting /\ Fit(users[r.user], r.flow) => s \in fit
        /\ r.pc \in {"signOut", "bind"} /\ SignsUp(r) /\ users[r.user].status = "blocked" =>
              s \in overtaken
        /\ r.pc = "check" /\ SignsUp(r) => s \in fit \cup overtaken

FitKept == \A s \in Slots : Accounted(s)

\* A step that leaves the users alone, and the other requests and their histories.
LEMMA FitOthers ==
    ASSUME TypeOK, FitKept, NEW s \in Slots, UNCHANGED users,
           \A t \in Slots : t # s => slot'[t] = slot[t],
           fit \ {s} \subseteq fit', overtaken \ {s} \subseteq overtaken',
           Accounted(s)'
    PROVE  FitKept'
<1> SUFFICES ASSUME NEW t \in Slots, t # s PROVE Accounted(t)'
  BY DEF FitKept
<1>1. Accounted(t) /\ slot'[t] = slot[t]
  BY DEF FitKept
<1> QED BY <1>1 DEF Accounted, SignsUp

\* A request ends, or is no verification.
LEMMA FitAway ==
    ASSUME TypeOK, FitKept, NEW s \in Slots, UNCHANGED users, NEW r, Become(s, r),
           r.pc \notin Starting \cup {"answer"},
           fit \ {s} \subseteq fit', overtaken \ {s} \subseteq overtaken'
    PROVE  FitKept'
<1>1. slot'[s] = r /\ \A t \in Slots : t # s => slot'[t] = slot[t]
  BY DEF Become, TypeOK
<1>2. Accounted(s)'
  BY <1>1 DEF Accounted, Starting
<1> QED BY <1>1, <1>2, FitOthers

\* A verification begins with a user that is not blocked, or with a login.
LEMMA FitArrive ==
    ASSUME TypeOK, FitKept, NEW s \in Slots, NEW u \in Users, NEW l \in Starting,
           NEW d, NEW f \in {"login", "signup"}, Arrive(s, u, l, d, f), UNCHANGED users,
           f = "login" \/ MayEnter(u)
    PROVE  FitKept'
<1>1. /\ slot'[s].pc = l /\ slot'[s].user = u /\ slot'[s].flow = f
      /\ \A t \in Slots : t # s => slot'[t] = slot[t]
  BY DEF Arrive, Become, TypeOK
<1>2. fit \subseteq fit' /\ overtaken' = overtaken /\ (Fit(users[u], f) => s \in fit')
  BY DEF Arrive
<1>3. f = "signup" => Fit(users[u], f)
  BY DEF MayEnter, Fit, Suits
<1>4. Accounted(s)'
  BY <1>1, <1>2, <1>3 DEF Accounted, SignsUp, Starting, MayEnter, Fit, Suits
<1> QED BY <1>1, <1>2, <1>4, FitOthers

\* The device is written, whoever the user is by then.
LEMMA FitBind ==
    ASSUME TypeOK, FitKept, NEW s \in Slots, Bind(s)
    PROVE  FitKept'
<1> DEFINE u == slot[s].user
<1>0. slot[s] \in Request /\ u \in Users /\ slot[s].pc = "bind"
  BY DEF Bind, At, TypeOK
<1>1. /\ slot'[s].pc = "check" /\ slot'[s].user = u /\ slot'[s].flow = slot[s].flow
      /\ \A t \in Slots : t # s => slot'[t] = slot[t]
  BY <1>0 DEF Bind, Goto, Become, Request, TypeOK
<1>2. \A v \in Users : users'[v].status = users[v].status /\ users'[v].live = users[v].live
  BY <1>0 DEF Bind, TypeOK, User
<1>3. /\ Fit(users[u], slot[s].flow) => s \in fit'
      /\ fit \ {s} \subseteq fit' /\ overtaken' = overtaken
  BY DEF Bind
<1>4. Accounted(s)'
  <2>1. Accounted(s)
    BY DEF FitKept
  <2>2. SignsUp(slot[s]) /\ users[u].status # "blocked" => Fit(users[u], slot[s].flow)
    BY DEF SignsUp, Fit, Suits
  <2>3. SignsUp(slot[s]) => s \in fit' \cup overtaken'
    BY <1>0, <1>3, <2>1, <2>2 DEF Accounted
  <2>4. slot[s].flow \in {"login", "signup"}
    BY <1>0, <2>1 DEF Accounted, Starting
  <2>5. /\ SignsUp(slot[s])' => SignsUp(slot[s])
        /\ Fit(users'[u], slot[s].flow) => Fit(users[u], slot[s].flow)
    BY <1>0, <1>1, <1>2 DEF SignsUp, Fit, Suits
  <2> QED BY <1>1, <1>3, <2>3, <2>4, <2>5 DEF Accounted, SignsUp, Starting
<1> SUFFICES ASSUME NEW t \in Slots, t # s PROVE Accounted(t)'
  BY <1>4 DEF FitKept
<1>5. Accounted(t) /\ slot'[t] = slot[t] /\ (slot[t].pc # "idle" => slot[t].user \in Users)
  BY <1>1 DEF FitKept, TypeOK
<1> QED BY <1>2, <1>3, <1>5 DEF Accounted, SignsUp, Starting, Fit, Suits

\* The user is read again: a login asks for an active one, a sign-up only for a live one.
LEMMA FitCheck ==
    ASSUME TypeOK, FitKept, NEW s \in Slots, Check(s)
    PROVE  FitKept'
<1>0. slot[s] \in Request /\ slot[s].user \in Users /\ slot[s].pc = "check"
  BY DEF Check, At, TypeOK
<1>1. CASE Suits(users[slot[s].user], slot[s].flow)
  <2>1. /\ slot'[s].pc = "answer" /\ slot'[s].flow = slot[s].flow
        /\ \A t \in Slots : t # s => slot'[t] = slot[t]
    BY <1>0, <1>1 DEF Check, Goto, Become, Request, TypeOK
  <2>2. UNCHANGED <<users, fit, overtaken>> /\ Accounted(s)
    BY <1>1 DEF Check, FitKept
  <2>3. slot[s].flow = "signup" => SignsUp(slot[s])
    BY <1>1 DEF SignsUp, Suits
  <2>4. slot[s].flow \in {"login", "signup"}
    BY <1>0, <2>2 DEF Accounted, Starting
  <2>5. slot[s].flow = "login" => Fit(users[slot[s].user], slot[s].flow)
    BY <1>1 DEF Fit, Suits
  <2>6. Accounted(s)'
    BY <1>0, <2>1, <2>2, <2>3, <2>4, <2>5 DEF Accounted, Starting
  <2> QED BY <2>1, <2>2, <2>6, FitOthers
<1>2. CASE ~Suits(users[slot[s].user], slot[s].flow)
  <2>1. Become(s, Idle) /\ fit \ {s} \subseteq fit' /\ overtaken \ {s} \subseteq overtaken' /\ UNCHANGED users
    BY <1>2 DEF Check, Done
  <2> QED BY <2>1, FitAway DEF Idle, Starting
<1> QED BY <1>1, <1>2

\* Somebody else changes the account: who blocks it overtakes the requests that have still to
\* write the device.
LEMMA FitOutside ==
    ASSUME TypeOK, FitKept, NEW u \in Users, NEW new, Outside(u, new), new.live => users[u].live
    PROVE  FitKept'
<1> SUFFICES ASSUME NEW t \in Slots, slot[t].pc \in Starting \cup {"answer"} PROVE Accounted(t)'
  BY DEF FitKept, Outside, Accounted, Starting
<1>1. /\ slot'[t] = slot[t] /\ slot[t].user \in Users /\ Accounted(t)
      /\ fit \subseteq fit' /\ overtaken \subseteq overtaken'
  BY DEF Outside, FitKept, Starting, TypeOK
<1>2. CASE slot[t].user = u
  <2>1. users'[u] = new /\ t \in Verifying(u)
    BY <1>2 DEF Outside, TypeOK, Verifying, Starting
  <2>2. /\ Fit(new, slot[t].flow) => t \in fit'
        /\ new.status = "blocked" /\ slot[t].pc \in {"signOut", "bind"} => t \in overtaken'
    BY <2>1 DEF Outside, Unwritten
  <2>3. slot[t].pc = "check" /\ SignsUp(slot[t])' => t \in fit' \cup overtaken'
    BY <1>1, <1>2, <2>1 DEF Accounted, SignsUp
  <2> QED BY <1>1, <1>2, <2>1, <2>2, <2>3 DEF Accounted, SignsUp
<1>3. CASE slot[t].user # u
  <2>1. users'[slot[t].user] = users[slot[t].user]
    BY <1>1, <1>3 DEF Outside, TypeOK
  <2> QED BY <1>1, <2>1 DEF Accounted, SignsUp
<1> QED BY <1>2, <1>3

LEMMA FitStep ==
    ASSUME TypeOK, FitKept, [Next]_vars
    PROVE  FitKept'
<1>1. ASSUME NEW s \in Slots, Handle(s) PROVE FitKept'
  <2>0. slot[s].pc # "idle" => slot[s] \in Request
    BY DEF TypeOK
  <2>1. CASE SignOutDevice(s)
    <3>1. /\ slot'[s].pc = "bind" /\ slot'[s].user = slot[s].user /\ slot'[s].flow = slot[s].flow
          /\ slot[s].pc = "signOut" /\ \A t \in Slots : t # s => slot'[t] = slot[t]
      BY <2>0, <2>1 DEF SignOutDevice, At, Goto, Become, Request, TypeOK
    <3>2. UNCHANGED <<users, fit, overtaken>> /\ Accounted(s)
      BY <2>1 DEF SignOutDevice, FitKept
    <3>3. Accounted(s)'
      BY <3>1, <3>2 DEF Accounted, SignsUp, Starting
    <3> QED BY <3>1, <3>2, <3>3, FitOthers
  <2>2. CASE Answer(s)
    BY <2>2, FitAway DEF Answer, Done, Idle, Starting
  <2>3. CASE Revoke(s)
    <3> DEFINE r == [slot[s] EXCEPT !.pc = "globalSignOut"]
    <3>1. r.pc \notin Starting \cup {"answer"} /\ Become(s, r)
      BY <2>0, <2>3 DEF Revoke, Goto, At, Request, Starting
    <3> QED BY <2>3, <3>1, FitAway DEF Revoke
  <2>4. CASE GlobalSignOut(s)
    BY <2>4, FitAway DEF GlobalSignOut, Done, Idle, Starting
  <2> QED BY <1>1, <2>1, <2>2, <2>3, <2>4, FitBind, FitCheck DEF Handle
<1>2. ASSUME NEW s \in Slots, NEW u \in Users, StartLogin(s, u) PROVE FitKept'
  BY <1>2, FitArrive DEF StartLogin, Starting
<1>3. ASSUME NEW s \in Slots, NEW u \in Users, NEW d \in Clients, Verify(s, u, d) PROVE FitKept'
  <2>1. FirstStep(u, d) \in Starting
    BY DEF FirstStep, Starting
  <2> QED BY <1>3, <2>1, FitArrive DEF Verify
<1>4. ASSUME NEW s \in Slots, NEW x \in sessions, StartLogout(s, x) PROVE FitKept'
  <2> DEFINE r == [pc |-> "revoke", user |-> x.user, device |-> x.device, flow |-> "none",
                   asked |-> FALSE]
  <2>1. r.pc \notin Starting \cup {"answer"} /\ Become(s, r)
    BY <1>4 DEF StartLogout, Starting
  <2> QED BY <1>4, <2>1, FitAway DEF StartLogout
<1>5. ASSUME UNCHANGED <<users, slot, fit, overtaken>> PROVE FitKept'
  BY <1>5 DEF FitKept, Accounted, SignsUp
<1>6. ASSUME NEW u \in Users, DropAccount(u) PROVE FitKept'
  BY <1>5, <1>6 DEF DropAccount
<1>7. ASSUME NEW u \in Users, NEW d \in Clients, RequestLoginOtp(u, d) \/ ResendOtp(u, d)
      PROVE  FitKept'
  BY <1>5, <1>7 DEF RequestLoginOtp, ResendOtp, ResendSignupOtp, SendOtp
<1>8. ASSUME NEW u \in Users, DeleteUser(u) \/ \E status \in {"active", "blocked"} : SetStatus(u, status)
      PROVE  FitKept'
  <2>1. users[u] \in User
    BY DEF TypeOK
  <2>2. PICK new : Outside(u, new) /\ (new.live => users[u].live)
    BY <1>8, <2>1 DEF DeleteUser, SetStatus, User
  <2> QED BY <2>2, FitOutside
<1> QED BY <1>1, <1>2, <1>3, <1>4, <1>5, <1>6, <1>7, <1>8 DEF Next, vars

\* Only the answer of the pool opens a session, and it is the user's and the device's of the
\* request.
LEMMA OpenedByAnswer ==
    ASSUME TypeOK, [Next]_vars, NEW x \in sessions' \ sessions
    PROVE  \E s \in Slots : slot[s].pc = "answer" /\ slot[s].user = x.user /\ slot[s].device = x.device
<1>1. ASSUME NEW s \in Slots, Handle(s)
      PROVE  slot[s].pc = "answer" /\ slot[s].user = x.user /\ slot[s].device = x.device
  <2>1. Answer(s)
    BY <1>1 DEF Handle, SignOutDevice, SignOut, Bind, Check, Revoke, GlobalSignOut
  <2> QED BY <2>1 DEF Answer, At, Opened, TryAgain, Refused
<1> QED
  BY <1>1 DEF Next, vars, StartLogin, Verify, StartLogout, DeleteUser, SetStatus, DropAccount,
              RequestLoginOtp, ResendOtp, ResendSignupOtp, SendOtp

LEMMA FitInit == Init => FitKept
BY DEF Init, FitKept, Accounted, Starting, Idle

\* Sessions are opened only for users that were fit to enter once their device was written,
\* although verifyUnifiedPhoneOtp goes on with what it has read before; who signs up is the
\* exception when it was blocked before its device was written, as verifySignupOtp reads the
\* user again and asks for no status.
THEOREM SessionsVouchedHold == Spec => SessionsVouched
<1> DEFINE A == \A x \in sessions' \ sessions :
                   \E s \in Slots :
                       /\ OpenedFor(s, x)
                       /\ s \in fit \/ (slot[s].flow = "signup" /\ s \in overtaken)
<1>1. Init => TypeOK /\ FitKept
  BY InitTyped, FitInit
<1>2. TypeOK /\ FitKept /\ [Next]_vars => (TypeOK /\ FitKept)'
  BY StepTyped, FitStep
<1>3. TypeOK /\ FitKept /\ [Next]_vars => [A]_vars
  BY OpenedByAnswer DEF FitKept, Accounted, OpenedFor
<1> QED BY <1>1, <1>2, <1>3, PTL DEF Spec, SessionsVouched

-----------------------------------------------------------------------------
(* One device: what holds of a user whose verifications have not overlapped *)

InVerify == {"signOut", "bind", "check", "answer"}

\* One verification at a time; the sessions on a device are on the one that is written; from
\* the sign-out to the writing there is none; after it the device is the request's.
DeviceOf(u) ==
    /\ \A s, t \in Verifying(u) : s = t
    /\ \A x \in sessions : x.user = u /\ x.device # NoDevice => x.device = users[u].device
    /\ \A s \in Verifying(u) :
          /\ slot[s].pc = "bind" => \A x \in sessions : x.user = u => x.device = NoDevice
          /\ slot[s].pc \in {"check", "answer"} /\ slot[s].device # NoDevice =>
                slot[s].device = users[u].device

DeviceKept == \A u \in Users \ unsure : DeviceOf(u)

LEMMA DeviceInit == Init => DeviceKept
BY DEF Init, DeviceKept, DeviceOf, Verifying, Idle

\* A step that neither opens sessions, nor writes a device, nor starts a verification, nor
\* lets one go on to another step than its check.
LEMMA DeviceQuiet ==
    ASSUME TypeOK, DeviceKept, sessions' \subseteq sessions, unsure \subseteq unsure',
           \A u \in Users : users'[u].device = users[u].device,
           \A s \in Slots :
               \/ slot'[s] = slot[s]
               \/ slot'[s].pc \notin InVerify
               \/ /\ slot[s].pc = "check" /\ slot'[s].pc = "answer"
                  /\ slot'[s].user = slot[s].user /\ slot'[s].device = slot[s].device
    PROVE  DeviceKept'
<1> SUFFICES ASSUME NEW u \in Users, u \notin unsure' PROVE DeviceOf(u)'
  BY DEF DeviceKept
<1>1. DeviceOf(u)
  BY DEF DeviceKept
<1>2. \A s \in Slots : s \in Verifying(u)' =>
          /\ s \in Verifying(u) /\ slot'[s].device = slot[s].device
          /\ slot'[s].pc = "bind" => slot[s].pc = "bind"
          /\ slot'[s].pc \in {"check", "answer"} => slot[s].pc \in {"check", "answer"}
  BY DEF Verifying, InVerify
<1>3. Verifying(u)' \subseteq Slots
  BY DEF Verifying
<1> QED BY <1>1, <1>2, <1>3 DEF DeviceOf

\* A sign-out by a request that is no verification, or is the only one and goes on to write.
LEMMA DeviceSignOut ==
    ASSUME TypeOK, DeviceKept, NEW s \in Slots, NEW u \in Users, u = slot[s].user, SignOut(s),
           UNCHANGED users, NEW r, Become(s, r),
           r.pc \notin InVerify \/ (slot[s].pc = "signOut" /\ r.pc = "bind" /\ r.user = u)
    PROVE  DeviceKept'
<1>1. slot'[s] = r /\ \A t \in Slots : t # s => slot'[t] = slot[t]
  BY DEF TypeOK, Become
<1>2. \A v \in Users : \A t \in Verifying(v)' : t \in Slots /\ (t \in Verifying(v) \/ t = s)
  BY <1>1 DEF Verifying
<1>3. \A v \in Users : s \in Verifying(v)' => v = u /\ s \in Verifying(u) /\ slot'[s].pc = "bind"
  BY <1>1 DEF Verifying, InVerify
<1>4. \A x \in sessions' : x \in sessions /\ x.user # u
  BY DEF SignOut, Of
<1> SUFFICES ASSUME NEW v \in Users, v \notin unsure' PROVE DeviceOf(v)'
  BY DEF DeviceKept
<1>5. CASE v = u /\ Verifying(u) \subseteq {s}
  <2>1. \A t \in Verifying(v)' : t = s /\ slot'[t].pc = "bind"
    BY <1>2, <1>3, <1>5
  <2> QED BY <1>4, <1>5, <2>1 DEF DeviceOf
<1>6. CASE ~(v = u /\ Verifying(u) \subseteq {s})
  <2>1. DeviceOf(v)
    BY <1>6 DEF SignOut, DeviceKept
  <2>2. v = u => s \notin Verifying(u)
    BY <1>6, <2>1 DEF DeviceOf
  <2>3. \A t \in Verifying(v)' : t \in Slots /\ t \in Verifying(v) /\ slot'[t] = slot[t]
    BY <1>1, <1>2, <1>3, <2>2
  <2> QED BY <1>4, <2>1, <2>3 DEF DeviceOf
<1> QED BY <1>5, <1>6

\* The device is written.
LEMMA DeviceBind ==
    ASSUME TypeOK, DeviceKept, NEW s \in Slots, Bind(s)
    PROVE  DeviceKept'
<1>0. PICK u \in Users : u = slot[s].user
  BY DEF Bind, At, TypeOK
<1>1. slot[s] \in Request /\ slot[s].pc = "bind"
  BY DEF Bind, At, TypeOK
<1>2. slot' = [slot EXCEPT ![s] = [slot[s] EXCEPT !.pc = "check"]]
  BY DEF Bind, Goto, Become
<1>3. /\ slot'[s].pc = "check" /\ slot'[s].user = u /\ slot'[s].device = slot[s].device
      /\ \A t \in Slots : t # s => slot'[t] = slot[t]
  BY <1>0, <1>1, <1>2 DEF TypeOK, Request
<1>4. /\ users'[u].device = slot[s].device
      /\ \A v \in Users : v # u => users'[v] = users[v]
  BY <1>0 DEF Bind, TypeOK, User
<1>5. UNCHANGED <<sessions, unsure>>
  BY DEF Bind
<1>6. \A v \in Users : \A t \in Verifying(v)' : t \in Slots /\ t \in Verifying(v)
  BY <1>0, <1>1, <1>3 DEF Verifying
<1>7. s \in Verifying(u)
  BY <1>0, <1>1 DEF Verifying
<1>8. \A v \in Users : s \in Verifying(v)' => v = u
  BY <1>3 DEF Verifying
<1> SUFFICES ASSUME NEW v \in Users, v \notin unsure' PROVE DeviceOf(v)'
  BY DEF DeviceKept
<1>9. DeviceOf(v)
  BY <1>5 DEF DeviceKept
<1>10. CASE v = u
  <2>1. \A t \in Verifying(v)' : t = s
    BY <1>6, <1>7, <1>9, <1>10 DEF DeviceOf
  <2>2. \A x \in sessions' : x.user = v => x.device = NoDevice
    BY <1>1, <1>5, <1>7, <1>9, <1>10 DEF DeviceOf
  <2> QED BY <1>3, <1>4, <1>10, <2>1, <2>2 DEF DeviceOf
<1>11. CASE v # u
  <2>1. \A t \in Verifying(v)' : t \in Verifying(v) /\ slot'[t] = slot[t]
    BY <1>3, <1>6, <1>8, <1>11
  <2> QED BY <1>4, <1>5, <1>9, <1>11, <2>1 DEF DeviceOf
<1> QED BY <1>10, <1>11

\* A verification begins: the user becomes unsure where another one is under way.
LEMMA DeviceArrive ==
    ASSUME TypeOK, DeviceKept, NEW s \in Slots, NEW u \in Users, NEW d \in Clients, NEW f,
           NEW l \in Labels, l = FirstStep(u, d) \/ (l = "check" /\ d = NoDevice),
           Arrive(s, u, l, d, f), UNCHANGED <<users, sessions>>
    PROVE  DeviceKept'
<1>1. /\ slot'[s].pc = l /\ slot'[s].user = u /\ slot'[s].device = d
      /\ \A t \in Slots : t # s => slot'[t] = slot[t]
  BY DEF Arrive, Become, TypeOK
<1>2. \A v \in Users : \A t \in Verifying(v)' :
          t \in Slots /\ ((t # s /\ t \in Verifying(v)) \/ (t = s /\ v = u))
  BY <1>1 DEF Verifying
<1> SUFFICES ASSUME NEW v \in Users, v \notin unsure' PROVE DeviceOf(v)'
  BY DEF DeviceKept
<1>3. DeviceOf(v)
  BY DEF DeviceKept, Arrive
<1>4. CASE v = u
  <2>1. Verifying(u) = {}
    BY <1>4 DEF Arrive
  <2>2. \A t \in Verifying(v)' : t = s
    BY <1>2, <1>4, <2>1
  <2>3. l = "bind" => \A x \in sessions : x.user = u => x.device = NoDevice
    BY <1>3, <1>4 DEF FirstStep, DeviceOf
  <2>4. l \in {"check", "answer"} /\ d # NoDevice => d = users[u].device
    BY DEF FirstStep
  <2> QED BY <1>1, <1>3, <1>4, <2>2, <2>3, <2>4 DEF DeviceOf
<1>5. CASE v # u
  <2>1. \A t \in Verifying(v)' : t \in Verifying(v) /\ slot'[t] = slot[t]
    BY <1>1, <1>2, <1>5
  <2> QED BY <1>3, <2>1 DEF DeviceOf
<1> QED BY <1>4, <1>5

\* A session is opened on the device that is written, or on none.
LEMMA DeviceAnswer ==
    ASSUME TypeOK, DeviceKept, NEW s \in Slots, Answer(s)
    PROVE  DeviceKept'
<1>0. PICK u \in Users : u = slot[s].user
  BY DEF Answer, At, TypeOK
<1>1. PICK x : /\ x.user = u /\ x.device = slot[s].device
               /\ sessions' \subseteq sessions \cup {x}
  <2> DEFINE y == [user |-> slot[s].user, device |-> slot[s].device]
  <2>1. sessions' \subseteq sessions \cup {y}
    BY DEF Answer, Opened, TryAgain, Refused
  <2> QED BY <1>0, <2>1
<1>2. /\ slot'[s].pc = "idle"
      /\ \A t \in Slots : t # s => slot'[t] = slot[t]
  BY DEF Answer, Done, Become, Idle, TypeOK
<1>3. \A v \in Users : \A t \in Verifying(v)' :
          t # s /\ t \in Verifying(v) /\ slot'[t] = slot[t]
  BY <1>2 DEF Verifying
<1>4. s \in Verifying(u) /\ slot[s].pc = "answer"
  BY <1>0 DEF Verifying, Answer, At
<1> SUFFICES ASSUME NEW v \in Users, v \notin unsure' PROVE DeviceOf(v)'
  BY DEF DeviceKept
<1>5. DeviceOf(v) /\ UNCHANGED users
  BY DEF DeviceKept, Answer
<1>6. CASE v = u
  <2>1. Verifying(v)' = {}
    BY <1>3, <1>4, <1>5, <1>6 DEF DeviceOf
  <2>2. x.device # NoDevice => x.device = users[u].device
    BY <1>1, <1>4, <1>5, <1>6 DEF DeviceOf
  <2> QED BY <1>1, <1>5, <1>6, <2>1, <2>2 DEF DeviceOf
<1>7. CASE v # u
  BY <1>1, <1>3, <1>5, <1>7 DEF DeviceOf
<1> QED BY <1>6, <1>7

LEMMA DeviceStep ==
    ASSUME TypeOK, DeviceKept, [Next]_vars
    PROVE  DeviceKept'
<1>1. ASSUME NEW s \in Slots, Handle(s) PROVE DeviceKept'
  <2>0. slot[s].pc # "idle" => slot[s] \in Request /\ slot[s].user \in Users
    BY DEF TypeOK
  <2>1. CASE SignOutDevice(s)
    <3> DEFINE r == [slot[s] EXCEPT !.pc = "bind"]
    <3>0. slot[s] \in Request /\ slot[s].user \in Users /\ slot[s].pc = "signOut" /\ Become(s, r)
      BY <2>0, <2>1 DEF SignOutDevice, At, Goto
    <3>1. r.pc = "bind" /\ r.user = slot[s].user
      BY <3>0 DEF Request
    <3>2. CASE SignOut(s)
      BY <2>1, <3>0, <3>1, <3>2, DeviceSignOut DEF SignOutDevice
    <3>3. CASE unsure' = unsure \cup {slot[s].user} /\ UNCHANGED sessions
      <4>1. slot'[s] = r /\ \A t \in Slots : t # s => slot'[t] = slot[t]
        BY <3>0 DEF Become, TypeOK
      <4> HIDE DEF r
      <4>2. \A v \in Users \ unsure' : v # slot[s].user /\ v \in Users \ unsure
        BY <3>3
      <4>3. \A v \in Users \ unsure' : \A t \in Verifying(v)' :
               t # s /\ t \in Verifying(v) /\ slot'[t] = slot[t]
        BY <3>1, <4>1, <4>2 DEF Verifying
      <4> QED BY <2>1, <3>3, <4>2, <4>3 DEF SignOutDevice, DeviceKept, DeviceOf
    <3> QED BY <2>1, <3>2, <3>3 DEF SignOutDevice
  <2>2. CASE Check(s)
    <3>1. \/ slot'[s] = [slot[s] EXCEPT !.pc = "answer"]
          \/ slot'[s] = Idle
      BY <2>2 DEF Check, Goto, Done, Become, TypeOK
    <3>2. slot[s].pc = "check" /\ \A t \in Slots : t # s => slot'[t] = slot[t]
      BY <2>2 DEF Check, At, Goto, Done, Become, TypeOK
    <3>3. \/ slot'[s].pc \notin InVerify
          \/ slot'[s].pc = "answer" /\ slot'[s].user = slot[s].user /\ slot'[s].device = slot[s].device
      BY <2>0, <3>1, <3>2 DEF Idle, InVerify, Request
    <3> QED BY <2>2, <3>2, <3>3, DeviceQuiet DEF Check
  <2>3. CASE Revoke(s)
    <3>1. slot'[s].pc \notin InVerify /\ \A t \in Slots : t # s => slot'[t] = slot[t]
      BY <2>0, <2>3 DEF Revoke, At, Goto, Become, InVerify, TypeOK, Request
    <3>2. sessions' \subseteq sessions
      BY <2>3 DEF Revoke
    <3> QED BY <2>3, <3>1, <3>2, DeviceQuiet DEF Revoke
  <2>4. CASE GlobalSignOut(s)
    <3>1. Idle.pc \notin InVerify /\ Become(s, Idle)
      BY <2>4 DEF GlobalSignOut, Done, Idle, InVerify
    <3>2. CASE SignOut(s)
      <4>1. slot[s].user \in Users
        BY <2>0, <2>4 DEF GlobalSignOut, At
      <4> QED BY <2>4, <3>1, <3>2, <4>1, DeviceSignOut DEF GlobalSignOut
    <3>3. CASE UNCHANGED <<sessions, unsure>>
      <4>1. slot'[s].pc \notin InVerify /\ \A t \in Slots : t # s => slot'[t] = slot[t]
        BY <3>1 DEF Become, TypeOK
      <4> QED BY <2>4, <3>3, <4>1, DeviceQuiet DEF GlobalSignOut
    <3> QED BY <2>4, <3>2, <3>3 DEF GlobalSignOut
  <2> QED BY <1>1, <2>1, <2>2, <2>3, <2>4, DeviceBind, DeviceAnswer DEF Handle
<1>2. ASSUME NEW s \in Slots, NEW u \in Users, StartLogin(s, u) PROVE DeviceKept'
  <2>1. NoDevice \in Clients /\ "check" \in Labels
    BY DEF Clients, Labels
  <2> QED BY <1>2, <2>1, DeviceArrive DEF StartLogin
<1>3. ASSUME NEW s \in Slots, NEW u \in Users, NEW d \in Clients, Verify(s, u, d) PROVE DeviceKept'
  <2>1. FirstStep(u, d) \in Labels
    BY DEF FirstStep, Labels
  <2> QED BY <1>3, <2>1, DeviceArrive DEF Verify
<1>4. ASSUME NEW s \in Slots, NEW x \in sessions, StartLogout(s, x) PROVE DeviceKept'
  <2>1. slot'[s].pc \notin InVerify /\ \A t \in Slots : t # s => slot'[t] = slot[t]
    BY <1>4 DEF StartLogout, Become, InVerify, TypeOK
  <2> QED BY <1>4, <2>1, DeviceQuiet DEF StartLogout
<1>5. ASSUME NEW u \in Users, NEW new, Outside(u, new), new.device = users[u].device, UNCHANGED sessions
      PROVE  DeviceKept'
  <2>1. \A v \in Users : users'[v].device = users[v].device
    BY <1>5 DEF Outside, TypeOK
  <2> QED BY <1>5, <2>1, DeviceQuiet DEF Outside
<1>6. ASSUME NEW u \in Users, DeleteUser(u) \/ \E status \in {"active", "blocked"} : SetStatus(u, status)
      PROVE  DeviceKept'
  <2>1. users[u] \in User
    BY DEF TypeOK
  <2> QED BY <1>5, <1>6, <2>1 DEF DeleteUser, SetStatus, User
<1>7. ASSUME NEW u \in Users, DropAccount(u) PROVE DeviceKept'
  <2>1. sessions' \subseteq sessions
    BY <1>7 DEF DropAccount
  <2> QED BY <1>7, <2>1, DeviceQuiet DEF DropAccount
<1>8. ASSUME UNCHANGED <<users, sessions, slot, unsure>> PROVE DeviceKept'
  BY <1>8, DeviceQuiet
<1>9. ASSUME NEW u \in Users, NEW d \in Clients, RequestLoginOtp(u, d) \/ ResendOtp(u, d)
      PROVE  DeviceKept'
  BY <1>8, <1>9 DEF RequestLoginOtp, ResendOtp, ResendSignupOtp, SendOtp
<1> QED BY <1>1, <1>2, <1>3, <1>4, <1>6, <1>7, <1>8, <1>9 DEF Next, vars

LEMMA OneDevice == TypeOK /\ DeviceKept => SingleDevice
BY DEF TypeOK, Session, DeviceKept, DeviceOf, SingleDevice

\* A user holds sessions on one device only, however many clients it has, as long as the
\* sign-out of the device before succeeds and its verifications do not overlap: the order of
\* sign-out, device and password in verifyUnifiedPhoneOtp is enough.
THEOREM SingleDeviceHolds == Spec => []SingleDevice
<1>1. Init => TypeOK /\ DeviceKept
  BY InitTyped, DeviceInit
<1>2. TypeOK /\ DeviceKept /\ [Next]_vars => (TypeOK /\ DeviceKept)'
  BY StepTyped, DeviceStep
<1>3. TypeOK /\ DeviceKept => SingleDevice
  BY OneDevice
<1> QED BY <1>1, <1>2, <1>3, PTL DEF Spec
=============================================================================
