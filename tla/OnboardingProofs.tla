-------------------------- MODULE OnboardingProofs --------------------------
(* Theorems about Onboarding for every number of users and of overlapping    *)
(* requests, and every choice of the operations that arrive.                 *)
EXTENDS Onboarding, TLAPS

LEMMA IdleTyped == Idle \in Request /\ Idle.pc = "idle" /\ Idle.op = "none"
BY DEF Idle, Handling, Request, Labels

\* A conditional update writes one document, and none that is deleted.
LEMMA UpdateOne ==
    ASSUME doc \in [Users -> Document], NEW u \in Users, NEW d \in Document, Update(u, d)
    PROVE  /\ doc' \in [Users -> Document]
           /\ doc'[u] = IF Live(u) THEN d ELSE doc[u]
           /\ \A v \in Users \ {u} : doc'[v] = doc[v]
BY DEF Update

\* A request that arrives takes its slot and changes nothing else.
Arrived(s) ==
    /\ slot' \in [Slots -> Request]
    /\ RequestOK(slot'[s]) /\ slot'[s].uid \in Users
    /\ \A t \in Slots \ {s} : slot'[t] = slot[t]
    /\ UNCHANGED <<doc, attribute, code, vouched>>

LEMMA ArrivalTyped ==
    ASSUME TypeOK, NEW s \in Slots, NEW u \in Users, Start(s, u)
    PROVE  Arrived(s)
<1> DEFINE ArrivedOk(r) == r \in Request /\ RequestOK(r) /\ r.uid \in Users
<1>0. ASSUME NEW r, ArrivedOk(r), slot' = [slot EXCEPT ![s] = r],
             UNCHANGED <<doc, attribute, code, vouched>>
      PROVE  Arrived(s)
  BY <1>0 DEF Arrived, TypeOK
<1> USE DEF TypeOK
<1>1. ASSUME NEW l \in {"answerOtp", "activate", "delete"}, NEW o \in Operations \ {"manage", "setUsername"},
             NEW t \in Statuses \cup {"keep"}
      PROVE  ArrivedOk(Handling(l, o, u, NoName, NoEmail, NoInst, t))
  BY <1>1 DEF RequestOK, Handling, Request, Labels, Statuses
<1>2. CASE StartVerifyOtp(s, u) \/ StartActivate(s, u) \/ StartDelete(s, u)
  <2>1. CASE StartVerifyOtp(s, u)
    <3> DEFINE r == Handling("answerOtp", "verifyOtp", u, NoName, NoEmail, NoInst, "keep")
    <3>1. Arrive(s, r)
      BY <2>1 DEF StartVerifyOtp
    <3>2. ArrivedOk(r)
      BY <1>1, <3>1 DEF Arrive, Handling
    <3>3. QED
      BY <1>0, <3>1, <3>2 DEF Arrive
  <2>2. CASE StartActivate(s, u)
    <3> DEFINE r == Handling("activate", "activate", u, NoName, NoEmail, NoInst, "active")
    <3>1. Arrive(s, r)
      BY <2>2 DEF StartActivate
    <3>2. ArrivedOk(r)
      BY <1>1, <3>1 DEF Arrive, Handling, Statuses
    <3>3. QED
      BY <1>0, <3>1, <3>2 DEF Arrive
  <2>3. CASE StartDelete(s, u)
    <3> DEFINE r == Handling("delete", "delete", u, NoName, NoEmail, NoInst, "inactive")
    <3>1. Arrive(s, r)
      BY <2>3 DEF StartDelete
    <3>2. ArrivedOk(r)
      BY <1>1, <3>1 DEF Arrive, Handling, Statuses
    <3>3. QED
      BY <1>0, <3>1, <3>2 DEF Arrive
  <2>4. QED
    BY <1>2, <2>1, <2>2, <2>3
<1>3. CASE StartDetach(s, u)
  <2> DEFINE r == Handling("detach", "detach", u, NoName, doc[u].email, NoInst, "keep")
  <2>1. Arrive(s, r)
    BY <1>3 DEF StartDetach
  <2>2. "detach" \in Operations
    BY <2>1 DEF Arrive, Handling
  <2>3. doc[u].email \in Emails \cup {NoEmail}
    BY DEF Document
  <2>4. ArrivedOk(r)
    BY <2>2, <2>3, NoneAssumption DEF RequestOK, Handling, Request, Labels, Statuses
  <2>5. QED
    BY <1>0, <2>1, <2>4 DEF Arrive
<1>4. ASSUME NEW n \in Names, StartSetUsername(s, u, n) \/ StartChangeUsername(s, u, n)
      PROVE  Arrived(s)
  <2>1. PICK o \in {"setUsername", "changeUsername"} :
          Arrive(s, Handling("findName", o, u, n, NoEmail, NoInst, "keep"))
    BY <1>4 DEF StartSetUsername, StartChangeUsername
  <2>2. o \in Operations
    BY <2>1 DEF Arrive, Handling
  <2>3. ArrivedOk(Handling("findName", o, u, n, NoEmail, NoInst, "keep"))
    BY <2>2, <2>1, NoneAssumption DEF RequestOK, Handling, Request, Labels, Statuses
  <2>4. QED
    BY <1>0, <2>1, <2>3 DEF Arrive
<1>5. ASSUME NEW n \in Names \cup {NoName}, NEW t \in NewStatuses \cup {"keep"},
             StartProfile(s, u, n, t)
      PROVE  Arrived(s)
  <2> DEFINE l == IF n \in {NoName, Blank} THEN "profile" ELSE "findName"
  <2> DEFINE r == Handling(l, "profile", u, n, NoEmail, NoInst, t)
  <2>1. Arrive(s, r)
    BY <1>5 DEF StartProfile
  <2>2. "profile" \in Operations
    BY <2>1 DEF Arrive, Handling
  <2>3. t \in Statuses \cup {"keep"}
    BY StatusAssumption
  <2>4. ArrivedOk(r)
    BY <2>2, <2>3, NoneAssumption DEF RequestOK, Handling, Request, Labels, Statuses
  <2>5. QED
    BY <1>0, <2>1, <2>4 DEF Arrive
<1>6. ASSUME NEW e \in Emails, StartVerifyEmail(s, u, e)
      PROVE  Arrived(s)
  <2> DEFINE r == Handling("findEmail", "verifyEmail", u, NoName, e, NoInst, "keep")
  <2>1. Arrive(s, r)
    BY <1>6 DEF StartVerifyEmail
  <2>2. "verifyEmail" \in Operations
    BY <2>1 DEF Arrive, Handling
  <2>3. ArrivedOk(r)
    BY <2>2, NoneAssumption DEF RequestOK, Handling, Request, Labels, Statuses
  <2>4. QED
    BY <1>0, <2>1, <2>3 DEF Arrive
<1>7. ASSUME NEW e \in Emails, NEW i \in Institutions, StartConfirmEmail(s, u, e, i)
      PROVE  Arrived(s)
  <2> DEFINE t == IF doc[u].status = "pending" THEN "active" ELSE "keep"
  <2> DEFINE r == Handling("enterCode", "confirmEmail", u, NoName, e, i, t)
  <2>1. Arrive(s, r)
    BY <1>7 DEF StartConfirmEmail
  <2>2. "confirmEmail" \in Operations
    BY <2>1 DEF Arrive, Handling
  <2>3. ArrivedOk(r)
    BY <2>2, NoneAssumption DEF RequestOK, Handling, Request, Labels, Statuses
  <2>4. QED
    BY <1>0, <2>1, <2>3 DEF Arrive
<1>8. ASSUME NEW n \in Names, NEW e \in Emails \cup {NoEmail}, NEW i \in Institutions,
             NEW t \in NewStatuses, StartManage(s, u, n, e, i, t)
      PROVE  Arrived(s)
  <2> DEFINE l == IF e \in {NoEmail, doc[u].email} THEN "findName" ELSE "findEmail"
  <2> DEFINE r == Handling(l, "manage", u, n, e, i, t)
  <2>1. Arrive(s, r)
    BY <1>8 DEF StartManage
  <2>2. "manage" \in Operations
    BY <2>1 DEF Arrive, Handling
  <2>3. t \in Statuses
    BY StatusAssumption
  <2>4. ArrivedOk(r)
    BY <2>2, <2>3, NoneAssumption DEF RequestOK, Handling, Request, Labels, Statuses
  <2>5. QED
    BY <1>0, <2>1, <2>4 DEF Arrive
<1>9. QED
  BY <1>2, <1>3, <1>4, <1>5, <1>6, <1>7, <1>8 DEF Start

-----------------------------------------------------------------------------
(* The requests under way *)

LEMMA AnswerTyped ==
    ASSUME TypeOK, NEW s \in Slots, Done(s)
    PROVE  slot' \in [Slots -> Request] /\ \A t \in Slots : RequestOK(slot'[t])
<1>1. slot' \in [Slots -> Request] /\ slot'[s] = Idle
  BY IdleTyped DEF TypeOK, Done
<1>2. RequestOK(Idle)
  BY DEF RequestOK, Idle, Handling
<1>3. \A t \in Slots \ {s} : slot'[t] = slot[t]
  BY DEF TypeOK, Done
<1>4. QED
  BY <1>1, <1>2, <1>3 DEF TypeOK

LEMMA GoOnTyped ==
    ASSUME TypeOK, NEW s \in Slots, NEW l \in Labels, Goto(s, l), RequestOK([slot[s] EXCEPT !.pc = l])
    PROVE  slot' \in [Slots -> Request] /\ \A t \in Slots : RequestOK(slot'[t])
<1>1. slot' = [slot EXCEPT ![s] = [slot[s] EXCEPT !.pc = l]]
  BY DEF Goto, TypeOK
<1>2. [slot[s] EXCEPT !.pc = l] \in Request
  BY DEF TypeOK, Request
<1>3. QED
  BY <1>1, <1>2 DEF TypeOK

LEMMA HandlerTyped ==
    ASSUME TypeOK, NEW s \in Slots, Handle(s) \/ Abort(s)
    PROVE  slot' \in [Slots -> Request] /\ \A t \in Slots : RequestOK(slot'[t])
<1> DEFINE Typed == slot' \in [Slots -> Request] /\ \A t \in Slots : RequestOK(slot'[t])
<1>1. CASE Done(s)
  BY <1>1, AnswerTyped
<1>2. RequestOK(slot[s]) /\ slot[s] \in Request
  BY DEF TypeOK
<1>3. ASSUME NEW l \in Labels, Goto(s, l), RequestOK([slot[s] EXCEPT !.pc = l])
      PROVE  Typed
  BY <1>3, GoOnTyped
<1>4. CASE FindName(s)
  <2>1. CASE Goto(s, AfterName(slot[s].op))
    <3>1. RequestOK([slot[s] EXCEPT !.pc = AfterName(slot[s].op)])
      BY <1>2, <1>4 DEF FindName, At, RequestOK, AfterName, Request
    <3>2. AfterName(slot[s].op) \in Labels
      BY DEF AfterName, Labels
    <3>3. QED
      BY <2>1, <3>1, <3>2, <1>3
  <2>2. QED
    BY <1>1, <1>4, <2>1 DEF FindName
<1>5. CASE FindEmail(s)
  <2>1. CASE Goto(s, "writeEmail") /\ slot[s].op = "verifyEmail"
    <3>1. RequestOK([slot[s] EXCEPT !.pc = "writeEmail"])
      BY <1>2, <1>5, <2>1 DEF FindEmail, At, RequestOK, Request
    <3>2. QED
      BY <2>1, <3>1, <1>3 DEF Labels
  <2>2. CASE Goto(s, "findName") /\ slot[s].op = "manage"
    <3>1. RequestOK([slot[s] EXCEPT !.pc = "findName"])
      BY <1>2, <1>5, <2>2 DEF FindEmail, At, RequestOK, Request
    <3>2. QED
      BY <2>2, <3>1, <1>3 DEF Labels
  <2>3. QED
    BY <1>1, <1>5, <2>1, <2>2 DEF FindEmail
<1>6. CASE WriteEmail(s) \/ UpdateAttribute(s)
  <2>1. PICK l \in {"updateAttribute", "requestCode"} : Goto(s, l)
    BY <1>6 DEF WriteEmail, UpdateAttribute
  <2>2. RequestOK([slot[s] EXCEPT !.pc = l])
    BY <1>2, <1>6 DEF WriteEmail, UpdateAttribute, At, RequestOK, Request
  <2>3. QED
    BY <2>1, <2>2, <1>3 DEF Labels
<1>7. CASE EnterCode(s) \/ EnterDefaultCode(s)
  <2>1. Goto(s, "confirm")
    BY <1>7 DEF EnterCode, EnterDefaultCode
  <2>2. RequestOK([slot[s] EXCEPT !.pc = "confirm"])
    BY <1>2, <1>7 DEF EnterCode, EnterDefaultCode, At, RequestOK, Request
  <2>3. QED
    BY <2>1, <2>2, <1>3 DEF Labels
<1>8. CASE Detach(s)
  <2>1. CASE Goto(s, "clearAttribute")
    <3>1. RequestOK([slot[s] EXCEPT !.pc = "clearAttribute"])
      BY <1>2, <1>8 DEF Detach, At, RequestOK, Request
    <3>2. QED
      BY <2>1, <3>1, <1>3 DEF Labels
  <2>2. QED
    BY <1>1, <1>8, <2>1 DEF Detach
<1>9. CASE Delete(s)
  <2>1. RequestOK([slot[s] EXCEPT !.pc = "dropAccount"])
    BY <1>2, <1>9 DEF Delete, At, RequestOK, Request
  <2>2. QED
    BY <1>9, <2>1, <1>3 DEF Labels, Delete
<1>10. CASE AnswerOtp(s) \/ WriteName(s) \/ WriteProfile(s) \/ RequestCode(s) \/ RejectCode(s)
  BY <1>1, <1>10 DEF AnswerOtp, WriteName, WriteProfile, RequestCode, RejectCode
<1>11. CASE ConfirmEmail(s) \/ Activate(s) \/ UpdateManaged(s) \/ ClearAttribute(s) \/ DropAccount(s) \/ Abort(s)
  BY <1>1, <1>11 DEF ConfirmEmail, Activate, UpdateManaged, ClearAttribute, DropAccount, Abort
<1>12. QED
  BY <1>4, <1>5, <1>6, <1>7, <1>8, <1>9, <1>10, <1>11 DEF Handle

-----------------------------------------------------------------------------
(* The writes *)

\* What a step of request s may leave of its user's document: an inactive deleted
\* one without a name; or a live one with no step undone, a name nobody else has, and an
\* e-mail address that is new only if verifyEmail or a managed update wrote it.
MayWrite(s, d) ==
    \/ d.deleted /\ d.name = NoName /\ d.status = "inactive"
    \/ /\ ~d.deleted
       /\ doc[Uid(s)].phoneVerified => d.phoneVerified
       /\ d.name = doc[Uid(s)].name \/ (d.name \in Names /\ ~NameTaken(Uid(s), d.name))
       /\ \/ d.email \in {doc[Uid(s)].email, NoEmail}
          \/ At(s, "writeEmail")
          \/ d.phoneVerified /\ d.name \in Names

\* deleteUser leaves the status inactive, and moderation may block the user then:
\* this is all that keeps setUsername's update away from a deleted user.
DeletedNotPending == \A u \in Users : doc[u].deleted => doc[u].status \in {"inactive", "blocked"}

Wrote(s) ==
    /\ Uid(s) \in Users
    /\ Live(Uid(s))
    /\ \E d \in Document : MayWrite(s, d) /\ doc' = [doc EXCEPT ![Uid(s)] = d]

LEMMA UpdateWrites ==
    ASSUME NEW s \in Slots, Uid(s) \in Users, NEW d \in Document,
           Live(Uid(s)) => MayWrite(s, d), Update(Uid(s), d)
    PROVE  UNCHANGED doc \/ Wrote(s)
BY DEF Update, Wrote

LEMMA HandlerWrites ==
    ASSUME TypeOK, DeletedNotPending, NEW s \in Slots, Handle(s) \/ Abort(s)
    PROVE  UNCHANGED doc \/ Wrote(s)
<1> DEFINE u == Uid(s)
<1>1. slot[s] \in Request /\ RequestOK(slot[s])
  BY DEF TypeOK
<1>2. ASSUME ~At(s, "idle")
      PROVE  u \in Users /\ doc[u] \in Document
  BY <1>1, <1>2 DEF TypeOK, RequestOK, At, Uid
<1>3. CASE AnswerOtp(s)
  <2> DEFINE d == [doc[u] EXCEPT !.phoneVerified = TRUE]
  <2>1. u \in Users /\ doc[u] \in Document /\ Update(u, d)
    BY <1>2, <1>3 DEF AnswerOtp, At
  <2>2. d \in Document /\ (Live(u) => MayWrite(s, d))
    BY <2>1 DEF Document, MayWrite, Live
  <2>3. QED
    BY <2>1, <2>2, UpdateWrites
<1>4. CASE WriteName(s)
  <2> DEFINE d == [doc[u] EXCEPT !.name = slot[s].name]
  <2>1. u \in Users /\ doc[u] \in Document
    BY <1>2, <1>4 DEF WriteName, At
  <2>2. slot[s].name \in Names
    BY <1>1, <1>4 DEF WriteName, At, RequestOK
  <2>3. CASE Writable(slot[s].op, u) /\ ~NameTaken(u, slot[s].name)
    <3>1. Live(u)
      BY <2>1, <2>3 DEF Writable, DeletedNotPending, Live
    <3>2. d \in Document /\ MayWrite(s, d)
      BY <2>1, <2>2, <2>3, <3>1 DEF Document, MayWrite, Live
    <3>3. doc' = [doc EXCEPT ![u] = d]
      BY <1>4, <2>1, <2>3 DEF WriteName, TypeOK
    <3>4. QED
      BY <2>1, <3>1, <3>2, <3>3 DEF Wrote
  <2>4. QED
    BY <1>4, <2>3 DEF WriteName
<1>5. CASE WriteProfile(s)
  <2> DEFINE n == IF slot[s].name = NoName THEN doc[u].name ELSE slot[s].name
  <2> DEFINE t == IF slot[s].status = "keep" THEN doc[u].status ELSE slot[s].status
  <2> DEFINE d == [doc[u] EXCEPT !.name = n, !.status = t]
  <2>1. u \in Users /\ doc[u] \in Document
    BY <1>2, <1>5 DEF WriteProfile, At
  <2>2. n \in Names \cup {NoName} /\ t \in Statuses
    BY <1>1, <2>1 DEF Document, Request
  <2>3. CASE (~NameTaken(u, slot[s].name) \/ slot[s].name = NoName) /\ Update(u, d)
    <3>1. d \in Document
      BY <2>1, <2>2 DEF Document
    <3>2. d.name = n /\ d.deleted = doc[u].deleted /\ d.phoneVerified = doc[u].phoneVerified /\ d.email = doc[u].email
      BY <2>1 DEF Document
    <3>3. n = doc[u].name \/ (n \in Names /\ ~NameTaken(u, n))
      BY <2>2, <2>3
    <3>4. Live(u) => MayWrite(s, d)
      BY <2>1, <3>2, <3>3 DEF MayWrite, Live
    <3>5. QED
      BY <2>1, <2>3, <3>1, <3>4, UpdateWrites
  <2>4. QED
    BY <1>5, <2>3 DEF WriteProfile
<1>6. CASE WriteEmail(s)
  <2> DEFINE d == [doc[u] EXCEPT !.email = slot[s].email, !.emailVerified = FALSE]
  <2>1. u \in Users /\ doc[u] \in Document /\ Update(u, d)
    BY <1>2, <1>6 DEF WriteEmail, At
  <2>2. d \in Document /\ (Live(u) => MayWrite(s, d))
    BY <1>1, <1>6, <2>1 DEF Document, MayWrite, Live, WriteEmail, At, RequestOK
  <2>3. QED
    BY <2>1, <2>2, UpdateWrites
<1>7. CASE ConfirmEmail(s)
  <2> DEFINE t == IF slot[s].status = "keep" THEN doc[u].status ELSE slot[s].status
  <2> DEFINE d == [doc[u] EXCEPT !.emailVerified = TRUE, !.institution = slot[s].inst, !.status = t]
  <2>1. u \in Users /\ doc[u] \in Document /\ Update(u, d)
    BY <1>2, <1>7 DEF ConfirmEmail, At
  <2>2. t \in Statuses
    BY <1>1, <2>1 DEF Document, Request
  <2>3. d \in Document /\ (Live(u) => MayWrite(s, d))
    BY <1>1, <1>7, <2>1, <2>2 DEF Document, MayWrite, Live, ConfirmEmail, At, RequestOK
  <2>4. QED
    BY <2>1, <2>3, UpdateWrites
<1>8. CASE Activate(s)
  <2> DEFINE d == [doc[u] EXCEPT !.status = "active"]
  <2>1. u \in Users /\ doc[u] \in Document /\ Update(u, d)
    BY <1>2, <1>8 DEF Activate, At
  <2>2. d \in Document /\ (Live(u) => MayWrite(s, d))
    BY <2>1 DEF Document, MayWrite, Live, Statuses
  <2>3. QED
    BY <2>1, <2>2, UpdateWrites
<1>9. CASE Detach(s)
  <2> DEFINE d == [doc[u] EXCEPT !.email = NoEmail, !.emailVerified = FALSE, !.institution = NoInst]
  <2>1. u \in Users /\ doc[u] \in Document /\ Update(u, d)
    BY <1>2, <1>9 DEF Detach, At
  <2>2. d \in Document /\ (Live(u) => MayWrite(s, d))
    BY <2>1 DEF Document, MayWrite, Live
  <2>3. QED
    BY <2>1, <2>2, UpdateWrites
<1>10. CASE Delete(s)
  <2> DEFINE d == [doc[u] EXCEPT !.deleted = TRUE, !.status = "inactive", !.name = NoName]
  <2>1. u \in Users /\ doc[u] \in Document /\ Update(u, d)
    BY <1>2, <1>10 DEF Delete, At
  <2>2. d \in Document /\ (Live(u) => MayWrite(s, d))
    BY <2>1 DEF Document, MayWrite, Live, Statuses
  <2>3. QED
    BY <2>1, <2>2, UpdateWrites
<1>11. CASE UpdateManaged(s)
  <2> DEFINE e == IF slot[s].email = NoEmail THEN doc[u].email ELSE slot[s].email
  <2> DEFINE d == [doc[u] EXCEPT !.name = slot[s].name,
                                 !.email = IF slot[s].email = NoEmail THEN @ ELSE slot[s].email,
                                 !.emailVerified = slot[s].email # NoEmail,
                                 !.phoneVerified = TRUE, !.status = slot[s].status,
                                 !.institution = slot[s].inst]
  <2>1. u \in Users /\ doc[u] \in Document
    BY <1>2, <1>11 DEF UpdateManaged, At
  <2>2. slot[s].name \in Names /\ slot[s].inst \in Institutions /\ slot[s].status \in Statuses
    BY <1>1, <1>11 DEF RequestOK, UpdateManaged, At, Request
  <2>3. CASE ~NameTaken(u, slot[s].name) /\ Update(u, d)
    <3>1. d \in Document
      BY <1>1, <2>1, <2>2 DEF Document, Request
    <3>2. d.name = slot[s].name /\ d.phoneVerified /\ d.deleted = doc[u].deleted
      BY <2>1 DEF Document
    <3>3. Live(u) => MayWrite(s, d)
      BY <2>2, <2>3, <3>2 DEF MayWrite, Live
    <3>4. QED
      BY <2>1, <2>3, <3>1, <3>3, UpdateWrites
  <2>4. QED
    BY <1>11, <2>3 DEF UpdateManaged
<1>12. CASE FindName(s) \/ FindEmail(s) \/ UpdateAttribute(s) \/ RequestCode(s) \/ EnterCode(s)
           \/ RejectCode(s) \/ EnterDefaultCode(s) \/ ClearAttribute(s) \/ DropAccount(s) \/ Abort(s)
  BY <1>12 DEF FindName, FindEmail, UpdateAttribute, RequestCode, EnterCode, RejectCode,
               EnterDefaultCode, ClearAttribute, DropAccount, Abort
<1>13. QED
  BY <1>3, <1>4, <1>5, <1>6, <1>7, <1>8, <1>9, <1>10, <1>11, <1>12 DEF Handle

LEMMA HandlerElsewhere ==
    ASSUME TypeOK, BelongsAssumption, NEW s \in Slots, Handle(s) \/ Abort(s)
    PROVE  /\ attribute' \in [Users -> Emails \cup {NoEmail}]
           /\ code' \in [Users -> Emails \cup {NoEmail}]
           /\ vouched' \in [Users -> SUBSET (Emails \X Institutions)]
<1> DEFINE Elsewhere == /\ attribute' \in [Users -> Emails \cup {NoEmail}]
                        /\ code' \in [Users -> Emails \cup {NoEmail}]
                        /\ vouched' \in [Users -> SUBSET (Emails \X Institutions)]
<1>1. slot[s] \in Request /\ RequestOK(slot[s])
  BY DEF TypeOK
<1>2. CASE UpdateAttribute(s) \/ RequestCode(s) \/ ClearAttribute(s) \/ DropAccount(s)
  BY <1>1, <1>2 DEF UpdateAttribute, RequestCode, ClearAttribute, DropAccount, At, RequestOK, TypeOK, Uid
<1>3. CASE EnterCode(s)
  <2> DEFINE w == {attribute[Uid(s)]} \X Belongs[attribute[Uid(s)]]
  <2>1. Uid(s) \in Users /\ attribute[Uid(s)] \in Emails
    BY <1>1, <1>3 DEF EnterCode, At, RequestOK, TypeOK, Uid
  <2>2. w \subseteq Emails \X Institutions
    BY <2>1 DEF BelongsAssumption
  <2>3. vouched' = [vouched EXCEPT ![Uid(s)] = @ \cup w]
    BY <1>3 DEF EnterCode
  <2>4. QED
    BY <1>3, <2>1, <2>2, <2>3 DEF EnterCode, TypeOK
<1>4. CASE EnterDefaultCode(s)
  <2>1. Uid(s) \in Users /\ slot[s].email \in Emails /\ slot[s].inst \in Institutions
    BY <1>1, <1>4 DEF EnterDefaultCode, At, RequestOK, Uid
  <2>2. QED
    BY <1>4, <2>1 DEF EnterDefaultCode, TypeOK
<1>5. CASE UpdateManaged(s)
  <2> DEFINE w == ({slot[s].email} \cap Emails) \X {slot[s].inst}
  <2>1. Uid(s) \in Users /\ slot[s].inst \in Institutions
    BY <1>1, <1>5 DEF UpdateManaged, At, RequestOK, Uid
  <2>2. w \subseteq Emails \X Institutions
    BY <2>1
  <2>3. UNCHANGED vouched \/ vouched' = [vouched EXCEPT ![Uid(s)] = @ \cup w]
    BY <1>5 DEF UpdateManaged
  <2>4. QED
    BY <1>5, <2>1, <2>2, <2>3 DEF UpdateManaged, TypeOK
<1>6. CASE UNCHANGED <<attribute, code, vouched>>
  BY <1>6 DEF TypeOK
<1>7. QED
  BY <1>2, <1>3, <1>4, <1>5, <1>6
     DEF Handle, AnswerOtp, FindName, WriteName, WriteProfile, FindEmail, WriteEmail, RejectCode,
         ConfirmEmail, Activate, Detach, Delete, Abort

\* Moderation writes the status of one user, deleted or not.
LEMMA BlockWrites ==
    ASSUME TypeOK, NEW u \in Users, BlockReported(u)
    PROVE  /\ UNCHANGED <<attribute, code, slot, vouched>>
           /\ doc' \in [Users -> Document]
           /\ doc'[u] = [doc[u] EXCEPT !.status = "blocked"]
           /\ doc'[u].status = "blocked"
           /\ \A v \in Users : /\ doc'[v].name = doc[v].name
                              /\ doc'[v].deleted = doc[v].deleted
                              /\ doc'[v].email = doc[v].email
                              /\ doc'[v].phoneVerified = doc[v].phoneVerified
           /\ \A v \in Users \ {u} : doc'[v] = doc[v]
<1>1. doc' = [doc EXCEPT ![u] = [doc[u] EXCEPT !.status = "blocked"]]
  BY DEF BlockReported, TypeOK
<1>2. [doc[u] EXCEPT !.status = "blocked"] \in Document
  BY DEF TypeOK, Document, Statuses
<1>3. QED
  BY <1>1, <1>2 DEF BlockReported, TypeOK, Document

\* The next-state relation, by what the steps above are.
LEMMA Steps ==
    ASSUME [Next]_vars
    PROVE  \/ \E s \in Slots, u \in Users : Start(s, u)
           \/ \E s \in Slots : Handle(s) \/ Abort(s)
           \/ \E u \in Users : BlockReported(u)
           \/ UNCHANGED vars
BY DEF Next, Step

-----------------------------------------------------------------------------
(* Type correctness *)

LEMMA InitTyped == Init => TypeOK
<1> SUFFICES ASSUME Init PROVE TypeOK
  OBVIOUS
<1>1. SignedUp \in Document
  BY DEF SignedUp, Document, Statuses
<1>2. \A n \in Names, i \in Institutions : Managed(n, i) \in Document
  BY <1>1 DEF Managed, Document, Statuses
<1>3. doc \in [Users -> Document]
  BY <1>1, <1>2 DEF Init
<1>4. RequestOK(Idle)
  BY DEF RequestOK, Idle, Handling
<1>5. QED
  BY <1>3, <1>4, IdleTyped DEF Init, TypeOK

LEMMA StepTyped == TypeOK /\ DeletedNotPending /\ [Next]_vars => TypeOK'
<1> SUFFICES ASSUME TypeOK, DeletedNotPending, [Next]_vars PROVE TypeOK'
  OBVIOUS
<1>1. CASE \E s \in Slots, u \in Users : Start(s, u)
  <2>1. PICK s \in Slots, u \in Users : Start(s, u)
    BY <1>1
  <2>2. Arrived(s)
    BY <2>1, ArrivalTyped
  <2>3. QED
    BY <2>2 DEF Arrived, TypeOK, RequestOK
<1>2. CASE \E s \in Slots : Handle(s) \/ Abort(s)
  <2>1. PICK s \in Slots : Handle(s) \/ Abort(s)
    BY <1>2
  <2>2. slot' \in [Slots -> Request] /\ \A t \in Slots : RequestOK(slot'[t])
    BY <2>1, HandlerTyped
  <2>3. doc' \in [Users -> Document]
    <3>1. UNCHANGED doc \/ Wrote(s)
      BY <2>1, HandlerWrites
    <3>2. QED
      BY <3>1 DEF Wrote, TypeOK
  <2>4. /\ attribute' \in [Users -> Emails \cup {NoEmail}]
        /\ code' \in [Users -> Emails \cup {NoEmail}]
        /\ vouched' \in [Users -> SUBSET (Emails \X Institutions)]
    BY <2>1, BelongsAssumption, HandlerElsewhere
  <2>5. QED
    BY <2>2, <2>3, <2>4 DEF TypeOK, RequestOK
<1>3. CASE UNCHANGED vars
  BY <1>3 DEF vars, TypeOK, RequestOK
<1>4. ASSUME NEW u \in Users, BlockReported(u)
      PROVE  TypeOK'
  <2>1. doc' \in [Users -> Document] /\ UNCHANGED <<attribute, code, slot, vouched>>
    BY <1>4, BlockWrites
  <2>2. QED
    BY <2>1 DEF TypeOK, RequestOK
<1>5. QED
  BY <1>1, <1>2, <1>3, <1>4, Steps

LEMMA NotPendingStep == TypeOK /\ DeletedNotPending /\ [Next]_vars => DeletedNotPending'
<1> SUFFICES ASSUME TypeOK, DeletedNotPending, [Next]_vars PROVE DeletedNotPending'
  OBVIOUS
<1>1. CASE UNCHANGED doc
  BY <1>1 DEF DeletedNotPending
<1>2. ASSUME NEW s \in Slots, Wrote(s)
      PROVE  DeletedNotPending'
  BY <1>2 DEF Wrote, MayWrite, TypeOK, DeletedNotPending
<1>3. ASSUME NEW u \in Users, BlockReported(u)
      PROVE  DeletedNotPending'
  <2>1. /\ doc'[u].status = "blocked"
        /\ \A v \in Users : doc'[v].deleted = doc[v].deleted
        /\ \A v \in Users \ {u} : doc'[v] = doc[v]
    BY <1>3, BlockWrites
  <2>2. QED
    BY <2>1 DEF DeletedNotPending
<1>4. QED
  BY <1>1, <1>2, <1>3, Steps, HandlerWrites, ArrivalTyped DEF Arrived, vars

LEMMA InitFresh ==
    ASSUME Init, NEW u \in Users
    PROVE  ~doc[u].deleted /\ doc[u].email = NoEmail
<1>1. ~SignedUp.deleted /\ SignedUp.email = NoEmail
  BY DEF SignedUp
<1>2. \A n \in Names, i \in Institutions : ~Managed(n, i).deleted /\ Managed(n, i).email = NoEmail
  BY DEF SignedUp, Managed
<1>3. CASE doc = [v \in Users |-> SignedUp]
  BY <1>1, <1>3
<1>4. ASSUME NEW w \in Users, NEW n \in Names, NEW i \in Institutions,
             doc = [[v \in Users |-> SignedUp] EXCEPT ![w] = Managed(n, i)]
      PROVE  ~doc[u].deleted /\ doc[u].email = NoEmail
  BY <1>1, <1>2, <1>4
<1>5. QED
  BY <1>3, <1>4 DEF Init

LEMMA Typed == Spec => [](TypeOK /\ DeletedNotPending)
<1>1. Init => DeletedNotPending
  BY InitFresh DEF DeletedNotPending
<1>2. QED
  BY <1>1, InitTyped, StepTyped, NotPendingStep, PTL DEF Spec

\* The collections, the Cognito attributes and every request under way stay of
\* their types, and a request carries what its next steps write.
THEOREM OnboardingTyped == Spec => []TypeOK
<1>1. QED
  BY Typed, PTL

-----------------------------------------------------------------------------
(* User names *)

LEMMA NamesStep == TypeOK /\ DeletedNotPending /\ UserNamesUnique /\ [Next]_vars => UserNamesUnique'
<1> SUFFICES ASSUME TypeOK, DeletedNotPending, UserNamesUnique, [Next]_vars PROVE UserNamesUnique'
  OBVIOUS
<1>1. CASE UNCHANGED doc
  BY <1>1 DEF UserNamesUnique
<1>2. ASSUME NEW s \in Slots, Wrote(s)
      PROVE  UserNamesUnique'
  <2> DEFINE w == Uid(s)
  <2>1. PICK d \in Document : MayWrite(s, d) /\ doc' = [doc EXCEPT ![w] = d]
    BY <1>2 DEF Wrote
  <2>2. w \in Users /\ doc'[w] = d /\ \A v \in Users \ {w} : doc'[v] = doc[v]
    BY <1>2, <2>1 DEF Wrote, TypeOK
  <2>3. d.name = NoName \/ d.name = doc[w].name \/ ~NameTaken(w, d.name)
    BY <2>1 DEF MayWrite
  <2>4. \A v \in Users \ {w} : doc[v].name = d.name => d.name = NoName
    BY <2>2, <2>3 DEF NameTaken, UserNamesUnique
  <2>5. QED
    BY <2>2, <2>4 DEF UserNamesUnique
<1>3. ASSUME NEW u \in Users, BlockReported(u)
      PROVE  UserNamesUnique'
  <2>1. \A v \in Users : doc'[v].name = doc[v].name
    BY <1>3, BlockWrites
  <2>2. QED
    BY <2>1 DEF UserNamesUnique
<1>4. QED
  BY <1>1, <1>2, <1>3, Steps, HandlerWrites, ArrivalTyped DEF Arrived, vars

\* No two users ever have the same user name, although every handler decides
\* by a look-up that is stale when it writes.
THEOREM NamesUnique == Spec => []UserNamesUnique
<1>1. Init => UserNamesUnique
  <2> SUFFICES ASSUME Init PROVE UserNamesUnique
    OBVIOUS
  <2>1. SignedUp.name = NoName
    BY DEF SignedUp
  <2>2. CASE doc = [u \in Users |-> SignedUp]
    BY <2>1, <2>2 DEF UserNamesUnique
  <2>3. ASSUME NEW w \in Users, NEW n \in Names, NEW i \in Institutions,
               doc = [[v \in Users |-> SignedUp] EXCEPT ![w] = Managed(n, i)]
        PROVE  UserNamesUnique
    <3>1. \A v \in Users \ {w} : doc[v].name = NoName
      BY <2>1, <2>3
    <3>2. QED
      BY <3>1 DEF UserNamesUnique
  <2>4. QED
    BY <2>2, <2>3 DEF Init
<1>2. QED
  BY <1>1, NamesStep, Typed, PTL DEF Spec

-----------------------------------------------------------------------------
(* Deleted users *)

Kept(u) == doc'[u] \in {doc[u], [doc[u] EXCEPT !.status = "blocked"]}

LEMMA DeletedStep ==
    ASSUME TypeOK, DeletedNotPending, [Next]_vars, NEW u \in Users, doc[u].deleted
    PROVE  Kept(u)
<1>1. CASE UNCHANGED doc
  BY <1>1 DEF Kept
<1>2. ASSUME NEW s \in Slots, Wrote(s)
      PROVE  Kept(u)
  BY <1>2 DEF Wrote, Live, TypeOK, Kept
<1>3. ASSUME NEW w \in Users, BlockReported(w)
      PROVE  Kept(u)
  BY <1>3, BlockWrites DEF Kept
<1>4. QED
  BY <1>1, <1>2, <1>3, Steps, HandlerWrites, ArrivalTyped DEF Arrived, vars

\* A deleted user's document is final, but for a moderator's block, whatever
\* requests were under way when the user was deleted.
THEOREM DeletedFinal == Spec => DeletedStaysDeleted
<1>1. TypeOK /\ DeletedNotPending /\ [Next]_vars =>
        [\A u \in Users : doc[u].deleted =>
            doc'[u] \in {doc[u], [doc[u] EXCEPT !.status = "blocked"]}]_vars
  BY DeletedStep DEF Kept
<1>2. QED
  BY <1>1, Typed, PTL DEF Spec, DeletedStaysDeleted

-----------------------------------------------------------------------------
(* The sign-up step setUsername *)

LEMMA HandlerKeepsOthers ==
    ASSUME TypeOK, NEW s \in Slots, Handle(s) \/ Abort(s)
    PROVE  \A t \in Slots \ {s} : slot'[t] = slot[t]
<1>1. ASSUME Done(s) PROVE \A t \in Slots \ {s} : slot'[t] = slot[t]
  BY <1>1 DEF Done, TypeOK
<1>2. ASSUME NEW l, Goto(s, l) PROVE \A t \in Slots \ {s} : slot'[t] = slot[t]
  BY <1>2 DEF Goto, TypeOK
<1>3. QED
  BY <1>1, <1>2
     DEF Handle, AnswerOtp, FindName, WriteName, WriteProfile, FindEmail, WriteEmail,
         UpdateAttribute, RequestCode, EnterCode, RejectCode, EnterDefaultCode, ConfirmEmail,
         Activate, UpdateManaged, Detach, ClearAttribute, Delete, DropAccount, Abort

LEMMA SetUsernameStep ==
    ASSUME TypeOK, DeletedNotPending, [Next]_vars, NEW s \in Slots, slot[s].op = "setUsername", slot'[s] # slot[s],
           NEW u \in Users, doc[u].status # "pending"
    PROVE  doc'[u].name = doc[u].name
<1>1. CASE UNCHANGED doc
  BY <1>1
<1>2. ASSUME NEW t \in Slots, Handle(t) \/ Abort(t)
      PROVE  doc'[u].name = doc[u].name
  <2>1. t = s
    BY <1>2, HandlerKeepsOthers
  <2>2. At(s, "findName") \/ At(s, "writeName")
    BY DEF TypeOK, RequestOK, At
  <2>3. FindName(s) \/ WriteName(s) \/ Abort(s)
    BY <1>2, <2>1, <2>2
       DEF Handle, At, AnswerOtp, WriteProfile, FindEmail, WriteEmail,
           UpdateAttribute, RequestCode, EnterCode, RejectCode, EnterDefaultCode, ConfirmEmail,
           Activate, UpdateManaged, Detach, ClearAttribute, Delete, DropAccount
  <2>4. CASE WriteName(s) /\ doc[Uid(s)].status = "pending"
    BY <2>4 DEF WriteName, TypeOK
  <2>5. QED
    BY <1>1, <2>3, <2>4 DEF FindName, Abort, WriteName, Writable
<1>3. QED
  BY <1>1, <1>2, Steps, ArrivalTyped, BlockWrites DEF Arrived, vars

\* setUsername never renames a user that is not pending any more, although it
\* read the user some awaits before.
THEOREM SetUsernameLate == Spec => SetUsernameOnlyPending
<1>1. TypeOK /\ DeletedNotPending /\ [Next]_vars =>
        [\A s \in Slots : slot[s].op = "setUsername" /\ slot'[s] # slot[s] =>
            \A u \in Users : doc[u].status # "pending" => doc'[u].name = doc[u].name]_vars
  BY SetUsernameStep
<1>2. QED
  BY <1>1, Typed, PTL DEF Spec, SetUsernameOnlyPending

-----------------------------------------------------------------------------
(* The e-mail address comes last *)

\* A request that is going to write an address.
Verifying(r) == r.pc = "writeEmail" \/ (r.pc = "findEmail" /\ r.op = "verifyEmail")

\* What makes EmailComesLast inductive: the checks of verifyEmail, made when the
\* request arrived, still hold of a user that has not been deleted since.
VerifyingReady ==
    \A s \in Slots : Verifying(slot[s]) /\ Live(Uid(s)) =>
        doc[Uid(s)].phoneVerified /\ doc[Uid(s)].name # NoName

LEMMA ArrivalReady ==
    ASSUME TypeOK, NEW s \in Slots, NEW u \in Users, Start(s, u), Verifying(slot'[s])
    PROVE  doc[slot'[s].uid].phoneVerified /\ doc[slot'[s].uid].name # NoName
<1>1. ASSUME NEW r, Arrive(s, r) PROVE slot'[s] = r
  BY <1>1 DEF Arrive, TypeOK
<1>2. ASSUME NEW e \in Emails, StartVerifyEmail(s, u, e)
      PROVE  doc[slot'[s].uid].phoneVerified /\ doc[slot'[s].uid].name # NoName
  BY <1>1, <1>2 DEF StartVerifyEmail, Handling
<1>3. ~(StartVerifyOtp(s, u) \/ StartActivate(s, u) \/ StartDetach(s, u) \/ StartDelete(s, u))
  BY <1>1 DEF StartVerifyOtp, StartActivate, StartDetach, StartDelete, Handling, Verifying
<1>4. ASSUME NEW n \in Names, StartSetUsername(s, u, n) \/ StartChangeUsername(s, u, n)
      PROVE  FALSE
  BY <1>1, <1>4 DEF StartSetUsername, StartChangeUsername, Handling, Verifying
<1>5. ASSUME NEW n \in Names \cup {NoName}, NEW t \in NewStatuses \cup {"keep"}, StartProfile(s, u, n, t)
      PROVE  FALSE
  BY <1>1, <1>5 DEF StartProfile, Handling, Verifying
<1>6. ASSUME NEW e \in Emails, NEW i \in Institutions, StartConfirmEmail(s, u, e, i)
      PROVE  FALSE
  BY <1>1, <1>6 DEF StartConfirmEmail, Handling, Verifying
<1>7. ASSUME NEW n \in Names, NEW e \in Emails \cup {NoEmail}, NEW i \in Institutions,
             NEW t \in NewStatuses, StartManage(s, u, n, e, i, t)
      PROVE  FALSE
  BY <1>1, <1>7 DEF StartManage, Handling, Verifying
<1>8. QED
  BY <1>2, <1>3, <1>4, <1>5, <1>6, <1>7 DEF Start

\* Only a request that was verifying an address goes on to.
LEMMA HandlerReady ==
    ASSUME TypeOK, NEW s \in Slots, Handle(s) \/ Abort(s), Verifying(slot'[s])
    PROVE  Verifying(slot[s]) /\ slot'[s].uid = slot[s].uid
<1>1. ~Done(s)
  BY IdleTyped DEF Done, TypeOK, Verifying
<1>2. slot[s] \in Request
  BY DEF TypeOK
<1>3. ASSUME NEW l, Goto(s, l)
      PROVE  slot'[s].pc = l /\ slot'[s].uid = slot[s].uid /\ slot'[s].op = slot[s].op
  BY <1>2, <1>3 DEF Goto, TypeOK, Request
<1>4. FindName(s) \/ FindEmail(s) \/ WriteEmail(s) \/ UpdateAttribute(s) \/ EnterCode(s)
      \/ EnterDefaultCode(s) \/ Detach(s) \/ Delete(s)
  BY <1>1 DEF Handle, AnswerOtp, WriteName, WriteProfile, RequestCode, RejectCode, ConfirmEmail,
              Activate, UpdateManaged, ClearAttribute, DropAccount, Abort
<1>5. ~(WriteEmail(s) \/ UpdateAttribute(s) \/ EnterCode(s) \/ EnterDefaultCode(s) \/ Detach(s) \/ Delete(s))
  BY <1>1, <1>3 DEF Verifying, WriteEmail, UpdateAttribute, EnterCode, EnterDefaultCode, Detach, Delete
<1>6. ~FindName(s)
  BY <1>1, <1>3 DEF Verifying, FindName, AfterName
<1>7. CASE FindEmail(s)
  BY <1>1, <1>3, <1>7 DEF Verifying, FindEmail, At
<1>8. QED
  BY <1>4, <1>5, <1>6, <1>7

EmailInv == EmailComesLast /\ VerifyingReady

LEMMA EmailStep == TypeOK /\ DeletedNotPending /\ EmailInv /\ [Next]_vars => EmailInv'
<1> SUFFICES ASSUME TypeOK, DeletedNotPending, EmailComesLast, VerifyingReady, [Next]_vars
             PROVE  EmailComesLast' /\ VerifyingReady'
  BY DEF EmailInv
<1>1. CASE \E s \in Slots, u \in Users : Start(s, u)
  <2>1. PICK s \in Slots, u \in Users : Start(s, u)
    BY <1>1
  <2>2. Arrived(s)
    BY <2>1, ArrivalTyped
  <2>3. Verifying(slot'[s]) => doc[slot'[s].uid].phoneVerified /\ doc[slot'[s].uid].name # NoName
    BY <2>1, ArrivalReady
  <2>4. EmailComesLast'
    BY <2>2 DEF Arrived, EmailComesLast, Live
  <2>5. VerifyingReady'
    BY <2>2, <2>3 DEF Arrived, VerifyingReady, Live, Uid, Verifying
  <2>6. QED
    BY <2>4, <2>5
<1>2. ASSUME NEW s \in Slots, Handle(s) \/ Abort(s)
      PROVE  EmailComesLast' /\ VerifyingReady'
  <2>1. Verifying(slot'[s]) => Verifying(slot[s]) /\ slot'[s].uid = slot[s].uid
    BY <1>2, HandlerReady
  <2>2. \A t \in Slots \ {s} : slot'[t] = slot[t]
    BY <1>2, HandlerKeepsOthers
  <2>3. \A t \in Slots : Verifying(slot'[t]) => Verifying(slot[t]) /\ slot'[t].uid = slot[t].uid
    BY <2>1, <2>2
  <2>4. \A t \in Slots : Verifying(slot[t]) => slot[t].uid \in Users
    BY DEF TypeOK, RequestOK, Verifying
  <2>5. CASE UNCHANGED doc
    <3>1. EmailComesLast'
      BY <2>5 DEF EmailComesLast, Live
    <3>2. VerifyingReady'
      BY <2>3, <2>5 DEF VerifyingReady, Live, Uid, Verifying
    <3>3. QED
      BY <3>1, <3>2
  <2>6. CASE Wrote(s)
    <3> DEFINE w == Uid(s)
    <3>1. PICK d \in Document : MayWrite(s, d) /\ doc' = [doc EXCEPT ![w] = d]
      BY <2>6 DEF Wrote
    <3>2. w \in Users /\ Live(w) /\ doc'[w] = d /\ \A v \in Users \ {w} : doc'[v] = doc[v]
      BY <2>6, <3>1 DEF Wrote, TypeOK
    <3>3. ~d.deleted => /\ doc[w].phoneVerified => d.phoneVerified
                        /\ doc[w].name # NoName => d.name # NoName
      <4>1. CASE d.deleted /\ d.name = NoName
        BY <4>1
      <4>2. CASE /\ doc[w].phoneVerified => d.phoneVerified
                 /\ d.name = doc[w].name \/ d.name \in Names
        BY <4>2, NoneAssumption
      <4>3. QED
        BY <3>1, <4>1, <4>2 DEF MayWrite
    <3>4. ~d.deleted /\ d.email # NoEmail => d.phoneVerified /\ d.name # NoName
      <4>1. CASE d.deleted
        BY <4>1
      <4>2. CASE ~d.deleted /\ d.email = doc[w].email
        BY <3>2, <3>3, <4>2 DEF EmailComesLast
      <4>3. CASE ~d.deleted /\ At(s, "writeEmail")
        <5>1. doc[w].phoneVerified /\ doc[w].name # NoName
          BY <3>2, <4>3 DEF VerifyingReady, Verifying, At
        <5>2. QED
          BY <3>3, <4>3, <5>1
      <4>4. CASE d.phoneVerified /\ d.name \in Names
        BY <4>4, NoneAssumption
      <4>5. QED
        BY <3>1, <4>1, <4>2, <4>3, <4>4 DEF MayWrite
    <3>5. EmailComesLast'
      BY <3>2, <3>4 DEF EmailComesLast, Live
    <3>6. \A u \in Users : Live(u)' =>
            /\ Live(u)
            /\ doc[u].phoneVerified => doc'[u].phoneVerified
            /\ doc[u].name # NoName => doc'[u].name # NoName
      BY <3>2, <3>3 DEF Live
    <3>7. VerifyingReady'
      BY <2>3, <2>4, <3>6 DEF VerifyingReady, Verifying, Live, Uid
    <3>8. QED
      BY <3>5, <3>7
  <2>7. QED
    BY <1>2, <2>5, <2>6, HandlerWrites
<1>3. CASE UNCHANGED vars
  BY <1>3 DEF vars, EmailComesLast, VerifyingReady, Verifying, Live, Uid
<1>4. ASSUME NEW u \in Users, BlockReported(u)
      PROVE  EmailComesLast' /\ VerifyingReady'
  <2>1. EmailComesLast'
    BY <1>4, BlockWrites DEF EmailComesLast, Live
  <2>2. slot' = slot /\ \A t \in Slots : Verifying(slot[t]) => slot[t].uid \in Users
    BY <1>4, BlockWrites DEF TypeOK, RequestOK, Verifying
  <2>3. VerifyingReady'
    BY <1>4, <2>2, BlockWrites DEF VerifyingReady, Verifying, Live, Uid
  <2>4. QED
    BY <2>1, <2>3
<1>5. QED
  BY <1>1, <1>2, <1>3, <1>4, Steps

\* No live user has an e-mail address before its phone number is verified and
\* its name chosen, in whatever order its requests are handled.
THEOREM EmailLast == Spec => []EmailComesLast
<1>1. Init => EmailInv
  <2> SUFFICES ASSUME Init PROVE EmailInv
    OBVIOUS
  <2>1. \A u \in Users : doc[u].email = NoEmail
    BY InitFresh
  <2>2. \A s \in Slots : ~Verifying(slot[s])
    BY IdleTyped DEF Init, Verifying
  <2>3. QED
    BY <2>1, <2>2 DEF EmailInv, EmailComesLast, VerifyingReady
<1>2. EmailInv => EmailComesLast
  BY DEF EmailInv
<1>3. QED
  BY <1>1, <1>2, EmailStep, Typed, PTL DEF Spec

-----------------------------------------------------------------------------
(* A verified address was vouched for *)

\* No two requests of the same user are handled at once.
PerUserApart ==
    \A s, t \in Slots : s # t /\ ~At(s, "idle") /\ ~At(t, "idle") => Uid(s) # Uid(t)

\* VerifiedEmailVouched, of one user.
UserVouched(u) ==
    Live(u) /\ doc[u].emailVerified =>
        \E v \in vouched[u] :
            v[1] = doc[u].email /\ doc[u].institution \in Belongs[v[1]] \cup {v[2]}

\* The address in the document is the one Cognito has, or is about to be told, or it
\* has been vouched for: a code entered now vouches for no other address.
AddressReached(u) ==
    Live(u) /\ doc[u].email # NoEmail =>
        \/ attribute[u] = doc[u].email
        \/ \E v \in vouched[u] : v[1] = doc[u].email
        \/ \E s \in Slots : At(s, "updateAttribute") /\ Uid(s) = u /\ slot[s].email = doc[u].email

\* What a request read or wrote at its earlier steps still holds of its user.
Current(s) ==
    /\ slot[s].pc \in {"updateAttribute", "enterCode", "confirm"} /\ Live(Uid(s)) =>
            doc[Uid(s)].email = slot[s].email
    /\ slot[s].pc \in {"enterCode", "confirm"} => slot[s].inst \in Belongs[slot[s].email]
    /\ At(s, "confirm") /\ Live(Uid(s)) => \E v \in vouched[Uid(s)] : v[1] = slot[s].email
    /\ At(s, "clearAttribute") /\ Live(Uid(s)) => doc[Uid(s)].email = NoEmail
    /\ At(s, "dropAccount") => ~Live(Uid(s))

VouchInv ==
    /\ \A u \in Users : UserVouched(u) /\ AddressReached(u)
    /\ \A s \in Slots : Current(s)

\* A request handled apart from its user's others disturbs only what is its user's.
LEMMA VouchFrame ==
    ASSUME TypeOK, PerUserApart, VouchInv, NEW s \in Slots, ~At(s, "idle"),
           NEW u \in Users, Uid(s) = u,
           \A t \in Slots \ {s} : slot'[t] = slot[t],
           \A v \in Users \ {u} :
                doc'[v] = doc[v] /\ attribute'[v] = attribute[v] /\ vouched'[v] = vouched[v],
           UserVouched(u)', AddressReached(u)', Current(s)'
    PROVE  VouchInv'
<1>1. ASSUME NEW v \in Users \ {u}
      PROVE  UserVouched(v)' /\ AddressReached(v)'
  <2>1. doc'[v] = doc[v] /\ attribute'[v] = attribute[v] /\ vouched'[v] = vouched[v]
    OBVIOUS
  <2>2. UserVouched(v) /\ AddressReached(v)
    BY DEF VouchInv
  <2>3. UserVouched(v)'
    BY <2>1, <2>2 DEF UserVouched, Live
  <2>4. ASSUME NEW t \in Slots, At(t, "updateAttribute"), Uid(t) = v, slot[t].email = doc[v].email
        PROVE  At(t, "updateAttribute")' /\ Uid(t)' = v /\ slot'[t].email = doc[v].email
    <3>1. t # s
      BY <2>4
    <3>2. slot'[t] = slot[t]
      BY <3>1
    <3>3. QED
      BY <2>4, <3>2 DEF At, Uid
  <2>5. AddressReached(v)'
    BY <2>1, <2>2, <2>4 DEF AddressReached, Live
  <2>6. QED
    BY <2>3, <2>5
<1>2. ASSUME NEW t \in Slots \ {s}
      PROVE  Current(t)'
  <2>1. slot'[t] = slot[t]
    OBVIOUS
  <2>2. CASE At(t, "idle")
    BY <2>1, <2>2 DEF Current, At
  <2>3. CASE ~At(t, "idle")
    <3>1. Uid(t) \in Users \ {u}
      BY <2>3 DEF PerUserApart, TypeOK, RequestOK, At, Uid
    <3>2. /\ doc'[Uid(t)] = doc[Uid(t)] /\ vouched'[Uid(t)] = vouched[Uid(t)]
          /\ Uid(t)' = Uid(t)
      BY <2>1, <3>1 DEF Uid
    <3>3. Current(t)
      BY DEF VouchInv
    <3>4. QED
      BY <2>1, <3>2, <3>3 DEF Current, At, Live
  <2>4. QED
    BY <2>2, <2>3
<1>3. QED
  BY <1>1, <1>2 DEF VouchInv

\* A step that leaves the user's address and everything said of it alone, and
\* after which the request has nothing left to say of them.
Quiet(s, u) ==
    /\ UNCHANGED <<attribute, vouched>>
    /\ \A v \in Users \ {u} : doc'[v] = doc[v]
    /\ doc'[u].deleted = doc[u].deleted
    /\ doc'[u].email = doc[u].email
    /\ doc'[u].emailVerified = doc[u].emailVerified
    /\ doc'[u].institution = doc[u].institution
    /\ slot'[s].pc \notin {"updateAttribute", "enterCode", "confirm", "clearAttribute", "dropAccount"}

LEMMA QuietSteps ==
    ASSUME TypeOK, DeletedNotPending, NEW s \in Slots, NEW u \in Users, Uid(s) = u,
           \/ AnswerOtp(s) \/ FindName(s) \/ WriteName(s) \/ WriteProfile(s)
           \/ FindEmail(s) \/ RequestCode(s) \/ RejectCode(s) \/ Activate(s)
    PROVE  Quiet(s, u)
<1> DEFINE Kind == {"updateAttribute", "enterCode", "confirm", "clearAttribute", "dropAccount"}
<1> DEFINE Same(d) == /\ d.deleted = doc[u].deleted /\ d.email = doc[u].email
                      /\ d.emailVerified = doc[u].emailVerified
                      /\ d.institution = doc[u].institution
<1>1. slot[s] \in Request /\ RequestOK(slot[s]) /\ doc[u] \in Document
  BY DEF TypeOK
<1>2. ASSUME Done(s) PROVE slot'[s].pc \notin Kind
  BY <1>2, IdleTyped DEF Done, TypeOK
<1>3. ASSUME NEW l \in {"writeName", "profile", "manage", "writeEmail", "findName"}, Goto(s, l)
      PROVE  slot'[s].pc \notin Kind
  <2>1. slot'[s].pc = l
    BY <1>1, <1>3 DEF Goto, TypeOK, Request
  <2>2. QED
    BY <2>1
<1>4. slot'[s].pc \notin Kind
  <2>1. CASE FindName(s)
    <3>1. AfterName(slot[s].op) \in {"writeName", "profile", "manage"}
      BY DEF AfterName
    <3>2. Done(s) \/ Goto(s, AfterName(slot[s].op))
      BY <2>1 DEF FindName
    <3>3. QED
      BY <1>2, <1>3, <3>1, <3>2
  <2>2. CASE FindEmail(s)
    <3>1. Done(s) \/ Goto(s, "writeEmail") \/ Goto(s, "findName")
      BY <2>2 DEF FindEmail
    <3>2. QED
      BY <1>2, <1>3, <3>1
  <2>3. QED
    BY <1>2, <2>1, <2>2 DEF AnswerOtp, WriteName, WriteProfile, RequestCode, RejectCode, Activate
<1>5. UNCHANGED <<attribute, vouched>>
  BY DEF AnswerOtp, FindName, WriteName, WriteProfile, FindEmail, RequestCode, RejectCode, Activate
<1>6. ASSUME NEW d, Same(d), Update(u, d)
      PROVE  Same(doc'[u]) /\ \A v \in Users \ {u} : doc'[v] = doc[v]
  BY <1>6 DEF Update, TypeOK
<1>7. Same(doc'[u]) /\ \A v \in Users \ {u} : doc'[v] = doc[v]
  <2>1. CASE UNCHANGED doc
    BY <2>1
  <2>2. CASE AnswerOtp(s)
    <3> DEFINE d == [doc[u] EXCEPT !.phoneVerified = TRUE]
    <3>1. Update(u, d)
      BY <2>2 DEF AnswerOtp
    <3>2. Same(d)
      BY <1>1 DEF Document
    <3>3. QED
      BY <3>1, <3>2, <1>6
  <2>3. CASE WriteName(s)
    BY <1>1, <2>3, <2>1 DEF WriteName, TypeOK, Document
  <2>4. CASE WriteProfile(s)
    <3> DEFINE n == IF slot[s].name = NoName THEN doc[u].name ELSE slot[s].name
    <3> DEFINE t == IF slot[s].status = "keep" THEN doc[u].status ELSE slot[s].status
    <3> DEFINE d == [doc[u] EXCEPT !.name = n, !.status = t]
    <3>1. Update(u, d) \/ UNCHANGED doc
      BY <2>4 DEF WriteProfile
    <3>2. Same(d)
      BY <1>1 DEF Document
    <3>3. QED
      BY <2>1, <3>1, <3>2, <1>6
  <2>5. CASE Activate(s)
    <3> DEFINE d == [doc[u] EXCEPT !.status = "active"]
    <3>1. Update(u, d)
      BY <2>5 DEF Activate
    <3>2. Same(d)
      BY <1>1 DEF Document
    <3>3. QED
      BY <3>1, <3>2, <1>6
  <2>6. QED
    BY <2>1, <2>2, <2>3, <2>4, <2>5 DEF FindName, FindEmail, RequestCode, RejectCode
<1>8. QED
  BY <1>4, <1>5, <1>7 DEF Quiet

\* Whoever is about to tell Cognito the address still is, unless it is request s.
LEMMA ReachedKept ==
    ASSUME NEW s \in Slots, NEW u \in Users, ~At(s, "updateAttribute"),
           \A t \in Slots \ {s} : slot'[t] = slot[t],
           AddressReached(u), vouched[u] \subseteq vouched'[u],
           Live(u)' => Live(u) /\ attribute'[u] = attribute[u] /\ doc'[u].email = doc[u].email
    PROVE  AddressReached(u)'
<1> SUFFICES ASSUME Live(u)', doc'[u].email # NoEmail
             PROVE  \/ attribute'[u] = doc'[u].email
                    \/ \E v \in vouched'[u] : v[1] = doc'[u].email
                    \/ \E t \in Slots : At(t, "updateAttribute")' /\ Uid(t)' = u /\ slot'[t].email = doc'[u].email
  BY DEF AddressReached
<1>1. ASSUME NEW t \in Slots, At(t, "updateAttribute"), Uid(t) = u, slot[t].email = doc[u].email
      PROVE  At(t, "updateAttribute")' /\ Uid(t)' = u /\ slot'[t].email = doc[u].email
  <2>1. slot'[t] = slot[t]
    BY <1>1
  <2>2. QED
    BY <1>1, <2>1 DEF At, Uid
<1>2. QED
  BY <1>1 DEF AddressReached

LEMMA QuietVouches ==
    ASSUME VouchInv, NEW s \in Slots, NEW u \in Users, Quiet(s, u), ~At(s, "updateAttribute"),
           \A t \in Slots \ {s} : slot'[t] = slot[t]
    PROVE  UserVouched(u)' /\ AddressReached(u)' /\ Current(s)'
<1>1. UserVouched(u)'
  BY DEF Quiet, VouchInv, UserVouched, Live
<1>2. AddressReached(u)'
  BY ReachedKept DEF Quiet, VouchInv, Live
<1>3. Current(s)'
  BY DEF Quiet, Current, At
<1>4. QED
  BY <1>1, <1>2, <1>3

LEMMA Answered ==
    ASSUME TypeOK, NEW s \in Slots, Done(s)
    PROVE  Current(s)'
BY IdleTyped DEF Done, TypeOK, Current, At

LEMMA WentOn ==
    ASSUME TypeOK, NEW s \in Slots, NEW l, Goto(s, l)
    PROVE  /\ slot'[s].pc = l
           /\ slot'[s].email = slot[s].email /\ slot'[s].inst = slot[s].inst
           /\ Uid(s)' = Uid(s)
BY DEF Goto, TypeOK, Request, Uid

\* verifyEmail: the new address is unverified and about to be told to Cognito.
LEMMA WriteEmailVouches ==
    ASSUME TypeOK, VouchInv, NEW s \in Slots, NEW u \in Users, Uid(s) = u, WriteEmail(s)
    PROVE  UserVouched(u)' /\ AddressReached(u)' /\ Current(s)'
<1> DEFINE d == [doc[u] EXCEPT !.email = slot[s].email, !.emailVerified = FALSE]
<1>1. d \in Document /\ Update(u, d) /\ Goto(s, "updateAttribute")
  <2>1. doc[u] \in Document /\ slot[s].email \in Emails
    BY DEF WriteEmail, TypeOK, At, RequestOK
  <2>2. QED
    BY <2>1 DEF WriteEmail, Document
<1>2. ~d.emailVerified /\ d.email = slot[s].email /\ doc \in [Users -> Document]
  BY DEF TypeOK, Document
<1>3. Live(u)' => doc'[u] = d
  <2> HIDE DEF d
  <2>1. doc'[u] = IF Live(u) THEN d ELSE doc[u]
    BY <1>1, <1>2, UpdateOne
  <2>2. QED
    BY <2>1 DEF Live
<1>4. At(s, "updateAttribute")' /\ slot'[s].email = slot[s].email /\ Uid(s)' = u
  BY <1>1, WentOn DEF At
<1>5. UserVouched(u)'
  BY <1>2, <1>3 DEF UserVouched
<1>6. AddressReached(u)'
  BY <1>2, <1>3, <1>4 DEF AddressReached
<1>7. Current(s)'
  BY <1>2, <1>3, <1>4 DEF Current, At
<1>8. QED
  BY <1>5, <1>6, <1>7

LEMMA UpdateAttributeVouches ==
    ASSUME TypeOK, VouchInv, NEW s \in Slots, NEW u \in Users, Uid(s) = u, UpdateAttribute(s)
    PROVE  UserVouched(u)' /\ AddressReached(u)' /\ Current(s)'
<1>1. attribute'[u] = slot[s].email /\ UNCHANGED <<doc, vouched>> /\ Goto(s, "requestCode")
  BY DEF UpdateAttribute, TypeOK
<1>2. Live(u) => doc[u].email = slot[s].email
  BY DEF UpdateAttribute, VouchInv, Current, At
<1>3. UserVouched(u)'
  BY <1>1 DEF VouchInv, UserVouched, Live
<1>4. AddressReached(u)'
  BY <1>1, <1>2 DEF AddressReached, Live
<1>5. Current(s)'
  BY <1>1, WentOn DEF Current, At
<1>6. QED
  BY <1>3, <1>4, <1>5

\* confirmEmail: a code that Cognito accepts was sent to the address the account
\* has now; apart from the user's other requests that is the document's.
LEMMA EnterCodeVouches ==
    ASSUME TypeOK, PerUserApart, VouchInv, NEW s \in Slots, NEW u \in Users, Uid(s) = u,
           EnterCode(s) \/ EnterDefaultCode(s),
           \A t \in Slots \ {s} : slot'[t] = slot[t]
    PROVE  UserVouched(u)' /\ AddressReached(u)' /\ Current(s)'
<1> DEFINE e == slot[s].email
<1> DEFINE i == slot[s].inst
<1>1. At(s, "enterCode") /\ Goto(s, "confirm") /\ UNCHANGED <<doc, attribute>>
  BY DEF EnterCode, EnterDefaultCode
<1>2. i \in Belongs[e] /\ (Live(u) => doc[u].email = e) /\ e \in Emails
  BY <1>1 DEF VouchInv, Current, At, TypeOK, RequestOK
<1>3. vouched[u] \subseteq vouched'[u]
  BY DEF EnterCode, EnterDefaultCode, TypeOK
<1>4. Live(u) => \E v \in vouched'[u] : v[1] = e
  <2> SUFFICES ASSUME Live(u) PROVE \E v \in vouched'[u] : v[1] = e
    OBVIOUS
  <2>1. CASE EnterDefaultCode(s)
    <3>1. <<e, i>> \in vouched'[u]
      BY <2>1 DEF EnterDefaultCode, TypeOK
    <3>2. QED
      BY <3>1
  <2>2. CASE EnterCode(s) /\ attribute[u] = e
    <3>1. vouched'[u] = vouched[u] \cup ({e} \X Belongs[e])
      BY <2>2 DEF EnterCode, TypeOK
    <3>2. <<e, i>> \in vouched'[u]
      BY <1>2, <3>1
    <3>3. QED
      BY <3>2
  <2>3. CASE EnterCode(s) /\ attribute[u] # e
    <3>1. ~\E t \in Slots : At(t, "updateAttribute") /\ Uid(t) = u
      BY <1>1 DEF PerUserApart, At
    <3>2. \E v \in vouched[u] : v[1] = e
      BY <1>2, <2>3, <3>1, NoneAssumption DEF VouchInv, AddressReached
    <3>3. QED
      BY <1>3, <3>2
  <2>4. QED
    BY <2>1, <2>2, <2>3
<1>5. UserVouched(u)'
  BY <1>1, <1>3 DEF VouchInv, UserVouched, Live
<1>6. AddressReached(u)'
  BY <1>1, <1>3, ReachedKept DEF VouchInv, Live, At
<1>7. slot'[s].pc = "confirm" /\ slot'[s].email = e /\ slot'[s].inst = i /\ Uid(s)' = u
  BY <1>1, WentOn
<1>8. Current(s)'
  BY <1>1, <1>2, <1>4, <1>7 DEF Current, At, Live
<1>9. QED
  BY <1>5, <1>6, <1>8

LEMMA ConfirmEmailVouches ==
    ASSUME TypeOK, VouchInv, NEW s \in Slots, NEW u \in Users, Uid(s) = u, ConfirmEmail(s),
           \A t \in Slots \ {s} : slot'[t] = slot[t]
    PROVE  UserVouched(u)' /\ AddressReached(u)' /\ Current(s)'
<1> DEFINE t == IF slot[s].status = "keep" THEN doc[u].status ELSE slot[s].status
<1> DEFINE d == [doc[u] EXCEPT !.emailVerified = TRUE, !.status = t, !.institution = slot[s].inst]
<1>1. Update(u, d) /\ Done(s) /\ UNCHANGED <<attribute, vouched>> /\ At(s, "confirm")
  BY DEF ConfirmEmail
<1>2. doc[u] \in Document /\ doc \in [Users -> Document]
  BY DEF TypeOK
<1>3. d.email = doc[u].email /\ d.institution = slot[s].inst /\ d.deleted = doc[u].deleted
  BY <1>2 DEF Document
<1>4. Live(u)' => Live(u) /\ doc'[u] = d
  BY <1>1, <1>2 DEF Update, Live
<1>5. Live(u) => /\ doc[u].email = slot[s].email /\ slot[s].inst \in Belongs[slot[s].email]
                 /\ \E v \in vouched[u] : v[1] = slot[s].email
  BY <1>1 DEF VouchInv, Current, At
<1>6. UserVouched(u)'
  <2> SUFFICES ASSUME Live(u)'
               PROVE  \E v \in vouched[u] :
                        v[1] = d.email /\ d.institution \in Belongs[v[1]] \cup {v[2]}
    BY <1>1, <1>4 DEF UserVouched
  <2>1. QED
    BY <1>3, <1>4, <1>5
<1>7. AddressReached(u)'
  BY <1>1, <1>3, <1>4, ReachedKept DEF VouchInv, At
<1>8. QED
  BY <1>1, <1>6, <1>7, Answered

\* The institution vouches for the address it uploads.
LEMMA ManagedVouches ==
    ASSUME TypeOK, VouchInv, NEW s \in Slots, NEW u \in Users, Uid(s) = u, UpdateManaged(s),
           \A t \in Slots \ {s} : slot'[t] = slot[t]
    PROVE  UserVouched(u)' /\ AddressReached(u)' /\ Current(s)'
<1> DEFINE e == slot[s].email
<1> DEFINE i == slot[s].inst
<1> DEFINE d == [doc[u] EXCEPT !.name = slot[s].name,
                               !.email = IF e = NoEmail THEN @ ELSE e,
                               !.emailVerified = e # NoEmail,
                               !.phoneVerified = TRUE,
                               !.status = slot[s].status,
                               !.institution = i]
<1>1. Done(s) /\ UNCHANGED attribute /\ ~At(s, "updateAttribute")
  BY DEF UpdateManaged, At
<1>2. doc[u] \in Document /\ doc \in [Users -> Document] /\ e \in Emails \cup {NoEmail}
  BY DEF TypeOK, Request
<1>3. vouched[u] \subseteq vouched'[u]
  BY DEF UpdateManaged, TypeOK
<1>4. CASE UNCHANGED <<doc, vouched>>
  <2>1. UserVouched(u)'
    BY <1>4 DEF VouchInv, UserVouched, Live
  <2>2. AddressReached(u)'
    BY <1>1, <1>3, <1>4, ReachedKept DEF VouchInv, Live
  <2>3. QED
    BY <1>1, <2>1, <2>2, Answered
<1>5. CASE /\ Update(u, d)
           /\ vouched' = [vouched EXCEPT ![u] = @ \cup (({e} \cap Emails) \X {i})]
  <2>1. /\ d.email = IF e = NoEmail THEN doc[u].email ELSE e
        /\ d.emailVerified = (e # NoEmail)
        /\ d.institution = i /\ d.deleted = doc[u].deleted
    BY <1>2 DEF Document
  <2>2. Live(u)' => Live(u) /\ doc'[u] = d
    BY <1>2, <1>5 DEF Update, Live
  <2>3. e # NoEmail => <<e, i>> \in vouched'[u]
    <3>1. vouched'[u] = vouched[u] \cup (({e} \cap Emails) \X {i})
      BY <1>5 DEF TypeOK
    <3>2. QED
      BY <1>2, <3>1
  <2>4. UserVouched(u)'
    BY <2>1, <2>2, <2>3 DEF UserVouched
  <2>5. AddressReached(u)'
    <3>1. CASE e = NoEmail
      BY <1>1, <1>3, <2>1, <2>2, <3>1, ReachedKept DEF VouchInv
    <3>2. CASE e # NoEmail
      BY <2>1, <2>2, <2>3, <3>2 DEF AddressReached
    <3>3. QED
      BY <3>1, <3>2
  <2>6. QED
    BY <1>1, <2>4, <2>5, Answered
<1>6. QED
  BY <1>4, <1>5 DEF UpdateManaged

\* Detaching and deleting first write the document, then the Cognito account.
LEMMA LeavingVouches ==
    ASSUME TypeOK, VouchInv, NEW s \in Slots, NEW u \in Users, Uid(s) = u,
           Detach(s) \/ ClearAttribute(s) \/ Delete(s) \/ DropAccount(s)
    PROVE  UserVouched(u)' /\ AddressReached(u)' /\ Current(s)'
<1>1. doc[u] \in Document /\ doc \in [Users -> Document]
  BY DEF TypeOK
<1>2. CASE Detach(s)
  <2> DEFINE d == [doc[u] EXCEPT !.email = NoEmail, !.emailVerified = FALSE, !.institution = NoInst]
  <2>1. Update(u, d) /\ (Goto(s, "clearAttribute") \/ Done(s))
    BY <1>2 DEF Detach
  <2>2. d.email = NoEmail /\ ~d.emailVerified /\ d.deleted = doc[u].deleted
    BY <1>1 DEF Document
  <2>3. Live(u)' => doc'[u] = d
    BY <1>1, <2>1 DEF Update, Live
  <2>4. UserVouched(u)' /\ AddressReached(u)'
    BY <2>2, <2>3 DEF UserVouched, AddressReached
  <2>5. CASE Goto(s, "clearAttribute")
    <3>1. slot'[s].pc = "clearAttribute" /\ Uid(s)' = u
      BY <2>5, WentOn
    <3>2. QED
      BY <2>2, <2>3, <2>4, <3>1 DEF Current, At
  <2>6. QED
    BY <2>1, <2>4, <2>5, Answered
<1>3. CASE ClearAttribute(s)
  <2>1. Done(s) /\ UNCHANGED <<doc, vouched>> /\ (Live(u) => doc[u].email = NoEmail)
    BY <1>3 DEF ClearAttribute, VouchInv, Current, At
  <2>2. UserVouched(u)' /\ AddressReached(u)'
    BY <2>1 DEF VouchInv, UserVouched, AddressReached, Live
  <2>3. QED
    BY <2>1, <2>2, Answered
<1>4. CASE Delete(s)
  <2> DEFINE d == [doc[u] EXCEPT !.deleted = TRUE, !.status = "inactive", !.name = NoName]
  <2>1. Update(u, d) /\ Goto(s, "dropAccount")
    BY <1>4 DEF Delete
  <2>2. d.deleted
    BY <1>1 DEF Document
  <2>3. ~Live(u)'
    BY <1>1, <2>1, <2>2 DEF Update, Live
  <2>4. slot'[s].pc = "dropAccount" /\ Uid(s)' = u
    BY <2>1, WentOn
  <2>5. QED
    BY <2>3, <2>4 DEF UserVouched, AddressReached, Current, At
<1>5. CASE DropAccount(s)
  <2>1. Done(s) /\ UNCHANGED doc /\ ~Live(u)
    BY <1>5 DEF DropAccount, VouchInv, Current, At
  <2>2. ~Live(u)'
    BY <2>1 DEF Live
  <2>3. QED
    BY <2>1, <2>2, Answered DEF UserVouched, AddressReached
<1>6. QED
  BY <1>2, <1>3, <1>4, <1>5

\* What a handler writes is its user's.
LEMMA HandlerKeepsUsers ==
    ASSUME TypeOK, DeletedNotPending, NEW s \in Slots, Handle(s), NEW v \in Users \ {Uid(s)}
    PROVE  doc'[v] = doc[v] /\ attribute'[v] = attribute[v] /\ vouched'[v] = vouched[v]
<1>1. doc'[v] = doc[v]
  BY HandlerWrites DEF Wrote, TypeOK
<1>2. attribute'[v] = attribute[v] /\ vouched'[v] = vouched[v]
  BY DEF TypeOK, Handle, AnswerOtp, FindName, WriteName, WriteProfile, FindEmail, WriteEmail,
         UpdateAttribute, RequestCode, EnterCode, RejectCode, EnterDefaultCode, ConfirmEmail,
         Activate, UpdateManaged, Detach, ClearAttribute, Delete, DropAccount
<1>3. QED
  BY <1>1, <1>2

LEMMA HandlerVouches ==
    ASSUME TypeOK, DeletedNotPending, PerUserApart, VouchInv, NEW s \in Slots, Handle(s)
    PROVE  VouchInv'
<1>1. ~At(s, "idle")
  BY DEF Handle, At, AnswerOtp, FindName, WriteName, WriteProfile, FindEmail, WriteEmail,
         UpdateAttribute, RequestCode, EnterCode, RejectCode, EnterDefaultCode, ConfirmEmail,
         Activate, UpdateManaged, Detach, ClearAttribute, Delete, DropAccount
<1>2. PICK u \in Users : Uid(s) = u
  BY <1>1 DEF TypeOK, RequestOK, At, Uid
<1>3. \A t \in Slots \ {s} : slot'[t] = slot[t]
  BY HandlerKeepsOthers
<1>4. UserVouched(u)' /\ AddressReached(u)' /\ Current(s)'
  <2>1. CASE AnswerOtp(s) \/ FindName(s) \/ WriteName(s) \/ WriteProfile(s)
             \/ FindEmail(s) \/ RequestCode(s) \/ RejectCode(s) \/ Activate(s)
    <3>1. Quiet(s, u)
      BY <1>2, <2>1, QuietSteps
    <3>2. ~At(s, "updateAttribute")
      BY <2>1 DEF At, AnswerOtp, FindName, WriteName, WriteProfile, FindEmail, RequestCode,
                  RejectCode, Activate
    <3>3. QED
      BY <1>3, <3>1, <3>2, QuietVouches
  <2>2. CASE WriteEmail(s)
    BY <1>2, <2>2, WriteEmailVouches
  <2>3. CASE UpdateAttribute(s)
    BY <1>2, <2>3, UpdateAttributeVouches
  <2>4. CASE EnterCode(s) \/ EnterDefaultCode(s)
    BY <1>2, <1>3, <2>4, EnterCodeVouches
  <2>5. CASE ConfirmEmail(s)
    BY <1>2, <1>3, <2>5, ConfirmEmailVouches
  <2>6. CASE UpdateManaged(s)
    BY <1>2, <1>3, <2>6, ManagedVouches
  <2>7. CASE Detach(s) \/ ClearAttribute(s) \/ Delete(s) \/ DropAccount(s)
    BY <1>2, <2>7, LeavingVouches
  <2>8. QED
    BY <2>1, <2>2, <2>3, <2>4, <2>5, <2>6, <2>7 DEF Handle
<1>5. \A v \in Users \ {u} : doc'[v] = doc[v] /\ attribute'[v] = attribute[v] /\ vouched'[v] = vouched[v]
  BY <1>2, HandlerKeepsUsers
<1>6. QED
  BY <1>1, <1>2, <1>3, <1>4, <1>5, VouchFrame

LEMMA ArrivalCurrent ==
    ASSUME TypeOK, NEW s \in Slots, NEW u \in Users, Start(s, u)
    PROVE  Current(s)'
<1>1. ASSUME NEW r, Arrive(s, r), r.pc \notin {"updateAttribute", "enterCode", "confirm", "clearAttribute", "dropAccount"}
      PROVE  Current(s)'
  BY <1>1 DEF Arrive, TypeOK, Current, At
<1>2. ASSUME NEW e \in Emails, NEW i \in Institutions, StartConfirmEmail(s, u, e, i)
      PROVE  Current(s)'
  <2>1. doc[u].email = e /\ i \in Belongs[e] /\ UNCHANGED doc
    BY <1>2 DEF StartConfirmEmail, Arrive
  <2>2. slot'[s].pc = "enterCode" /\ slot'[s].email = e /\ slot'[s].inst = i /\ slot'[s].uid = u
    BY <1>2 DEF StartConfirmEmail, Arrive, TypeOK, Handling
  <2>3. QED
    BY <2>1, <2>2 DEF Current, At, Uid
<1>3. CASE StartVerifyOtp(s, u) \/ StartActivate(s, u) \/ StartDetach(s, u) \/ StartDelete(s, u)
  BY <1>1, <1>3 DEF StartVerifyOtp, StartActivate, StartDetach, StartDelete, Handling
<1>4. ASSUME NEW n \in Names, StartSetUsername(s, u, n) \/ StartChangeUsername(s, u, n)
      PROVE  Current(s)'
  BY <1>1, <1>4 DEF StartSetUsername, StartChangeUsername, Handling
<1>5. ASSUME NEW n \in Names \cup {NoName}, NEW t \in NewStatuses \cup {"keep"}, StartProfile(s, u, n, t)
      PROVE  Current(s)'
  BY <1>1, <1>5 DEF StartProfile, Handling
<1>6. ASSUME NEW e \in Emails, StartVerifyEmail(s, u, e)
      PROVE  Current(s)'
  BY <1>1, <1>6 DEF StartVerifyEmail, Handling
<1>7. ASSUME NEW n \in Names, NEW e \in Emails \cup {NoEmail}, NEW i \in Institutions,
             NEW t \in NewStatuses, StartManage(s, u, n, e, i, t)
      PROVE  Current(s)'
  BY <1>1, <1>7 DEF StartManage, Handling
<1>8. QED
  BY <1>2, <1>3, <1>4, <1>5, <1>6, <1>7 DEF Start

LEMMA VouchStep == TypeOK /\ DeletedNotPending /\ PerUserApart /\ VouchInv /\ [Step]_vars => VouchInv'
<1> SUFFICES ASSUME TypeOK, DeletedNotPending, PerUserApart, VouchInv, [Step]_vars PROVE VouchInv'
  OBVIOUS
<1>1. ASSUME NEW s \in Slots, NEW u \in Users, Start(s, u)
      PROVE  VouchInv'
  <2>1. Arrived(s) /\ At(s, "idle") /\ Current(s)'
    <3>1. At(s, "idle")
      BY <1>1 DEF Start, Arrive, StartVerifyOtp, StartActivate, StartDetach, StartDelete,
                  StartSetUsername, StartChangeUsername, StartProfile, StartVerifyEmail,
                  StartConfirmEmail, StartManage
    <3>2. QED
      BY <1>1, <3>1, ArrivalTyped, ArrivalCurrent
  <2>2. ASSUME NEW v \in Users
        PROVE  UserVouched(v)' /\ AddressReached(v)'
    <3>1. UserVouched(v)'
      BY <2>1 DEF Arrived, VouchInv, UserVouched, Live
    <3>2. AddressReached(v)'
      BY <2>1, ReachedKept DEF Arrived, VouchInv, Live, At
    <3>3. QED
      BY <3>1, <3>2
  <2>3. ASSUME NEW t \in Slots \ {s}
        PROVE  Current(t)'
    <3>1. slot'[t] = slot[t] /\ UNCHANGED <<doc, vouched>>
      BY <2>1 DEF Arrived
    <3>2. QED
      BY <3>1 DEF VouchInv, Current, At, Live, Uid
  <2>4. QED
    BY <2>1, <2>2, <2>3 DEF VouchInv
<1>2. ASSUME NEW s \in Slots, Handle(s)
      PROVE  VouchInv'
  BY <1>2, HandlerVouches
<1>3. ASSUME NEW u \in Users, BlockReported(u)
      PROVE  VouchInv'
  <2>1. /\ UNCHANGED <<attribute, vouched, slot>>
        /\ \A v \in Users : /\ doc'[v].deleted = doc[v].deleted /\ doc'[v].email = doc[v].email
                            /\ doc'[v].emailVerified = doc[v].emailVerified
                            /\ doc'[v].institution = doc[v].institution
    BY <1>3 DEF BlockReported, TypeOK, Document
  <2>2. ASSUME NEW v \in Users
        PROVE  UserVouched(v)' /\ AddressReached(v)'
    BY <2>1 DEF VouchInv, UserVouched, AddressReached, Live, At, Uid
  <2>3. ASSUME NEW t \in Slots
        PROVE  Current(t)'
    <3>1. ~At(t, "idle") => Uid(t) \in Users
      BY DEF TypeOK, RequestOK, At, Uid
    <3>2. QED
      BY <2>1, <3>1 DEF VouchInv, Current, Live, At, Uid
  <2>4. QED
    BY <2>2, <2>3 DEF VouchInv
<1>4. CASE UNCHANGED vars
  BY <1>4 DEF vars, VouchInv, UserVouched, AddressReached, Current, Live, At, Uid
<1>5. QED
  BY <1>1, <1>2, <1>3, <1>4 DEF Step

\* emailVerified says what it should of every user, as long as no call fails and a
\* user's requests are handled one at a time; other users' may overlap them.
THEOREM EmailVouched == SmoothSpec /\ []PerUserApart => []VerifiedEmailVouched
<1>1. Init => VouchInv
  <2> SUFFICES ASSUME Init PROVE VouchInv
    OBVIOUS
  <2>1. ASSUME NEW u \in Users
        PROVE  doc[u].email = NoEmail /\ ~doc[u].emailVerified
    <3>1. ~SignedUp.emailVerified /\ \A n \in Names, i \in Institutions : ~Managed(n, i).emailVerified
      BY DEF SignedUp, Managed
    <3>2. ASSUME NEW w \in Users, NEW n \in Names, NEW i \in Institutions,
                 doc = [[v \in Users |-> SignedUp] EXCEPT ![w] = Managed(n, i)]
          PROVE  ~doc[u].emailVerified
      <4>1. doc[u] = SignedUp \/ doc[u] = Managed(n, i)
        BY <3>2
      <4>2. QED
        BY <3>1, <4>1
    <3>3. doc = [v \in Users |-> SignedUp] => ~doc[u].emailVerified
      BY <3>1
    <3>4. ~doc[u].emailVerified
      BY <3>2, <3>3 DEF Init
    <3>5. QED
      BY <3>4, InitFresh
  <2>2. \A s \in Slots : At(s, "idle")
    BY IdleTyped DEF Init, At
  <2>3. QED
    BY <2>1, <2>2 DEF VouchInv, UserVouched, AddressReached, Current, At
<1>2. VouchInv => VerifiedEmailVouched
  BY DEF VouchInv, UserVouched, VerifiedEmailVouched
<1>3. [Step]_vars => [Next]_vars
  BY DEF Next
<1>4. SmoothSpec => Spec
  BY <1>3, PTL DEF Spec, SmoothSpec
<1>5. QED
  BY <1>1, <1>2, <1>4, VouchStep, Typed, PTL DEF SmoothSpec

\* In particular a service that handles one request at a time, as the run does.
THEOREM EmailVouchedAlone ==
    ASSUME NEW s \in Slots, Slots = {s}
    PROVE  SmoothSpec => []VerifiedEmailVouched
<1>1. PerUserApart
  BY DEF PerUserApart
<1>2. QED
  BY <1>1, EmailVouched, PTL
=============================================================================
