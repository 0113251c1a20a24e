----------------------------- MODULE Onboarding -----------------------------
(***************************************************************************)
(* What happens to a user after account creation (Signup): phone number,   *)
(* user name and e-mail are verified one after the other until the user is *)
(* active, activation codes skip the e-mail, and profile changes, bulk     *)
(* upload, detaching from an institution and deletion run at any time.     *)
(*                                                                         *)
(* Handlers are UsersAuthService methods.  Each reads the user and decides *)
(* by what it read, and some awaits later writes by user id.  The arrival  *)
(* of a request and its first read are one action, since nothing the       *)
(* request does comes before; a request turned away there has no action.   *)
(***************************************************************************)
EXTENDS Integers, FiniteSets

CONSTANTS
    Slots,        \* requests the service handles at the same time
    Users,        \* users that have signed up, one for a phone number
    Names,        \* user names
    Blank,        \* the empty user name, when it is one of Names
    Emails,       \* e-mail addresses
    Institutions, \* institutions
    Belongs,      \* the institutions of an address: its admin's, or its domain's
    AdminEmails,  \* addresses of administrators, who need not have an institution
    Operations,   \* the kinds of request that arrive
    NewStatuses,  \* statuses a profile change or a bulk upload writes
    NoUser, NoName, NoEmail, NoInst

ASSUME NoneAssumption ==
    NoUser \notin Users /\ NoName \notin Names /\ NoEmail \notin Emails
    /\ NoInst \notin Institutions
ASSUME BelongsAssumption == Belongs \in [Emails -> SUBSET Institutions]

Statuses == {"pending", "active", "blocked", "inactive"}
ASSUME StatusAssumption == NewStatuses \subseteq Statuses

VARIABLES
    doc,       \* the users collection
    attribute, \* e-mail attribute of the user's Cognito account
    code,      \* address the account's verification code was last sent to
    slot,      \* the state of each request being handled
    vouched    \* history: addresses, each with an institution, that a code
               \* was entered for or that the institution itself uploaded

vars == <<doc, attribute, code, slot, vouched>>

Document == [deleted : BOOLEAN, status : Statuses, phoneVerified : BOOLEAN,
             name : Names \cup {NoName}, email : Emails \cup {NoEmail},
             emailVerified : BOOLEAN, institution : Institutions \cup {NoInst}]

Labels == {"idle", "answerOtp", "findName", "writeName", "findEmail", "writeEmail",
           "updateAttribute", "requestCode", "enterCode", "confirm", "activate",
           "profile", "manage", "detach", "clearAttribute", "delete", "dropAccount"}
Request == [status : Statuses \cup {"keep"},
            name : Names \cup {NoName},
            email : Emails \cup {NoEmail},
            pc : Labels,
            op : Operations \cup {"none"},
            uid : Users \cup {NoUser},
            inst : Institutions \cup {NoInst}]

Handling(l, o, u, n, e, i, t) ==
    [status |-> t, name |-> n, email |-> e, pc |-> l, op |-> o, uid |-> u, inst |-> i]
Idle == Handling("idle", "none", NoUser, NoName, NoEmail, NoInst, "keep")

\* A request carries what its next steps write.
RequestOK(r) ==
    /\ r.pc # "idle" => r.uid \in Users
    /\ r.pc \in {"findName", "writeName"} \/ r.op = "manage" => r.name \in Names
    /\ r.pc \in {"findEmail", "writeEmail", "updateAttribute", "enterCode"} => r.email \in Emails
    /\ r.pc \in {"enterCode", "confirm"} \/ r.op = "manage" => r.inst \in Institutions
    /\ r.op = "manage" => r.status # "keep"
    /\ r.pc = "manage" => r.op = "manage"
    /\ r.op = "setUsername" => r.pc \in {"findName", "writeName"}

TypeOK ==
    /\ doc \in [Users -> Document]
    /\ attribute \in [Users -> Emails \cup {NoEmail}]
    /\ code \in [Users -> Emails \cup {NoEmail}]
    /\ slot \in [Slots -> Request]
    /\ \A s \in Slots : RequestOK(slot[s])
    /\ vouched \in [Users -> SUBSET (Emails \X Institutions)]

-----------------------------------------------------------------------------
\* What signup creates, and what an institution creates by bulk upload.
SignedUp == [deleted |-> FALSE, status |-> "pending", phoneVerified |-> FALSE,
             name |-> NoName, email |-> NoEmail, emailVerified |-> FALSE,
             institution |-> NoInst]
Managed(n, i) == [SignedUp EXCEPT !.status = "active", !.phoneVerified = TRUE,
                                  !.name = n, !.institution = i]

\* Every user has just signed up, or one of them was uploaded.
Init ==
    /\ \/ doc = [u \in Users |-> SignedUp]
       \/ /\ "manage" \in Operations
          /\ \E u \in Users, n \in Names \ {Blank}, i \in Institutions :
                doc = [[v \in Users |-> SignedUp] EXCEPT ![u] = Managed(n, i)]
    /\ attribute = [u \in Users |-> NoEmail]
    /\ code = [u \in Users |-> NoEmail]
    /\ slot = [s \in Slots |-> Idle]
    /\ vouched = [u \in Users |-> {}]

Live(u) == ~doc[u].deleted
Uid(s) == slot[s].uid
At(s, l) == slot[s].pc = l
Goto(s, l) == slot' = [slot EXCEPT ![s].pc = l]
Done(s) == slot' = [slot EXCEPT ![s] = Idle]
Arrive(s, r) ==
    /\ At(s, "idle") /\ r.op \in Operations /\ Live(r.uid)
    /\ slot' = [slot EXCEPT ![s] = r]
    /\ UNCHANGED <<doc, attribute, code, vouched>>

\* Mutant: the update is by user id alone.
UpdateById(u, d) == doc' = [doc EXCEPT ![u] = d]

\* findOneAndUpdate({userId, isDeleted: false}, ...): nothing is written to a
\* deleted user, and the handler goes on.
Update(u, d) == doc' = IF Live(u) THEN [doc EXCEPT ![u] = d] ELSE doc
\* A live user has the name, which the unique index on userName then refuses to
\* anyone else.  Deleting a user replaces its name by a random one (NoName).
NameTaken(u, n) == \E v \in Users \ {u} : doc[v].name = n

-----------------------------------------------------------------------------
(* verifyUnifiedPhoneOtp, verifySignupOtp *)

\* An active user logs in, which changes nothing here.
StartVerifyOtp(s, u) ==
    /\ doc[u].status \notin {"blocked", "active"}
    /\ Arrive(s, Handling("answerOtp", "verifyOtp", u, NoName, NoEmail, NoInst, "keep"))

\* Cognito accepts the answer (else Abort); the update is by phone number.
AnswerOtp(s) ==
    /\ At(s, "answerOtp")
    /\ Update(Uid(s), [doc[Uid(s)] EXCEPT !.phoneVerified = TRUE])
    /\ Done(s)
    /\ UNCHANGED <<attribute, code, vouched>>

-----------------------------------------------------------------------------
(* setUsername, changeUsername and updateUserProfile: read, look the name up,
   write. *)

StartSetUsername(s, u, n) ==
    /\ n # Blank
    /\ doc[u].phoneVerified
    /\ doc[u].status = "pending"
    /\ Arrive(s, Handling("findName", "setUsername", u, n, NoEmail, NoInst, "keep"))

StartChangeUsername(s, u, n) ==
    /\ n # Blank
    /\ doc[u].status = "active"
    /\ doc[u].name # n
    /\ Arrive(s, Handling("findName", "changeUsername", u, n, NoEmail, NoInst, "keep"))

\* The name or the status or both (a name of NoName: it is left out).  An empty
\* name is not looked up.
StartProfile(s, u, n, t) ==
    Arrive(s, Handling(IF n \in {NoName, Blank} THEN "profile" ELSE "findName",
                       "profile", u, n, NoEmail, NoInst, t))

AfterName(o) == CASE o = "profile" -> "profile"
                  [] o = "manage" -> "manage"
                  [] OTHER -> "writeName"

FindName(s) ==
    /\ At(s, "findName")
    /\ \/ NameTaken(Uid(s), slot[s].name) /\ Done(s)
       \/ ~NameTaken(Uid(s), slot[s].name) /\ Goto(s, AfterName(slot[s].op))
    /\ UNCHANGED <<doc, attribute, code, vouched>>

\* Mutant: only the look-up keeps names apart.
WriteNameNoIndex(s) ==
    /\ At(s, "writeName")
    /\ slot[s].op = "setUsername" => doc[Uid(s)].status = "pending"
    /\ Update(Uid(s), [doc[Uid(s)] EXCEPT !.name = slot[s].name])
    /\ Done(s)
    /\ UNCHANGED <<attribute, code, vouched>>

\* Mutant: setUsername's update is not filtered by the pending status.
WriteNameAnyStatus(s) ==
    /\ At(s, "writeName")
    /\ ~NameTaken(Uid(s), slot[s].name)
    /\ Update(Uid(s), [doc[Uid(s)] EXCEPT !.name = slot[s].name])
    /\ Done(s)
    /\ UNCHANGED <<attribute, code, vouched>>

\* setUsername's update is filtered by the pending status alone, changeUsername's
\* by isDeleted.  The unique index refuses a name taken since the look-up.
Writable(o, u) == IF o = "setUsername" THEN doc[u].status = "pending" ELSE Live(u)

WriteName(s) ==
    /\ At(s, "writeName")
    /\ LET may == Writable(slot[s].op, Uid(s)) /\ ~NameTaken(Uid(s), slot[s].name)
       IN  \/ may /\ doc' = [doc EXCEPT ![Uid(s)].name = slot[s].name]
           \/ ~may /\ UNCHANGED doc
    /\ Done(s)
    /\ UNCHANGED <<attribute, code, vouched>>

WriteProfile(s) ==
    /\ At(s, "profile")
    /\ LET u == Uid(s)
           n == IF slot[s].name = NoName THEN doc[u].name ELSE slot[s].name
           t == IF slot[s].status = "keep" THEN doc[u].status ELSE slot[s].status
       IN  \/ /\ ~NameTaken(u, slot[s].name) \/ slot[s].name = NoName
              /\ Update(u, [doc[u] EXCEPT !.name = n, !.status = t])
           \/ slot[s].name # NoName /\ NameTaken(u, slot[s].name) /\ UNCHANGED doc
    /\ Done(s)
    /\ UNCHANGED <<attribute, code, vouched>>

-----------------------------------------------------------------------------
(* verifyEmail and confirmEmail *)

\* Mutant: the user name may be chosen later.
StartVerifyEmailUnnamed(s, u, e) ==
    /\ doc[u].phoneVerified
    /\ Arrive(s, Handling("findEmail", "verifyEmail", u, NoName, e, NoInst, "keep"))

StartVerifyEmail(s, u, e) ==
    /\ doc[u].phoneVerified
    /\ doc[u].name \notin {NoName, Blank}
    /\ Arrive(s, Handling("findEmail", "verifyEmail", u, NoName, e, NoInst, "keep"))

\* Mutant: an address is refused to everyone once any live user has it.
FindEmailAnyHolder(s) ==
    /\ At(s, "findEmail")
    /\ \/ (\A v \in Users : Live(v) => doc[v].email # slot[s].email) /\ Goto(s, "writeEmail")
       \/ (\E v \in Users : Live(v) /\ doc[v].email = slot[s].email) /\ Done(s)
    /\ UNCHANGED <<doc, attribute, code, vouched>>

\* verifyEmail asks whether an active user has the address, a managed update
\* whether another live one has.  findOne answers one of the active users.
FindEmail(s) ==
    /\ At(s, "findEmail")
    /\ LET e == slot[s].email
           holders == {v \in Users : Live(v) /\ doc[v].email = e}
           active == {v \in holders : doc[v].status = "active"}
       IN  \/ /\ slot[s].op = "verifyEmail"
              /\ Belongs[e] # {} \/ e \in AdminEmails
              /\ active = {} \/ Uid(s) \in active
              /\ Goto(s, "writeEmail")
           \/ /\ slot[s].op = "verifyEmail"
              /\ \/ Belongs[e] = {} /\ e \notin AdminEmails
                 \/ \E v \in active : v # Uid(s)
              /\ Done(s)
           \/ /\ slot[s].op = "manage"
              /\ holders \subseteq {Uid(s)}
              /\ Goto(s, "findName")
           \/ /\ slot[s].op = "manage"
              /\ ~(holders \subseteq {Uid(s)})
              /\ Done(s)
    /\ UNCHANGED <<doc, attribute, code, vouched>>

\* Mutant: a new address does not reset emailVerified.
WriteEmailStillVerified(s) ==
    /\ At(s, "writeEmail")
    /\ Update(Uid(s), [doc[Uid(s)] EXCEPT !.email = slot[s].email])
    /\ Goto(s, "updateAttribute")
    /\ UNCHANGED <<attribute, code, vouched>>

\* The address is written before Cognito is asked to send a code to it.
WriteEmail(s) ==
    /\ At(s, "writeEmail")
    /\ Update(Uid(s), [doc[Uid(s)] EXCEPT !.email = slot[s].email, !.emailVerified = FALSE])
    /\ Goto(s, "updateAttribute")
    /\ UNCHANGED <<attribute, code, vouched>>

UpdateAttribute(s) ==
    /\ At(s, "updateAttribute")
    /\ attribute' = [attribute EXCEPT ![Uid(s)] = slot[s].email]
    /\ Goto(s, "requestCode")
    /\ UNCHANGED <<doc, code, vouched>>

RequestCode(s) ==
    /\ At(s, "requestCode")
    /\ code' = [code EXCEPT ![Uid(s)] = attribute[Uid(s)]]
    /\ Done(s)
    /\ UNCHANGED <<doc, attribute, vouched>>

\* Mutant: the institution of the address is not looked up.
StartConfirmEmailNoInstitution(s, u, e, i) ==
    /\ doc[u].phoneVerified
    /\ doc[u].name # NoName
    /\ doc[u].email = e
    /\ Arrive(s, Handling("enterCode", "confirmEmail", u, NoName, e, NoInst, "keep"))

\* The institution is the admin's, or the one of the address's domain.
StartConfirmEmail(s, u, e, i) ==
    /\ doc[u].phoneVerified
    /\ doc[u].name # NoName
    /\ doc[u].email = e
    /\ i \in Belongs[e]
    /\ Arrive(s, Handling("enterCode", "confirmEmail", u, NoName, e, i,
                          IF doc[u].status = "pending" THEN "active" ELSE "keep"))

\* VerifyUserAttribute accepts the code of the account's current address.
EnterCode(s) ==
    /\ At(s, "enterCode")
    /\ code[Uid(s)] # NoEmail
    /\ code[Uid(s)] = attribute[Uid(s)]
    /\ code' = [code EXCEPT ![Uid(s)] = NoEmail]
    /\ vouched' = [vouched EXCEPT ![Uid(s)] =
                        @ \cup ({attribute[Uid(s)]} \X Belongs[attribute[Uid(s)]])]
    /\ Goto(s, "confirm")
    /\ UNCHANGED <<doc, attribute>>

\* There is no code for the current address that could be entered.
RejectCode(s) ==
    /\ At(s, "enterCode")
    /\ code[Uid(s)] = NoEmail \/ code[Uid(s)] # attribute[Uid(s)]
    /\ Done(s)
    /\ UNCHANGED <<doc, attribute, code, vouched>>

\* DEFAULT_EMAIL_OTP is accepted without Cognito.
EnterDefaultCode(s) ==
    /\ At(s, "enterCode")
    /\ vouched' = [vouched EXCEPT ![Uid(s)] = @ \cup {<<slot[s].email, slot[s].inst>>}]
    /\ Goto(s, "confirm")
    /\ UNCHANGED <<doc, attribute, code>>

\* Whether the sign-up is completed was decided by the first read.
ConfirmEmail(s) ==
    /\ At(s, "confirm")
    /\ LET u == Uid(s)
           t == IF slot[s].status = "keep" THEN doc[u].status ELSE slot[s].status
       IN  Update(u, [doc[u] EXCEPT !.emailVerified = TRUE, !.status = t,
                                    !.institution = slot[s].inst])
    /\ Done(s)
    /\ UNCHANGED <<attribute, code, vouched>>

-----------------------------------------------------------------------------
(* activateByQrCode and activateByReferralCode *)

StartActivate(s, u) ==
    /\ doc[u].status # "active"
    /\ Arrive(s, Handling("activate", "activate", u, NoName, NoEmail, NoInst, "active"))

Activate(s) ==
    /\ At(s, "activate")
    /\ Update(Uid(s), [doc[Uid(s)] EXCEPT !.status = "active"])
    /\ Done(s)
    /\ UNCHANGED <<attribute, code, vouched>>

-----------------------------------------------------------------------------
(* updateInstitutionManagedUser, called by the bulk upload *)

\* The name is the uploaded one, the user's, or a fresh temporary one; an
\* e-mail address of NoEmail was left out of the file.
StartManage(s, u, n, e, i, t) ==
    /\ n # Blank
    /\ doc[u].institution \in {NoInst, i}
    /\ Arrive(s, Handling(IF e \in {NoEmail, doc[u].email} THEN "findName" ELSE "findEmail",
                          "manage", u, n, e, i, t))

UpdateManaged(s) ==
    /\ At(s, "manage")
    /\ LET u == Uid(s)
           e == slot[s].email
       IN  \/ /\ ~NameTaken(u, slot[s].name)
              /\ Update(u, [doc[u] EXCEPT !.name = slot[s].name,
                                          !.email = IF e = NoEmail THEN @ ELSE e,
                                          !.emailVerified = e # NoEmail,
                                          !.phoneVerified = TRUE,
                                          !.status = slot[s].status,
                                          !.institution = slot[s].inst])
              /\ vouched' = [vouched EXCEPT ![u] =
                                @ \cup (({e} \cap Emails) \X {slot[s].inst})]
           \/ NameTaken(u, slot[s].name) /\ UNCHANGED <<doc, vouched>>
    /\ Done(s)
    /\ UNCHANGED <<attribute, code>>

-----------------------------------------------------------------------------
(* removeUserFromInstitution, and one turn of bulkRemoveUsersFromInstitution *)

StartDetach(s, u) ==
    /\ doc[u].institution # NoInst
    /\ Arrive(s, Handling("detach", "detach", u, NoName, doc[u].email, NoInst, "keep"))

Detach(s) ==
    /\ At(s, "detach")
    /\ Update(Uid(s), [doc[Uid(s)] EXCEPT !.email = NoEmail, !.emailVerified = FALSE,
                                          !.institution = NoInst])
    /\ \/ slot[s].email # NoEmail /\ Goto(s, "clearAttribute")
       \/ slot[s].email = NoEmail /\ Done(s)
    /\ UNCHANGED <<attribute, code, vouched>>

\* Its failure is logged (see Abort).
ClearAttribute(s) ==
    /\ At(s, "clearAttribute")
    /\ attribute' = [attribute EXCEPT ![Uid(s)] = NoEmail]
    /\ Done(s)
    /\ UNCHANGED <<doc, code, vouched>>

-----------------------------------------------------------------------------
(* deleteUser *)

StartDelete(s, u) ==
    Arrive(s, Handling("delete", "delete", u, NoName, NoEmail, NoInst, "inactive"))

Delete(s) ==
    /\ At(s, "delete")
    /\ Update(Uid(s), [doc[Uid(s)] EXCEPT !.deleted = TRUE, !.status = "inactive",
                                          !.name = NoName])
    /\ Goto(s, "dropAccount")
    /\ UNCHANGED <<attribute, code, vouched>>

DropAccount(s) ==
    /\ At(s, "dropAccount")
    /\ attribute' = [attribute EXCEPT ![Uid(s)] = NoEmail]
    /\ code' = [code EXCEPT ![Uid(s)] = NoEmail]
    /\ Done(s)
    /\ UNCHANGED <<doc, vouched>>

-----------------------------------------------------------------------------
(* ReviewReportService.updateStatus *)

\* A report is resolved by blocking the user it is about.  Nothing is read of the
\* user before, and the update is by user id alone.
BlockReported(u) ==
    /\ "moderate" \in Operations
    /\ doc' = [doc EXCEPT ![u].status = "blocked"]
    /\ UNCHANGED <<attribute, code, slot, vouched>>

-----------------------------------------------------------------------------
\* An awaited call rejects: what was written before it stays.
Abort(s) ==
    /\ ~At(s, "idle")
    /\ Done(s)
    /\ UNCHANGED <<doc, attribute, code, vouched>>

Start(s, u) ==
    \/ StartVerifyOtp(s, u) \/ StartActivate(s, u) \/ StartDetach(s, u) \/ StartDelete(s, u)
    \/ \E n \in Names : StartSetUsername(s, u, n) \/ StartChangeUsername(s, u, n)
    \/ \E n \in Names \cup {NoName}, t \in NewStatuses \cup {"keep"} : StartProfile(s, u, n, t)
    \/ \E e \in Emails : StartVerifyEmail(s, u, e)
    \/ \E e \in Emails, i \in Institutions : StartConfirmEmail(s, u, e, i)
    \/ \E n \in Names, e \in Emails \cup {NoEmail}, i \in Institutions, t \in NewStatuses :
            StartManage(s, u, n, e, i, t)

Handle(s) ==
    \/ AnswerOtp(s) \/ FindName(s) \/ WriteName(s) \/ WriteProfile(s) \/ FindEmail(s)
    \/ WriteEmail(s) \/ UpdateAttribute(s) \/ RequestCode(s) \/ EnterCode(s)
    \/ RejectCode(s) \/ EnterDefaultCode(s) \/ ConfirmEmail(s) \/ Activate(s) \/ UpdateManaged(s)
    \/ Detach(s) \/ ClearAttribute(s) \/ Delete(s) \/ DropAccount(s)

Step ==
    \/ \E s \in Slots, u \in Users : Start(s, u)
    \/ \E s \in Slots : Handle(s)
    \/ \E u \in Users : BlockReported(u)

Next == Step \/ \E s \in Slots : Abort(s)

Spec == Init /\ [][Next]_vars

\* No call fails.
SmoothSpec == Init /\ [][Step]_vars

-----------------------------------------------------------------------------
(* Properties *)

\* Two users never have the same user name, whatever runs between a handler's
\* look-up and its write.
UserNamesUnique ==
    \A u, v \in Users : u # v /\ doc[u].name = doc[v].name => doc[u].name = NoName

\* A user has an e-mail address only once its phone number is verified and its
\* name set: no order of the onboarding steps, and no detach or delete in
\* the middle of one, gets ahead of verifyEmail's checks.
EmailComesLast ==
    \A u \in Users : Live(u) /\ doc[u].email # NoEmail =>
        doc[u].phoneVerified /\ doc[u].name # NoName

\* The sign-up step setUsername never renames a user that has been activated
\* since it read the user.
SetUsernameOnlyPending ==
    [][\A s \in Slots : slot[s].op = "setUsername" /\ slot'[s] # slot[s] =>
        \A u \in Users : doc[u].status # "pending" => doc'[u].name = doc[u].name]_vars

\* A request still under way when its user is deleted writes nothing to the
\* document that stays behind: setUsername's update, which does not ask for
\* isDeleted, is kept out by the status that deleteUser leaves and that only
\* moderation changes.  (deviceId and referralCode, not modelled here, are
\* written by user id alone.)
DeletedStaysDeleted ==
    [][\A u \in Users : doc[u].deleted =>
        doc'[u] \in {doc[u], [doc[u] EXCEPT !.status = "blocked"]}]_vars

\* emailVerified says that a code sent to this very address was entered, or an
\* institution vouched for it, and the user is in an institution of that
\* address.  Holds while a user's requests do not overlap and no call fails.
VerifiedEmailVouched ==
    \A u \in Users : Live(u) /\ doc[u].emailVerified =>
        \E v \in vouched[u] :
            v[1] = doc[u].email /\ doc[u].institution \in Belongs[v[1]] \cup {v[2]}
=============================================================================
