---------------------------- MODULE Administration ----------------------------
(***************************************************************************)
(* AdminUserService, CognitoService and the bulk upload of administrators: *)
(* the administrators, the institutions that are onboarded with one, and   *)
(* their accounts in the Cognito user pool.                                *)
(*                                                                         *)
(* Creating an administrator writes to stores that share no transaction:   *)
(* the document, the account, its password, the app user of the same       *)
(* address, and when onboarding an institution and a permission group too. *)
(* A failure undoes, step by step, some of what was written.  Requests     *)
(* interleave at every await.                                              *)
(***************************************************************************)
EXTENDS Integers, FiniteSets

CONSTANTS
    Slots,   \* requests the service handles at the same time
    Admins,  \* identifiers of administrators
    Emails,  \* addresses of administrators
    Names,   \* user names
    Phones,  \* phone numbers
    Insts,   \* institutions
    Domains, \* domains of addresses and institutions
    Domain,  \* the domain of each address
    MaxRenames, \* bound: administrators whose name or address is changed
    GroupMade,  \* bound: the outcomes of making a group that an instance looks at
    MaxFailures, \* bound: institutions and administrators left behind by a failure
    NoAdmin, NoEmail, NoName, NoPhone, NoInst, NoDomain

ASSUME SlotsAssumption == IsFiniteSet(Slots) /\ Slots # {}
ASSUME GroupAssumption == GroupMade \subseteq BOOLEAN
ASSUME DomainAssumption == Domain \in [Emails -> Domains] /\ NoDomain \notin Domains
ASSUME NoneAssumption ==
    /\ NoAdmin \notin Admins /\ NoInst \notin Insts /\ Admins \cap Insts = {}
    /\ {NoEmail, NoName, NoPhone} \cap (Emails \cup Names \cup Phones) = {}

VARIABLES
    admin,    \* the documents of administrators
    pool,     \* the accounts of the user pool, by user name
    inst,     \* the institutions
    slot,     \* the state of each request being handled
    founded,  \* history: institutions whose onboarding was answered with success
    stranded, \* history: institutions and administrators whose creation failed
              \* and whose undoing failed too, or was not reached
    renamed,  \* history: administrators whose name or address was updated
    raced     \* history: phone numbers two requests carried at a time

vars == <<admin, pool, inst, slot, founded, stranded, renamed, raced>>

AdminUser == [state : {"absent", "live", "deleted", "undone"}, email : Emails \cup {NoEmail},
              name : Names \cup {NoName}, phone : Phones \cup {NoPhone}]
Account == [email : Emails \cup {NoEmail}, state : {"none", "temporary", "ready"}]
Institution == [domain : Domains \cup {NoDomain}, group : BOOLEAN,
                state : {"absent", "active", "deleted"}]
NoAdminUser == [state |-> "absent", email |-> NoEmail, name |-> NoName, phone |-> NoPhone]
UndoneUser == [NoAdminUser EXCEPT !.state = "undone"]  \* its identifier is not used again
NoAccount == [email |-> NoEmail, state |-> "none"]
NoInstitution == [domain |-> NoDomain, group |-> FALSE, state |-> "absent"]

Fields == {"email", "name", "phone"}
Making == {"account", "password", "undoAdmin", "undoInst"}
Creating == {"account", "password", "undoAdmin"}
Founding == {"group", "insert", "undoInst"}
Labels == {"idle", "row", "institution", "findPhone", "domainFree", "found",
           "check", "write"} \cup Creating \cup Founding
\* A field is bound when the request first uses it, and cleared when it is done with it.
Request == [pc : Labels,
            op : {"none", "create", "onboard", "update", "row"},
            admin : Admins \cup {NoAdmin},   \* the document it made, or updates
            email : Emails \cup {NoEmail}, name : Names \cup {NoName},
            phone : Phones \cup {NoPhone}, inst : Insts \cup {NoInst},
            todo : SUBSET Fields]            \* duplicates still to be looked for
Idle == [pc |-> "idle", op |-> "none", admin |-> NoAdmin, email |-> NoEmail, name |-> NoName,
         phone |-> NoPhone, inst |-> NoInst, todo |-> {}]

-----------------------------------------------------------------------------
At(s, l) == slot[s].pc = l
Exists(a) == admin[a].state \in {"live", "deleted"}
Live(a) == admin[a].state = "live"
\* The unique indexes cover deleted documents; the look-ups of update do not.
Indexed(f, v, a) == \E b \in Admins \ {a} : Exists(b) /\ admin[b][f] = v
Taken(f, v, a) == \E b \in Admins \ {a} : Live(b) /\ admin[b][f] = v
Refused(n, e) ==
    pool[n].state # "none" \/ \E m \in Names : pool[m].state # "none" /\ pool[m].email = e
\* What a query of the record service for a domain can return; it is external, and
\* may or may not return the institutions that were deleted.
OfDomain(d) == {i \in Insts : inst[i].domain = d}

InFlight(a) == \E s \in Slots : slot[s].admin = a /\ slot[s].pc \in Creating
Held(i) == \E s \in Slots :
    slot[s].op = "onboard" /\ slot[s].inst = i /\ slot[s].pc \in Creating \cup Founding

Init ==
    /\ admin = [a \in Admins |-> NoAdminUser]
    /\ pool = [n \in Names |-> NoAccount]
    /\ inst = [i \in Insts |-> NoInstitution]
    /\ slot = [s \in Slots |-> Idle]
    /\ founded = {} /\ stranded = {} /\ renamed = {} /\ raced = {}

-----------------------------------------------------------------------------
(* How requests go on and end.  A request whose first look-up fails has not  *)
(* written anything, and is not an action.                                   *)

Carried(sl) == {p \in Phones : \E s, t \in Slots : s # t /\ sl[s].phone = p /\ sl[t].phone = p}
Become(s, r) ==
    /\ slot' = [slot EXCEPT ![s] = r]
    /\ raced' = raced \cup Carried(slot')
Goto(s, l) == Become(s, [slot[s] EXCEPT !.pc = l])
End(s) == Become(s, Idle)

StoresUnchanged == UNCHANGED <<admin, pool, inst, founded, stranded, renamed>>

-----------------------------------------------------------------------------
(* createAdminUser, up to its first write *)

\* Bounds: no more creations and onboardings start than there are identifiers left.
Room == Cardinality({s \in Slots : slot[s].op \in {"create", "onboard"} /\ slot[s].pc \notin Making})
            < Cardinality({a \in Admins : admin[a].state = "absent"})
RoomForInst == \E i \in Insts :
    inst[i].state = "absent" /\ \A s \in Slots : slot[s].op = "onboard" => slot[s].inst # NoInst

\* The address must be new, to the deleted administrators too.
StartCreate(s, e, i) ==
    /\ At(s, "idle") /\ Room /\ ~Indexed("email", e, NoAdmin)
    /\ Become(s, [Idle EXCEPT !.pc = IF i = NoInst THEN "findPhone" ELSE "institution",
                             !.op = "create", !.email = e, !.inst = i])
    /\ StoresUnchanged

\* The institution must be there, deleted or not.  For institution administrators, unless
\* that is skipped, it must be the one validateInstitute answers: a request that does not
\* match aborts.
FindInstitution(s) ==
    /\ At(s, "institution")
    /\ inst[slot[s].inst].state # "absent"
    /\ Become(s, [slot[s] EXCEPT !.inst = NoInst, !.pc = "findPhone"])
    /\ StoresUnchanged

AfterPhone(r) == IF r.op = "onboard" THEN "domainFree" ELSE "insert"

\* Mutant: nobody looks for another holder of the phone number.
FindNoPhone(s, p) ==
    /\ At(s, "findPhone")
    /\ Become(s, [slot[s] EXCEPT !.phone = p, !.pc = AfterPhone(slot[s])])
    /\ StoresUnchanged

\* Deleted administrators may share the phone number.
FindPhone(s, p) ==
    /\ At(s, "findPhone")
    /\ p # NoPhone => ~Taken("phone", p, NoAdmin)
    /\ Become(s, [slot[s] EXCEPT !.phone = p, !.pc = AfterPhone(slot[s])])
    /\ StoresUnchanged

-----------------------------------------------------------------------------
(* createOnboardingAdminUser, up to the administrator's document *)

StartOnboard(s, e) ==
    /\ At(s, "idle") /\ Room /\ RoomForInst /\ ~Indexed("email", e, NoAdmin)
    /\ Become(s, [Idle EXCEPT !.pc = "findPhone", !.op = "onboard", !.email = e])
    /\ StoresUnchanged

\* The domain must not be that of an institution; a query that fails is taken for one
\* that finds none.
DomainFree(s) ==
    /\ At(s, "domainFree")
    /\ \/ OfDomain(Domain[slot[s].email]) # {} /\ End(s)
       \/ Goto(s, "found")
    /\ StoresUnchanged

FoundInstitution(s) ==
    /\ At(s, "found")
    /\ \E i \in Insts :
          /\ inst[i].state = "absent"
          /\ inst' = [inst EXCEPT ![i] = [domain |-> Domain[slot[s].email],
                                          group |-> FALSE, state |-> "active"]]
          /\ Become(s, [slot[s] EXCEPT !.inst = i, !.pc = "group"])
    /\ UNCHANGED <<admin, pool, founded, stranded, renamed>>

\* The look-up of a free user name is not in a try: when it fails, the institution is
\* left behind.
LoseName(s) ==
    /\ At(s, "group") /\ Cardinality(stranded) < MaxFailures
    /\ stranded' = stranded \cup {slot[s].inst}
    /\ End(s)
    /\ UNCHANGED <<admin, pool, inst, founded, renamed>>

\* The group of all permissions; without permissions, or when the record service
\* fails, the onboarding goes on without a group.
MakeGroup(s) ==
    /\ At(s, "group")
    /\ \E made \in GroupMade : inst' = [inst EXCEPT ![slot[s].inst].group = made]
    /\ Goto(s, "insert")
    /\ UNCHANGED <<admin, pool, founded, stranded, renamed>>

\* Mutant: an onboarding whose document is refused just fails.
OnboardDropped(s) ==
    /\ At(s, "insert") /\ slot[s].op = "onboard"
    /\ End(s)
    /\ StoresUnchanged

\* An onboarding whose document is refused takes its institution back.
OnboardRefused(s) ==
    /\ At(s, "insert") /\ slot[s].op = "onboard"
    /\ Become(s, [Idle EXCEPT !.pc = "undoInst", !.op = "onboard", !.inst = slot[s].inst])
    /\ StoresUnchanged

-----------------------------------------------------------------------------
(* The document and the account *)

\* A user name that is given, or generated and not that of any administrator when it
\* was looked up.
Insert(s, n) ==
    /\ At(s, "insert")
    /\ ~Indexed("email", slot[s].email, NoAdmin) /\ ~Indexed("name", n, NoAdmin)
    /\ \E a \in Admins :
          /\ admin[a].state = "absent"
          /\ admin' = [admin EXCEPT ![a] = [state |-> "live", email |-> slot[s].email,
                                            name |-> n, phone |-> slot[s].phone]]
          /\ Become(s, [slot[s] EXCEPT !.admin = a, !.name = n, !.phone = NoPhone,
                                      !.pc = "account"])
    /\ UNCHANGED <<pool, inst, founded, stranded, renamed>>

\* Mutant: the identifier of the document is lost.
UndoNobody(s) == Become(s, [slot[s] EXCEPT !.admin = NoAdmin, !.pc = "undoAdmin"])
Undo(s) == Become(s, [slot[s] EXCEPT !.email = NoEmail, !.name = NoName, !.pc = "undoAdmin"])

\* AdminCreateUser: with a temporary password, unless the pool knows the user name or
\* the address.  Any failure is answered by undoing the document.
CreateAccount(s) ==
    /\ At(s, "account")
    /\ \/ /\ ~Refused(slot[s].name, slot[s].email)
          /\ pool' = [pool EXCEPT ![slot[s].name] =
                        [email |-> slot[s].email, state |-> "temporary"]]
          /\ Become(s, [slot[s] EXCEPT !.email = NoEmail, !.pc = "password"])
       \/ Undo(s) /\ UNCHANGED pool
    /\ UNCHANGED <<admin, inst, founded, stranded, renamed>>

\* The creation is answered with success.
Succeed(s) ==
    /\ founded' = IF slot[s].op = "onboard" THEN founded \cup {slot[s].inst} ELSE founded
    /\ End(s)

\* Mutant: what fails after the password was set undoes the creation.
SetPasswordThenUndo(s) ==
    /\ At(s, "password")
    /\ pool' \in {pool, [pool EXCEPT ![slot[s].name].state = "ready"]}
    /\ Undo(s)
    /\ UNCHANGED <<admin, inst, founded, stranded, renamed>>

\* Mutant: an account whose password could not be set will do.
SetPasswordOrNot(s) ==
    /\ At(s, "password")
    /\ pool' \in {pool, [pool EXCEPT ![slot[s].name].state = "ready"]}
    /\ Succeed(s)
    /\ UNCHANGED <<admin, inst, stranded, renamed>>

\* AdminSetUserPassword: the account stays when it fails.  The app user of the address is
\* then marked as verified and moved to the institution (its document is modelled in
\* Onboarding), and what fails there is only logged: the creation has succeeded.
SetPassword(s) ==
    /\ At(s, "password")
    /\ \/ /\ pool' = [pool EXCEPT ![slot[s].name].state = "ready"]
          /\ Succeed(s)
       \/ Undo(s) /\ UNCHANGED <<pool, founded>>
    /\ UNCHANGED <<admin, inst, stranded, renamed>>

-----------------------------------------------------------------------------
(* Undoing a creation *)

\* findOneAndDelete; when it fails the failure is ignored, and an onboarding does not get
\* to its institution.
UndoAdmin(s) ==
    /\ At(s, "undoAdmin")
    /\ \/ /\ admin' = [admin EXCEPT ![slot[s].admin] = UndoneUser]
          /\ IF slot[s].op = "onboard"
             THEN Become(s, [slot[s] EXCEPT !.admin = NoAdmin, !.pc = "undoInst"]) ELSE End(s)
          /\ UNCHANGED stranded
       \/ /\ Cardinality(stranded) < MaxFailures
          /\ stranded' = stranded \cup {slot[s].admin}
                            \cup (IF slot[s].op = "onboard" THEN {slot[s].inst} ELSE {})
          /\ End(s)
          /\ UNCHANGED admin
    /\ UNCHANGED <<pool, inst, founded, renamed>>

\* Mutant: the record is removed, and its domain is free again.
RemoveInstitution(s) ==
    /\ At(s, "undoInst")
    /\ inst' = [inst EXCEPT ![slot[s].inst] = NoInstitution]
    /\ End(s)
    /\ UNCHANGED <<admin, pool, founded, stranded, renamed>>

UndoInstitution(s) ==
    /\ At(s, "undoInst")
    /\ \/ inst' = [inst EXCEPT ![slot[s].inst].state = "deleted"] /\ UNCHANGED stranded
       \/ /\ Cardinality(stranded) < MaxFailures
          /\ stranded' = stranded \cup {slot[s].inst} /\ UNCHANGED inst
    /\ End(s)
    /\ UNCHANGED <<admin, pool, founded, renamed>>

\* A look-up answers against the request, a row is rejected, or an awaited call fails, while nothing has
\* been written: the request fails.
Abort(s) ==
    /\ \/ slot[s].pc \in {"row", "institution", "findPhone", "found",
                          "check", "write"}
       \/ At(s, "insert") /\ slot[s].op = "create"
    /\ End(s)
    /\ StoresUnchanged

-----------------------------------------------------------------------------
(* update, deleteAdminUser *)

Given(r) == {f \in Fields : r[f] \notin {NoEmail, NoName, NoPhone}}
Changed(r) == {f \in Given(r) : r[f] # admin[r.admin][f]}
NextCheck(todo) == IF todo = {} THEN "write" ELSE "check"
Update(a, e, n, p) ==
    [Idle EXCEPT !.op = "update", !.admin = a, !.email = e, !.name = n, !.phone = p]
\* What equals the document as it was read is not looked for again.
Find(s, r) == Become(s, [r EXCEPT !.todo = Changed(r), !.pc = NextCheck(Changed(r))])

\* A request names the fields it changes; one field each is the bound of the model, the
\* rows of files name two.
StartUpdate(s, a) ==
    /\ At(s, "idle") /\ Live(a)
    /\ \/ /\ Cardinality(renamed) < MaxRenames
          /\ \/ \E e \in Emails : Find(s, Update(a, e, NoName, NoPhone))
             \/ \E n \in Names : Find(s, Update(a, NoEmail, n, NoPhone))
       \/ \E p \in Phones : Find(s, Update(a, NoEmail, NoName, p))
    /\ StoresUnchanged

\* The address first, then the user name, then the phone number.
FirstOf(todo) == IF "email" \in todo THEN "email" ELSE IF "name" \in todo THEN "name" ELSE "phone"

CheckDuplicate(s) ==
    /\ At(s, "check")
    /\ LET f == FirstOf(slot[s].todo)
           rest == slot[s].todo \ {f}
       IN  /\ ~Taken(f, slot[s][f], slot[s].admin)
           /\ Become(s, [slot[s] EXCEPT !.todo = rest, !.pc = NextCheck(rest)])
    /\ StoresUnchanged

\* The update goes by the identifier alone: it also writes to a document that was deleted
\* since it was read, and succeeds when there is none.  The pool is not told.
WriteAdmin(s) ==
    /\ At(s, "write")
    /\ LET r == slot[s]
           a == slot[s].admin
           G == Given(slot[s])
       IN  /\ Exists(a) => \A f \in G \cap {"email", "name"} : ~Indexed(f, r[f], a)
           /\ admin' = IF ~Exists(a) THEN admin ELSE
                [admin EXCEPT ![a].email = IF "email" \in G THEN r.email ELSE @,
                              ![a].name = IF "name" \in G THEN r.name ELSE @,
                              ![a].phone = IF "phone" \in G THEN r.phone ELSE @]
           /\ renamed' = IF Exists(a) /\ Changed(r) \cap {"email", "name"} # {}
                         THEN renamed \cup {a} ELSE renamed
    /\ End(s)
    /\ UNCHANGED <<pool, inst, founded, stranded>>

\* Mutant: the document is removed.
RemoveAdmin(a) ==
    /\ Live(a)
    /\ admin' = [admin EXCEPT ![a] = UndoneUser]
    /\ UNCHANGED <<pool, inst, slot, founded, stranded, renamed, raced>>

\* The account stays in the pool.
DeleteAdmin(a) ==
    /\ Live(a)
    /\ admin' = [admin EXCEPT ![a].state = "deleted"]
    /\ UNCHANGED <<pool, inst, slot, founded, stranded, renamed, raced>>

-----------------------------------------------------------------------------
(* processUpload: a file of administrators for one institution.  The rows are *)
(* handled one after the other, each by what was read of all of them at the    *)
(* start: a row that waits is a request of its own.  A dry run writes nothing. *)

\* The live administrator of the row's address is read; rows that repeat an address of
\* the file are rejected before.
ReadRow(s, e, i) ==
    /\ At(s, "idle")
    /\ \E known \in {a \in Admins : Live(a) /\ admin[a].email = e}
                   \cup (IF Taken("email", e, NoAdmin) THEN {} ELSE {NoAdmin}) :
          Become(s, [Idle EXCEPT !.pc = "row", !.op = "row", !.admin = known,
                                !.email = e, !.inst = i])
    /\ StoresUnchanged

\* An unknown row is created, its domain not validated.
CreateRow(s) ==
    /\ At(s, "row") /\ Room /\ slot[s].admin = NoAdmin
    /\ ~Indexed("email", slot[s].email, NoAdmin)
    /\ Become(s, [slot[s] EXCEPT !.pc = "institution", !.op = "create"])
    /\ StoresUnchanged

\* A known row, of a file that is to update them, is updated by the identifier that was
\* read at the start.
UpdateRow(s, p) ==
    /\ At(s, "row") /\ slot[s].admin # NoAdmin /\ Live(slot[s].admin)
    /\ Find(s, Update(slot[s].admin, slot[s].email, NoName, p))
    /\ StoresUnchanged

-----------------------------------------------------------------------------
Create(s) ==
    \/ \E e \in Emails : StartOnboard(s, e) \/ \E i \in Insts \cup {NoInst} : StartCreate(s, e, i)
    \/ FindInstitution(s)
    \/ \E p \in Phones \cup {NoPhone} : FindPhone(s, p)
    \/ DomainFree(s) \/ FoundInstitution(s) \/ LoseName(s) \/ MakeGroup(s)
    \/ \E n \in Names : Insert(s, n)
    \/ OnboardRefused(s) \/ CreateAccount(s) \/ SetPassword(s)
    \/ UndoAdmin(s) \/ UndoInstitution(s)

Change(s) ==
    \/ \E a \in Admins : StartUpdate(s, a)
    \/ CheckDuplicate(s) \/ WriteAdmin(s)

Row(s) ==
    \/ \E e \in Emails, i \in Insts : ReadRow(s, e, i)
    \/ CreateRow(s)
    \/ \E p \in Phones : UpdateRow(s, p)

Next ==
    \/ \E s \in Slots : Create(s) \/ Change(s) \/ Row(s) \/ Abort(s)
    \/ \E a \in Admins : DeleteAdmin(a)

Spec == Init /\ [][Next]_vars

-----------------------------------------------------------------------------
RequestOK(r) ==
    /\ r.pc \in Creating \cup {"check", "write"} => r.admin \in Admins
    /\ r.pc \in {"row", "institution"} => r.inst \in Insts
    /\ r.pc \in {"row", "institution", "findPhone", "domainFree", "found", "group", "insert",
                  "account"} => r.email \in Emails
    /\ r.pc \in {"account", "password"} => r.name \in Names
    /\ r.op = "onboard" /\ r.pc \in Creating \cup Founding => r.inst \in Insts
    /\ r.pc \in {"domainFree", "found", "group", "undoInst"} => r.op = "onboard"
    /\ r.pc \in {"institution", "findPhone", "domainFree", "found"} \cup Founding
          => r.admin = NoAdmin
    /\ r.pc \in Creating => r.phone = NoPhone
    /\ r.pc # "check" => r.todo = {}

TypeOK ==
    /\ admin \in [Admins -> AdminUser]
    /\ pool \in [Names -> Account]
    /\ inst \in [Insts -> Institution]
    /\ slot \in [Slots -> Request] /\ \A s \in Slots : RequestOK(slot[s])
    /\ founded \subseteq Insts
    /\ stranded \subseteq Insts \cup Admins
    /\ renamed \subseteq Admins /\ raced \subseteq Phones

\* An institution that was onboarded is active only when its onboarding was answered
\* with success, is still under way, or could not be undone (createOnboardingAdminUser).
FailedOnboardingsUndone ==
    \A i \in Insts :
        inst[i].state = "active" => i \in founded \/ i \in stranded \/ Held(i)

\* An administrator whose creation is over has an account to sign in with, under the
\* name and the address of its document, unless these were updated since: update
\* does not tell the pool, and some undoings fail (createAdminUser, update).
AdminsCanSignIn ==
    \A a \in Admins :
        Live(a) /\ ~InFlight(a) /\ a \notin renamed /\ a \notin stranded
            => pool[admin[a].name] = [email |-> admin[a].email, state |-> "ready"]

\* Nobody can sign in for whom there is no document: undoing a creation never
\* removes an administrator whose account is ready, whatever fails afterwards.
ReadyAccountsHeld ==
    \A n \in Names :
        pool[n].state = "ready" => \E a \in Admins :
            Exists(a) /\ (admin[a].name = n \/ a \in renamed)

\* Accounts and documents match, both ways.
AccountsMatch == AdminsCanSignIn /\ ReadyAccountsHeld

\* Two administrators share a phone number only if two requests carried it at the same
\* time: no index backs the look-ups (createAdminUser, update, processUpload).
PhonesSharedByRaces ==
    \A a, b \in Admins :
        a # b /\ Live(a) /\ Live(b) /\ admin[a].phone = admin[b].phone
            => admin[a].phone \in raced \cup {NoPhone}

\* How far the making of an administrator, and of an institution, has come.
AdminPhase(a) ==
    CASE admin[a].state = "absent" -> "none"
      [] admin[a].state = "undone" -> "undone"
      [] Exists(a) /\ InFlight(a) -> "pending"
      [] Exists(a) /\ ~InFlight(a) -> IF a \in stranded THEN "left" ELSE "kept"
InstPhase(i) ==
    CASE inst[i].state = "absent" -> "none"
      [] inst[i].state = "deleted" -> "undone"
      [] inst[i].state = "active" /\ Held(i) -> "pending"
      [] inst[i].state = "active" /\ ~Held(i) -> IF i \in stranded THEN "left" ELSE "kept"

Creation == INSTANCE Compensation WITH
    Items <- Admins, phase <- [a \in Admins |-> AdminPhase(a)]
Foundation == INSTANCE Compensation WITH
    Items <- Insts, phase <- [i \in Insts |-> InstPhase(i)]

\* Administrators are made as Compensation has it: what others do while one is made, and a
\* later failure, never undo one whose creation is over (createAdminUser).
AdminsCompensated == Creation!Spec

\* So are institutions: none that an onboarding was answered with is ever taken back, and
\* the onboarding that takes one back is the one that made it (createOnboardingAdminUser).
InstitutionsCompensated == Foundation!Spec

\* Both are undone, or kept for good, as Compensation has it.
Compensated == AdminsCompensated /\ InstitutionsCompensated
=============================================================================
