------------------------- MODULE AdministrationProofs -------------------------
(***************************************************************************)
(* Proofs about Administration, for any number of requests,                *)
(* administrators, institutions, addresses and names.                      *)
(***************************************************************************)
EXTENDS Administration, TLAPS

\* What a step does to the slots is one of these.
Took(s, r) == Become(s, r) /\ r \in Request /\ RequestOK(r)

LEMMA IdleTyped == Idle \in Request /\ RequestOK(Idle)
BY DEF Idle, Request, Labels, Creating, Founding, RequestOK

LEMMA TookTyped ==
    ASSUME TypeOK, NEW s \in Slots, NEW r, Took(s, r)
    PROVE  /\ slot' \in [Slots -> Request] /\ \A t \in Slots : RequestOK(slot'[t])
           /\ raced' \subseteq Phones
BY DEF Took, TypeOK, Become, Carried

LEMMA SlotTyped == ASSUME TypeOK, NEW s \in Slots PROVE slot[s] \in Request /\ RequestOK(slot[s])
BY DEF TypeOK

LEMMA EndTyped == ASSUME NEW s \in Slots, End(s) PROVE Took(s, Idle)
BY IdleTyped DEF End, Took

LEMMA UndoTyped ==
    ASSUME TypeOK, NEW s \in Slots, slot[s].pc \in {"account", "password"}, Undo(s)
    PROVE  \E r : Took(s, r)
<1> DEFINE r == [slot[s] EXCEPT !.email = NoEmail, !.name = NoName, !.pc = "undoAdmin"]
<1>1. r \in Request /\ RequestOK(r)
  BY SlotTyped DEF Request, RequestOK, Labels, Creating, Founding
<1> QED BY <1>1 DEF Undo, Took

LEMMA FindTyped ==
    ASSUME TypeOK, NEW s \in Slots, NEW a \in Admins, NEW e \in Emails \cup {NoEmail},
           NEW n \in Names \cup {NoName}, NEW p \in Phones \cup {NoPhone},
           Find(s, Update(a, e, n, p))
    PROVE  \E r : Took(s, r)
<1> DEFINE q == Update(a, e, n, p)
           C == Changed(q)
           r == [q EXCEPT !.todo = C, !.pc = NextCheck(C)]
<1>1. q \in Request /\ q.op = "update" /\ q.admin = a
  BY IdleTyped DEF Update, Request
<1>2. C \subseteq Fields /\ (NextCheck(C) = "check" \/ (NextCheck(C) = "write" /\ C = {}))
  BY DEF Changed, Given, NextCheck
<1> DEFINE l == NextCheck(C)
<1>3. Become(s, [q EXCEPT !.todo = C, !.pc = l]) BY DEF Find
<1> HIDE DEF C, q, l
<1>4. [q EXCEPT !.todo = C, !.pc = l] \in Request /\ RequestOK([q EXCEPT !.todo = C, !.pc = l])
  BY <1>1, <1>2 DEF Request, RequestOK, Labels, Creating, Founding, l
<1> QED BY <1>3, <1>4 DEF Took

\* The slot of a request that is on its way to its first write.
LEMMA CreateTyped ==
    ASSUME TypeOK, NEW s \in Slots, Create(s)
    PROVE  \E r : Took(s, r)
<1> USE SlotTyped
<1>1. ASSUME NEW e \in Emails, StartOnboard(s, e) PROVE \E r : Took(s, r)
  <2> DEFINE r == [Idle EXCEPT !.pc = "findPhone", !.op = "onboard", !.email = e]
  <2>1. r \in Request /\ RequestOK(r)
    BY DEF Idle, Request, RequestOK, Labels, Creating, Founding
  <2> QED BY <1>1, <2>1 DEF StartOnboard, Took
<1>2. ASSUME NEW e \in Emails, NEW i \in Insts \cup {NoInst}, StartCreate(s, e, i)
      PROVE  \E r : Took(s, r)
  <2> DEFINE l == IF i = NoInst THEN "findPhone" ELSE "institution"
             r == [Idle EXCEPT !.pc = l, !.op = "create", !.email = e, !.inst = i]
  <2>1. l = "findPhone" \/ (l = "institution" /\ i \in Insts)
    BY <1>2
  <2>2. Took(s, r)
    <3>1. Become(s, r) BY <1>2 DEF StartCreate
    <3> HIDE DEF l
    <3>2. r \in Request /\ RequestOK(r)
      BY <2>1 DEF Idle, Request, RequestOK, Labels, Creating, Founding
    <3> QED BY <3>1, <3>2 DEF Took
  <2> QED BY <2>2
<1>3. ASSUME FindInstitution(s) PROVE \E r : Took(s, r)
  <2> DEFINE r == [slot[s] EXCEPT !.inst = NoInst, !.pc = "findPhone"]
  <2>a. slot[s].pc = "institution" BY <1>3 DEF FindInstitution, At
  <2>1. r \in Request /\ RequestOK(r)
    BY <2>a DEF Request, RequestOK, Labels, Creating, Founding
  <2> QED BY <1>3, <2>1 DEF FindInstitution, Took
<1>4. ASSUME NEW p \in Phones \cup {NoPhone}, FindPhone(s, p) PROVE \E r : Took(s, r)
  <2> DEFINE r == [slot[s] EXCEPT !.phone = p, !.pc = AfterPhone(slot[s])]
  <2>1. CASE slot[s].op = "onboard"
    <3>1. r \in Request /\ RequestOK(r)
      BY <1>4, <2>1 DEF FindPhone, At, AfterPhone, Request, RequestOK, Labels, Creating, Founding
    <3> QED BY <1>4, <3>1 DEF FindPhone, Took
  <2>2. CASE slot[s].op # "onboard"
    <3>1. r \in Request /\ RequestOK(r)
      BY <1>4, <2>2 DEF FindPhone, At, AfterPhone, Request, RequestOK, Labels, Creating, Founding
    <3> QED BY <1>4, <3>1 DEF FindPhone, Took
  <2> QED BY <2>1, <2>2
<1>5. ASSUME DomainFree(s) PROVE \E r : Took(s, r)
  <2> DEFINE r == [slot[s] EXCEPT !.pc = "found"]
  <2>1. r \in Request /\ RequestOK(r)
    BY <1>5 DEF DomainFree, At, Request, RequestOK, Labels, Creating, Founding
  <2> QED BY <1>5, <2>1, EndTyped DEF DomainFree, Goto, Took
<1>6. ASSUME FoundInstitution(s) PROVE \E r : Took(s, r)
  <2> PICK i \in Insts : Become(s, [slot[s] EXCEPT !.inst = i, !.pc = "group"])
    BY <1>6 DEF FoundInstitution
  <2> DEFINE r == [slot[s] EXCEPT !.inst = i, !.pc = "group"]
  <2>1. r \in Request /\ RequestOK(r)
    BY <1>6 DEF FoundInstitution, At, Request, RequestOK, Labels, Creating, Founding
  <2> QED BY <2>1 DEF Took
<1>7. ASSUME LoseName(s) PROVE \E r : Took(s, r)
  BY <1>7, EndTyped DEF LoseName
<1>8. ASSUME MakeGroup(s) PROVE \E r : Took(s, r)
  <2> DEFINE r == [slot[s] EXCEPT !.pc = "insert"]
  <2>1. r \in Request /\ RequestOK(r)
    BY <1>8 DEF MakeGroup, At, Request, RequestOK, Labels, Creating, Founding
  <2> QED BY <1>8, <2>1 DEF MakeGroup, Goto, Took
<1>9. ASSUME NEW n \in Names, Insert(s, n) PROVE \E r : Took(s, r)
  <2> PICK a \in Admins :
        Become(s, [slot[s] EXCEPT !.admin = a, !.name = n, !.phone = NoPhone, !.pc = "account"])
    BY <1>9 DEF Insert
  <2> DEFINE r == [slot[s] EXCEPT !.admin = a, !.name = n, !.phone = NoPhone, !.pc = "account"]
  <2>1. r \in Request /\ RequestOK(r)
    BY <1>9 DEF Insert, At, Request, RequestOK, Labels, Creating, Founding
  <2> QED BY <2>1 DEF Took
<1>10. ASSUME OnboardRefused(s) PROVE \E r : Took(s, r)
  <2> DEFINE r == [Idle EXCEPT !.pc = "undoInst", !.op = "onboard", !.inst = slot[s].inst]
  <2>1. r \in Request /\ RequestOK(r)
    BY <1>10 DEF OnboardRefused, At, Idle, Request, RequestOK, Labels, Creating, Founding
  <2> QED BY <1>10, <2>1 DEF OnboardRefused, Took
<1>11. ASSUME CreateAccount(s) PROVE \E r : Took(s, r)
  <2> DEFINE r == [slot[s] EXCEPT !.email = NoEmail, !.pc = "password"]
  <2>1. r \in Request /\ RequestOK(r)
    BY <1>11 DEF CreateAccount, At, Request, RequestOK, Labels, Creating, Founding
  <2>2. CASE Become(s, r) BY <2>1, <2>2 DEF Took
  <2>3. CASE Undo(s) BY <1>11, <2>3, UndoTyped DEF CreateAccount, At
  <2> QED BY <1>11, <2>2, <2>3 DEF CreateAccount
<1>12. ASSUME SetPassword(s) PROVE \E r : Took(s, r)
  BY <1>12, EndTyped, UndoTyped DEF SetPassword, Succeed, At
<1>13. ASSUME UndoAdmin(s) PROVE \E r : Took(s, r)
  <2> DEFINE r == [slot[s] EXCEPT !.admin = NoAdmin, !.pc = "undoInst"]
  <2>1. CASE slot[s].op = "onboard" /\ Become(s, r)
    <3>1. r \in Request /\ RequestOK(r)
      BY <1>13, <2>1 DEF UndoAdmin, At, Request, RequestOK, Labels, Creating, Founding
    <3> QED BY <2>1, <3>1 DEF Took
  <2>2. CASE End(s) BY <2>2, EndTyped
  <2> QED BY <1>13, <2>1, <2>2 DEF UndoAdmin
<1>14. ASSUME UndoInstitution(s) PROVE \E r : Took(s, r)
  BY <1>14, EndTyped DEF UndoInstitution
<1> QED
  BY <1>1, <1>2, <1>3, <1>4, <1>5, <1>6, <1>7, <1>8, <1>9, <1>10, <1>11, <1>12, <1>13, <1>14
  DEF Create

LEMMA ChangeTyped ==
    ASSUME TypeOK, NEW s \in Slots, Change(s)
    PROVE  \E r : Took(s, r)
<1>1. ASSUME NEW a \in Admins, StartUpdate(s, a) PROVE \E r : Took(s, r)
  BY <1>1, FindTyped DEF StartUpdate
<1>2. ASSUME CheckDuplicate(s) PROVE \E r : Took(s, r)
  <2> DEFINE f == FirstOf(slot[s].todo)
             rest == slot[s].todo \ {f}
             l == NextCheck(rest)
  <2>1. l = "check" \/ (l = "write" /\ rest = {}) BY DEF NextCheck
  <2>2. Become(s, [slot[s] EXCEPT !.todo = rest, !.pc = l])
    BY <1>2 DEF CheckDuplicate
  <2>3. slot[s].pc = "check" /\ rest \subseteq Fields
    BY <1>2, SlotTyped DEF CheckDuplicate, At, Request
  <2> HIDE DEF rest, l
  <2>4. /\ [slot[s] EXCEPT !.todo = rest, !.pc = l] \in Request
        /\ RequestOK([slot[s] EXCEPT !.todo = rest, !.pc = l])
    BY <2>1, <2>3, SlotTyped DEF Request, RequestOK, Labels, Creating, Founding
  <2> QED BY <2>2, <2>4 DEF Took
<1>3. ASSUME WriteAdmin(s) PROVE \E r : Took(s, r)
  BY <1>3, EndTyped DEF WriteAdmin
<1> QED BY <1>1, <1>2, <1>3 DEF Change

LEMMA RowTyped ==
    ASSUME TypeOK, NEW s \in Slots, Row(s)
    PROVE  \E r : Took(s, r)
<1>1. ASSUME NEW e \in Emails, NEW i \in Insts, ReadRow(s, e, i) PROVE \E r : Took(s, r)
  <2> PICK known \in Admins \cup {NoAdmin} :
        Become(s, [Idle EXCEPT !.pc = "row", !.op = "row", !.admin = known,
                              !.email = e, !.inst = i])
    BY <1>1 DEF ReadRow
  <2> DEFINE r == [Idle EXCEPT !.pc = "row", !.op = "row", !.admin = known,
                              !.email = e, !.inst = i]
  <2>1. r \in Request /\ RequestOK(r)
    BY DEF Idle, Request, RequestOK, Labels, Creating, Founding
  <2> QED BY <2>1 DEF Took
<1>2. ASSUME CreateRow(s) PROVE \E r : Took(s, r)
  <2> DEFINE r == [slot[s] EXCEPT !.pc = "institution", !.op = "create"]
  <2>1. r \in Request /\ RequestOK(r)
    BY <1>2, SlotTyped DEF CreateRow, At, Request, RequestOK, Labels, Creating, Founding
  <2> QED BY <1>2, <2>1 DEF CreateRow, Took
<1>3. ASSUME NEW p \in Phones, UpdateRow(s, p) PROVE \E r : Took(s, r)
  BY <1>3, FindTyped, SlotTyped DEF UpdateRow, Request
<1> QED BY <1>1, <1>2, <1>3 DEF Row

LEMMA AbortTyped == ASSUME NEW s \in Slots, Abort(s) PROVE \E r : Took(s, r)
BY EndTyped DEF Abort

-----------------------------------------------------------------------------
(* The stores *)

StoresTyped ==
    /\ admin \in [Admins -> AdminUser]
    /\ pool \in [Names -> Account]
    /\ inst \in [Insts -> Institution]
    /\ founded \subseteq Insts
    /\ stranded \subseteq Insts \cup Admins
    /\ renamed \subseteq Admins

LEMMA CreateStoresTyped ==
    ASSUME TypeOK, NEW s \in Slots, Create(s)
    PROVE  StoresTyped'
<1> USE SlotTyped DEF StoresTyped
<1>1. CASE StoresUnchanged BY <1>1 DEF StoresUnchanged, TypeOK
<1>2. CASE FoundInstitution(s)
  <2> PICK i \in Insts :
        inst' = [inst EXCEPT ![i] = [domain |-> Domain[slot[s].email],
                                     group |-> FALSE, state |-> "active"]]
    BY <1>2 DEF FoundInstitution
  <2>1. Domain[slot[s].email] \in Domains
    BY <1>2, DomainAssumption DEF FoundInstitution, At, RequestOK
  <2>2. [domain |-> Domain[slot[s].email], group |-> FALSE, state |-> "active"] \in Institution
    BY <2>1 DEF Institution
  <2> HIDE DEF StoresTyped
  <2>3. inst' \in [Insts -> Institution] BY <2>2 DEF TypeOK
  <2> QED BY <1>2, <2>3 DEF FoundInstitution, TypeOK, StoresTyped
<1>3. CASE LoseName(s)
  BY <1>3 DEF LoseName, TypeOK, At, RequestOK, Founding
<1>4. CASE MakeGroup(s)
  <2> PICK made \in BOOLEAN : inst' = [inst EXCEPT ![slot[s].inst].group = made]
    BY <1>4, GroupAssumption DEF MakeGroup
  <2>1. inst' \in [Insts -> Institution] BY DEF TypeOK, Institution
  <2> QED BY <1>4, <2>1 DEF MakeGroup, TypeOK
<1>5. ASSUME NEW n \in Names, Insert(s, n) PROVE StoresTyped'
  <2> DEFINE d == [state |-> "live", email |-> slot[s].email, name |-> n, phone |-> slot[s].phone]
  <2>1. d \in AdminUser BY <1>5 DEF Insert, At, AdminUser, Request
  <2>2. PICK a \in Admins : admin' = [admin EXCEPT ![a] = d] BY <1>5 DEF Insert
  <2> HIDE DEF d
  <2>3. admin' \in [Admins -> AdminUser] BY <2>1, <2>2 DEF TypeOK
  <2> QED BY <1>5, <2>3 DEF Insert, TypeOK
<1>6. CASE CreateAccount(s)
  <2> DEFINE c == [email |-> slot[s].email, state |-> "temporary"]
  <2>1. c \in Account BY DEF Account, Request
  <2>2. pool' = pool \/ pool' = [pool EXCEPT ![slot[s].name] = c] BY <1>6 DEF CreateAccount
  <2> HIDE DEF c
  <2>3. pool' \in [Names -> Account] BY <2>1, <2>2 DEF TypeOK
  <2> QED BY <1>6, <2>3 DEF CreateAccount, TypeOK
<1>7. CASE SetPassword(s)
  <2>1. pool' = pool \/ pool' = [pool EXCEPT ![slot[s].name].state = "ready"]
    BY <1>7 DEF SetPassword
  <2>2. pool' \in [Names -> Account] BY <2>1 DEF TypeOK, Account
  <2>3. founded' \subseteq Insts
    BY <1>7 DEF SetPassword, Succeed, TypeOK, At, RequestOK, Creating
  <2> QED BY <1>7, <2>2, <2>3 DEF SetPassword, TypeOK
<1>8. CASE UndoAdmin(s)
  <2>1. UndoneUser \in AdminUser BY DEF UndoneUser, NoAdminUser, AdminUser
  <2>2. admin' = admin \/ admin' = [admin EXCEPT ![slot[s].admin] = UndoneUser]
    BY <1>8 DEF UndoAdmin
  <2>3. admin' \in [Admins -> AdminUser] BY <2>1, <2>2 DEF TypeOK
  <2>4. stranded' \subseteq Insts \cup Admins
    BY <1>8 DEF UndoAdmin, TypeOK, At, RequestOK, Creating
  <2> QED BY <1>8, <2>3, <2>4 DEF UndoAdmin, TypeOK
<1>9. CASE UndoInstitution(s)
  <2>1. inst' = inst \/ inst' = [inst EXCEPT ![slot[s].inst].state = "deleted"]
    BY <1>9 DEF UndoInstitution
  <2>2. inst' \in [Insts -> Institution] BY <2>1 DEF TypeOK, Institution
  <2>3. stranded' \subseteq Insts \cup Admins
    BY <1>9 DEF UndoInstitution, TypeOK, At, RequestOK, Founding
  <2> QED BY <1>9, <2>2, <2>3 DEF UndoInstitution, TypeOK
<1> QED
  BY <1>1, <1>2, <1>3, <1>4, <1>5, <1>6, <1>7, <1>8, <1>9
  DEF Create, StartOnboard, StartCreate, FindInstitution, FindPhone, DomainFree, OnboardRefused

\* What an update writes.
LEMMA Written ==
    ASSUME TypeOK, NEW s \in Slots, WriteAdmin(s), NEW a \in Admins, a = slot[s].admin
    PROVE  /\ admin' \in [Admins -> AdminUser]
           /\ \A b \in Admins : b # a => admin'[b] = admin[b]
           /\ admin'[a].state = admin[a].state
           /\ admin'[a].phone \in {admin[a].phone, slot[s].phone}
           /\ (admin'[a].email = admin[a].email /\ admin'[a].name = admin[a].name)
                \/ ~Exists(a) \/ a \in renamed'
<1> DEFINE r == slot[s]
           G == Given(slot[s])
           x == IF "email" \in G THEN r.email ELSE admin[a].email
           y == IF "name" \in G THEN r.name ELSE admin[a].name
           z == IF "phone" \in G THEN r.phone ELSE admin[a].phone
<1>1. \/ ~Exists(a) /\ admin' = admin
      \/ Exists(a) /\ admin' = [admin EXCEPT ![a].email = x, ![a].name = y, ![a].phone = z]
  BY DEF WriteAdmin, TypeOK, AdminUser
<1>2. slot[s] \in Request BY SlotTyped
<1>3. x \in Emails \cup {NoEmail} /\ y \in Names \cup {NoName} /\ z \in Phones \cup {NoPhone}
  BY <1>2 DEF TypeOK, Request, AdminUser
<1>4. z \in {admin[a].phone, slot[s].phone} OBVIOUS
<1>5. Exists(a) => (x = admin[a].email /\ y = admin[a].name) \/ a \in renamed'
  <2> HAVE Exists(a)
  <2>1. Changed(r) \cap {"email", "name"} # {} => a \in renamed' BY DEF WriteAdmin
  <2>2. "email" \in G /\ x # admin[a].email => "email" \in Changed(r) BY DEF Changed
  <2>3. "name" \in G /\ y # admin[a].name => "name" \in Changed(r) BY DEF Changed
  <2> QED BY <2>1, <2>2, <2>3
<1> HIDE DEF x, y, z
<1>6. CASE ~Exists(a) /\ admin' = admin BY <1>6 DEF TypeOK
<1>7. CASE Exists(a) /\ admin' = [admin EXCEPT ![a].email = x, ![a].name = y, ![a].phone = z]
  <2> DEFINE f1 == [admin EXCEPT ![a].email = x]
             f2 == [f1 EXCEPT ![a].name = y]
             f3 == [f2 EXCEPT ![a].phone = z]
  <2>1. /\ f1 \in [Admins -> AdminUser] /\ \A b \in Admins : b # a => f1[b] = admin[b]
        /\ f1[a].email = x /\ f1[a].name = admin[a].name /\ f1[a].phone = admin[a].phone
        /\ f1[a].state = admin[a].state
    BY <1>3 DEF TypeOK, AdminUser
  <2> HIDE DEF f1
  <2>2. /\ f2 \in [Admins -> AdminUser] /\ \A b \in Admins : b # a => f2[b] = f1[b]
        /\ f2[a].email = f1[a].email /\ f2[a].name = y /\ f2[a].state = f1[a].state
    BY <1>3, <2>1 DEF AdminUser
  <2> HIDE DEF f2
  <2>3. /\ f3 \in [Admins -> AdminUser] /\ \A b \in Admins : b # a => f3[b] = f2[b]
        /\ f3[a].email = f2[a].email /\ f3[a].name = f2[a].name /\ f3[a].phone = z
        /\ f3[a].state = f2[a].state
    BY <1>3, <2>2 DEF AdminUser
  <2>4. admin' = f3 BY <1>7 DEF f1, f2
  <2> HIDE DEF f3
  <2> HIDE DEF r, G
  <2>5. admin' \in [Admins -> AdminUser] BY <2>3, <2>4
  <2>6. \A b \in Admins : b # a => admin'[b] = admin[b] BY <2>1, <2>2, <2>3, <2>4
  <2>7. admin'[a].state = admin[a].state BY <2>1, <2>2, <2>3, <2>4
  <2>8. admin'[a].phone \in {admin[a].phone, slot[s].phone} BY <1>4, <2>3, <2>4
  <2>9. admin'[a].email = x /\ admin'[a].name = y BY <2>1, <2>2, <2>3, <2>4
  <2>10. (admin'[a].email = admin[a].email /\ admin'[a].name = admin[a].name) \/ a \in renamed'
    BY <1>5, <1>7, <2>9
  <2> QED BY <2>5, <2>6, <2>7, <2>8, <2>10
<1> QED BY <1>1, <1>6, <1>7

LEMMA WriteStoresTyped ==
    ASSUME TypeOK, NEW s \in Slots, WriteAdmin(s)
    PROVE  StoresTyped'
<1>1. PICK a \in Admins : a = slot[s].admin BY SlotTyped DEF WriteAdmin, At, RequestOK
<1>2. admin' \in [Admins -> AdminUser] BY <1>1, Written
<1>3. renamed' \subseteq Admins BY <1>1 DEF WriteAdmin, TypeOK
<1> QED BY <1>2, <1>3 DEF WriteAdmin, StoresTyped, TypeOK

\* Type correctness: the documents, the accounts, the institutions and the requests have
\* the shape the model gives them, and a request in hand has the fields its place in the
\* code uses.
THEOREM AdministrationTyped == Spec => []TypeOK
<1>1. Init => TypeOK
  BY IdleTyped DEF Init, TypeOK, AdminUser, NoAdminUser, Account, NoAccount, Institution, NoInstitution
<1>2. TypeOK /\ [Next]_vars => TypeOK'
  <2> SUFFICES ASSUME TypeOK, [Next]_vars PROVE TypeOK'
    OBVIOUS
  <2>1. ASSUME NEW s \in Slots, NEW r, Took(s, r), StoresTyped' PROVE TypeOK'
    BY <2>1, TookTyped DEF TypeOK, StoresTyped
  <2>2. ASSUME NEW s \in Slots, Create(s) PROVE TypeOK'
    BY <2>1, <2>2, CreateTyped, CreateStoresTyped
  <2>3. ASSUME NEW s \in Slots, Change(s) PROVE TypeOK'
    <3>1. StoresTyped'
      BY <2>3, WriteStoresTyped DEF Change, StartUpdate, CheckDuplicate, StoresUnchanged, TypeOK, StoresTyped
    <3> QED BY <2>1, <2>3, <3>1, ChangeTyped
  <2>4. ASSUME NEW s \in Slots, Row(s) PROVE TypeOK'
    <3>1. StoresTyped'
      BY <2>4 DEF Row, ReadRow, CreateRow, UpdateRow, StoresUnchanged, TypeOK, StoresTyped
    <3> QED BY <2>1, <2>4, <3>1, RowTyped
  <2>5. ASSUME NEW s \in Slots, Abort(s) PROVE TypeOK'
    <3>1. StoresTyped' BY <2>5 DEF Abort, StoresUnchanged, TypeOK, StoresTyped
    <3> QED BY <2>1, <2>5, <3>1, AbortTyped
  <2>6. ASSUME NEW a \in Admins, DeleteAdmin(a) PROVE TypeOK'
    <3>1. admin' \in [Admins -> AdminUser] BY <2>6 DEF DeleteAdmin, TypeOK, AdminUser
    <3> QED BY <2>6, <3>1 DEF DeleteAdmin, TypeOK
  <2>7. CASE UNCHANGED vars BY <2>7 DEF vars, TypeOK
  <2> QED BY <2>2, <2>3, <2>4, <2>5, <2>6, <2>7 DEF Next
<1> QED BY <1>1, <1>2, PTL DEF Spec

-----------------------------------------------------------------------------
(* Institutions: an onboarding keeps hold of its institution until it has   *)
(* been answered, has taken it back, or has failed to.                      *)

Holds(r, i) == r.op = "onboard" /\ r.inst = i /\ r.pc \in Creating \cup Founding

LEMMA HeldKept ==
    ASSUME TypeOK, NEW s \in Slots, NEW r, Become(s, r), NEW i \in Insts,
           Holds(slot[s], i) => Holds(r, i), Held(i)
    PROVE  Held(i)'
<1> PICK t \in Slots : Holds(slot[t], i) BY DEF Held, Holds
<1>1. Holds(slot'[t], i) BY DEF Become, TypeOK
<1> QED BY <1>1 DEF Held, Holds

\* Steps that let go of nothing and leave the institutions alone.
LEMMA HeldFrame ==
    ASSUME TypeOK, FailedOnboardingsUndone, NEW s \in Slots, NEW r, Become(s, r),
           UNCHANGED inst, founded \subseteq founded', stranded \subseteq stranded',
           \A i \in Insts : Holds(slot[s], i) => Holds(r, i)
    PROVE  FailedOnboardingsUndone'
BY HeldKept DEF FailedOnboardingsUndone

\* Steps of requests that hold no institution.
LEMMA HeldQuiet ==
    ASSUME TypeOK, FailedOnboardingsUndone, NEW s \in Slots, NEW r, Become(s, r),
           UNCHANGED <<inst, founded, stranded>>,
           slot[s].op # "onboard" \/ slot[s].pc \notin Creating \cup Founding
    PROVE  FailedOnboardingsUndone'
BY HeldFrame DEF Holds

LEMMA CreateUndone ==
    ASSUME TypeOK, FailedOnboardingsUndone, NEW s \in Slots, Create(s)
    PROVE  FailedOnboardingsUndone'
<1> USE SlotTyped
<1>1. PICK r : Took(s, r) BY CreateTyped
<1>2. Become(s, r) BY <1>1 DEF Took
<1>3. ASSUME slot[s].pc \notin Creating \cup Founding, StoresUnchanged
      PROVE  FailedOnboardingsUndone'
  BY <1>2, <1>3, HeldQuiet DEF StoresUnchanged
<1>4. slot' = [slot EXCEPT ![s] = r] BY <1>2 DEF Become
<1>5. slot'[s] = r BY <1>4 DEF TypeOK
<1>6. CASE FoundInstitution(s)
  <2> PICK i \in Insts :
        /\ inst' = [inst EXCEPT ![i] = [domain |-> Domain[slot[s].email],
                                        group |-> FALSE, state |-> "active"]]
        /\ Become(s, [slot[s] EXCEPT !.inst = i, !.pc = "group"])
    BY <1>6 DEF FoundInstitution
  <2>1. slot[s].pc = "found" /\ slot[s].op = "onboard"
    BY <1>6 DEF FoundInstitution, At, RequestOK
  <2>2. Holds(slot'[s], i)
    BY <2>1 DEF Become, TypeOK, Holds, Founding, Request
  <2>3. Held(i)' BY <2>2 DEF Holds, Held
  <2>4. ASSUME NEW j \in Insts, j # i, Held(j) PROVE Held(j)'
    BY <1>2, <2>1, <2>4, HeldKept DEF Holds, Creating, Founding
  <2>5. \A j \in Insts : j # i => inst'[j] = inst[j] BY DEF TypeOK
  <2> QED BY <1>6, <2>3, <2>4, <2>5 DEF FailedOnboardingsUndone, FoundInstitution
<1>7. CASE LoseName(s)
  <2>1. \A j \in Insts : Holds(slot[s], j) => j \in stranded'
    BY <1>7 DEF LoseName, Holds
  <2>2. ASSUME NEW j \in Insts, Held(j), ~Holds(slot[s], j) PROVE Held(j)'
    BY <1>2, <2>2, HeldKept
  <2> QED BY <1>7, <2>1, <2>2 DEF FailedOnboardingsUndone, LoseName
<1>8. CASE MakeGroup(s)
  <2>1. \A j \in Insts : inst'[j].state = inst[j].state
    BY <1>8 DEF MakeGroup, TypeOK, Institution
  <2>2. \A j \in Insts : Holds(slot[s], j) => Holds(slot'[s], j)
    BY <1>8 DEF MakeGroup, Goto, Become, TypeOK, Holds, Founding, Request
  <2>3. \A j \in Insts : Held(j) => Held(j)' BY <1>2, <1>5, <2>2, HeldKept
  <2> QED BY <1>8, <2>1, <2>3 DEF FailedOnboardingsUndone, MakeGroup
<1>9. ASSUME NEW n \in Names, Insert(s, n) PROVE FailedOnboardingsUndone'
  <2>1. \A j \in Insts : Holds(slot[s], j) => Holds(slot'[s], j)
    BY <1>9 DEF Insert, Become, TypeOK, Holds, Creating, Request
  <2> QED BY <1>2, <1>5, <1>9, <2>1, HeldFrame DEF Insert
<1>10. CASE OnboardRefused(s)
  <2>1. \A j \in Insts : Holds(slot[s], j) => Holds(slot'[s], j)
    BY <1>10 DEF OnboardRefused, Become, TypeOK, Holds, Founding, Request, Idle
  <2> QED BY <1>2, <1>5, <1>10, <2>1, HeldFrame DEF OnboardRefused, StoresUnchanged
<1>11. ASSUME Undo(s) PROVE \A j \in Insts : Holds(slot[s], j) => Holds(slot'[s], j)
  BY <1>11 DEF Undo, Become, TypeOK, Holds, Creating, Request
<1>12. CASE CreateAccount(s)
  <2>1. \A j \in Insts : Holds(slot[s], j) => Holds(slot'[s], j)
    <3>1. CASE Undo(s) BY <1>11, <3>1
    <3>2. CASE Become(s, [slot[s] EXCEPT !.email = NoEmail, !.pc = "password"])
      BY <3>2 DEF Become, TypeOK, Holds, Creating, Request
    <3> QED BY <1>12, <3>1, <3>2 DEF CreateAccount
  <2> QED BY <1>2, <1>5, <1>12, <2>1, HeldFrame DEF CreateAccount
<1>13. CASE SetPassword(s)
  <2>1. CASE Undo(s) /\ UNCHANGED founded
    BY <1>2, <1>5, <1>11, <1>13, <2>1, HeldFrame DEF SetPassword
  <2>2. CASE Succeed(s)
    <3>1. \A j \in Insts : Holds(slot[s], j) => j \in founded'
      BY <2>2 DEF Succeed, Holds
    <3>2. ASSUME NEW j \in Insts, Held(j), ~Holds(slot[s], j) PROVE Held(j)'
      BY <1>2, <3>2, HeldKept
    <3>3. founded \subseteq founded' BY <2>2 DEF Succeed
    <3> QED BY <1>13, <3>1, <3>2, <3>3 DEF FailedOnboardingsUndone, SetPassword
  <2> QED BY <1>13, <2>1, <2>2 DEF SetPassword
<1>14. CASE UndoAdmin(s)
  <2>1. stranded \subseteq stranded' /\ UNCHANGED <<inst, founded>> BY <1>14 DEF UndoAdmin
  <2>2. \A j \in Insts : Holds(slot[s], j) => j \in stranded' \/ Holds(slot'[s], j)
    <3>1. CASE stranded' = stranded \cup {slot[s].admin}
                               \cup (IF slot[s].op = "onboard" THEN {slot[s].inst} ELSE {})
      BY <3>1 DEF Holds
    <3>2. CASE slot[s].op = "onboard"
                 /\ Become(s, [slot[s] EXCEPT !.admin = NoAdmin, !.pc = "undoInst"])
      BY <3>2 DEF Holds, Become, TypeOK, Founding, Request
    <3>3. CASE slot[s].op # "onboard" BY <3>3 DEF Holds
    <3> QED BY <1>14, <3>1, <3>2, <3>3 DEF UndoAdmin
  <2>3. ASSUME NEW j \in Insts, Held(j), j \notin stranded' PROVE Held(j)'
    BY <1>2, <1>5, <2>2, <2>3, HeldKept
  <2> QED BY <2>1, <2>3 DEF FailedOnboardingsUndone
<1>15. CASE UndoInstitution(s)
  <2>1. stranded \subseteq stranded' /\ UNCHANGED founded BY <1>15 DEF UndoInstitution
  <2>2. \A j \in Insts : Holds(slot[s], j) => j \in stranded' \/ inst'[j].state # "active"
    BY <1>15 DEF UndoInstitution, Holds, TypeOK, Institution
  <2>3. \A j \in Insts : inst'[j].state = "active" => inst[j].state = "active"
    BY <1>15 DEF UndoInstitution, TypeOK, Institution
  <2>4. ASSUME NEW j \in Insts, Held(j), ~Holds(slot[s], j) PROVE Held(j)'
    BY <1>2, <2>4, HeldKept
  <2> QED BY <2>1, <2>2, <2>3, <2>4 DEF FailedOnboardingsUndone
<1>16. CASE \/ \E e \in Emails : StartOnboard(s, e) \/ \E i \in Insts \cup {NoInst} : StartCreate(s, e, i)
            \/ FindInstitution(s) \/ \E p \in Phones \cup {NoPhone} : FindPhone(s, p)
            \/ DomainFree(s)
  <2>1. StoresUnchanged /\ slot[s].pc \in {"idle", "institution", "findPhone", "domainFree"}
    BY <1>16 DEF StartOnboard, StartCreate, FindInstitution, FindPhone, DomainFree, At
  <2> QED BY <1>3, <2>1 DEF Creating, Founding
<1> QED
  BY <1>6, <1>7, <1>8, <1>9, <1>10, <1>12, <1>13, <1>14, <1>15, <1>16 DEF Create

\* For any requests, an institution left active by a failed onboarding is one whose undoing
\* failed or was not reached.  Each request holds on to its institution until it ends.
THEOREM OnboardingsUndone == Spec => []FailedOnboardingsUndone
<1>1. Init => FailedOnboardingsUndone
  BY DEF Init, FailedOnboardingsUndone, NoInstitution
<1>2. TypeOK /\ FailedOnboardingsUndone /\ [Next]_vars => FailedOnboardingsUndone'
  <2> SUFFICES ASSUME TypeOK, FailedOnboardingsUndone, [Next]_vars PROVE FailedOnboardingsUndone'
    OBVIOUS
  <2>1. ASSUME NEW s \in Slots, NEW r, Took(s, r), UNCHANGED <<inst, founded, stranded>>,
               slot[s].op # "onboard" \/ slot[s].pc \notin Creating \cup Founding
        PROVE  FailedOnboardingsUndone'
    BY <2>1, HeldQuiet DEF Took
  <2>2. ASSUME NEW s \in Slots, Change(s) PROVE FailedOnboardingsUndone'
    <3>1. UNCHANGED <<inst, founded, stranded>> /\ slot[s].pc \notin Creating \cup Founding
      BY <2>2 DEF Change, StartUpdate, CheckDuplicate, WriteAdmin, StoresUnchanged, At, Creating,
                  Founding
    <3> QED BY <2>1, <2>2, <3>1, ChangeTyped
  <2>3. ASSUME NEW s \in Slots, Row(s) PROVE FailedOnboardingsUndone'
    <3>1. UNCHANGED <<inst, founded, stranded>> /\ slot[s].pc \notin Creating \cup Founding
      BY <2>3 DEF Row, ReadRow, CreateRow, UpdateRow, StoresUnchanged, At, Creating, Founding
    <3> QED BY <2>1, <2>3, <3>1, RowTyped
  <2>4. ASSUME NEW s \in Slots, Abort(s) PROVE FailedOnboardingsUndone'
    <3>1. /\ UNCHANGED <<inst, founded, stranded>>
          /\ slot[s].op # "onboard" \/ slot[s].pc \notin Creating \cup Founding
      BY <2>4 DEF Abort, StoresUnchanged, At, Creating, Founding
    <3> QED BY <2>1, <2>4, <3>1, AbortTyped
  <2>5. CASE \E a \in Admins : DeleteAdmin(a)
    BY <2>5 DEF DeleteAdmin, FailedOnboardingsUndone, Held
  <2>6. CASE UNCHANGED vars BY <2>6 DEF vars, FailedOnboardingsUndone, Held
  <2> QED BY CreateUndone, <2>2, <2>3, <2>4, <2>5, <2>6 DEF Next
<1> QED BY <1>1, <1>2, AdministrationTyped, PTL DEF Spec

-----------------------------------------------------------------------------
(* Phone numbers: a request whose look-up is behind it knows of no other    *)
(* holder, or the number was carried by two requests at a time.             *)

Settled(r) ==
    r.phone # NoPhone /\ "phone" \notin r.todo /\ Taken("phone", r.phone, r.admin)
        => r.phone \in raced

PhonesInv ==
    /\ Carried(slot) \subseteq raced
    /\ \A s \in Slots : Settled(slot[s])
    /\ PhonesSharedByRaces

\* A step after which at most one document has a number it did not have, that of the
\* request.
LEMMA PhonesGiven ==
    ASSUME TypeOK, PhonesInv, NEW s \in Slots, NEW r, Become(s, r), r.phone = NoPhone,
           NEW a \in Admins, NEW p \in Phones \cup {NoPhone}, p = slot[s].phone,
           \A b \in Admins : Live(b)' =>
               \/ Live(b) /\ admin'[b].phone = admin[b].phone
               \/ b = a /\ admin'[b].phone = p,
           p # NoPhone => \A b \in Admins \ {a} : Live(b) /\ admin[b].phone = p => p \in raced
    PROVE  PhonesInv'
<1>1. slot' = [slot EXCEPT ![s] = r] /\ raced' = raced \cup Carried(slot') BY DEF Become
<1>2. (Carried(slot) \subseteq raced)' BY <1>1
<1>3. ASSUME NEW t \in Slots PROVE Settled(slot[t])'
  <2>1. CASE t = s BY <1>1, <2>1 DEF Settled, TypeOK
  <2>2. CASE t # s
    <3>1. slot'[t] = slot[t] BY <1>1, <2>2 DEF TypeOK
    <3> DEFINE q == slot[t].phone
    <3> SUFFICES ASSUME q # NoPhone, "phone" \notin slot[t].todo,
                        NEW b \in Admins \ {slot[t].admin}, Live(b)', admin'[b].phone = q
                 PROVE  q \in raced'
      BY <3>1 DEF Settled, Taken
    <3>2. CASE Live(b) /\ admin'[b].phone = admin[b].phone
      BY <1>1, <3>2 DEF PhonesInv, Settled, Taken
    <3>3. CASE b = a /\ q = p
      <4>1. q \in Phones BY SlotTyped DEF Request
      <4>2. q \in Carried(slot) BY <2>2, <3>3, <4>1 DEF Carried
      <4> QED BY <1>1, <4>2 DEF PhonesInv
    <3> QED BY <3>2, <3>3
  <2> QED BY <2>1, <2>2
<1>4. PhonesSharedByRaces'
  <2> SUFFICES ASSUME NEW b \in Admins, NEW c \in Admins, b # c, Live(b)', Live(c)',
                      admin'[b].phone = admin'[c].phone, admin'[b].phone # NoPhone, c # a
               PROVE  admin'[b].phone \in raced'
    BY DEF PhonesSharedByRaces
  <2>1. Live(c) /\ admin'[c].phone = admin[c].phone OBVIOUS
  <2>2. CASE Live(b) /\ admin'[b].phone = admin[b].phone
    BY <1>1, <2>1, <2>2 DEF PhonesInv, PhonesSharedByRaces
  <2>3. CASE b = a /\ admin'[b].phone = p BY <1>1, <2>1, <2>3
  <2> QED BY <2>2, <2>3
<1> QED BY <1>2, <1>3, <1>4 DEF PhonesInv

\* A step after which no document has a number it did not have.
LEMMA PhonesFrame ==
    ASSUME TypeOK, PhonesInv, NEW s \in Slots, NEW r, Become(s, r), Settled(r),
           \A b \in Admins : Live(b)' => Live(b) /\ admin'[b].phone = admin[b].phone
    PROVE  PhonesInv'
<1>1. slot' = [slot EXCEPT ![s] = r] /\ raced' = raced \cup Carried(slot') BY DEF Become
<1>2. (Carried(slot) \subseteq raced)' BY <1>1
<1>3. ASSUME NEW q, Settled(q) PROVE Settled(q)' BY <1>1, <1>3 DEF Settled, Taken
<1>4. ASSUME NEW t \in Slots PROVE Settled(slot[t])'
  <2>1. PICK q : q = slot'[t] OBVIOUS
  <2>2. q = r \/ q = slot[t] BY <1>1, <2>1 DEF TypeOK
  <2>3. Settled(q)' BY <1>3, <2>2 DEF PhonesInv
  <2> QED BY <2>1, <2>3 DEF Settled, Taken
<1>5. PhonesSharedByRaces' BY <1>1 DEF PhonesInv, PhonesSharedByRaces
<1> QED BY <1>2, <1>4, <1>5 DEF PhonesInv

LEMMA SettledAlike ==
    ASSUME PhonesInv, NEW s \in Slots, NEW r,
           \/ r.phone = NoPhone
           \/ (r.phone = slot[s].phone /\ r.admin = slot[s].admin /\ r.todo = slot[s].todo)
    PROVE  Settled(r)
BY DEF PhonesInv, Settled

\* What a creation does to its slot, other than at the insertion, leaves it settled.
LEMMA CreateSettled ==
    ASSUME TypeOK, PhonesInv, NEW s \in Slots, Create(s), ~\E n \in Names : Insert(s, n)
    PROVE  \E r : Become(s, r) /\ Settled(r)
<1> DEFINE Alike(r) ==
        \/ r.phone = NoPhone
        \/ r.phone = slot[s].phone /\ r.admin = slot[s].admin /\ r.todo = slot[s].todo
<1> USE SlotTyped
<1>1. ASSUME NEW r, Become(s, r), Alike(r) PROVE \E q : Become(s, q) /\ Settled(q)
  BY <1>1, SettledAlike
<1> HIDE DEF Alike
<1>2. CASE End(s)
  <2>1. Alike(Idle) BY DEF Alike, Idle
  <2> QED BY <1>1, <1>2, <2>1 DEF End
<1>3. ASSUME NEW e \in Emails, StartOnboard(s, e) PROVE \E r : Become(s, r) /\ Alike(r)
  <2>1. Alike([Idle EXCEPT !.pc = "findPhone", !.op = "onboard", !.email = e])
    BY DEF Idle, Alike
  <2> QED BY <1>3, <2>1 DEF StartOnboard
<1>4. ASSUME NEW e \in Emails, NEW i \in Insts \cup {NoInst}, StartCreate(s, e, i)
      PROVE  \E r : Become(s, r) /\ Alike(r)
  <2> DEFINE l == IF i = NoInst THEN "findPhone" ELSE "institution"
             r == [Idle EXCEPT !.pc = l, !.op = "create", !.email = e, !.inst = i]
  <2>1. Become(s, r) BY <1>4 DEF StartCreate
  <2> HIDE DEF l
  <2>2. Alike(r) BY DEF Idle, Alike
  <2> QED BY <2>1, <2>2
<1>5. CASE FindInstitution(s)
  <2> DEFINE r == [slot[s] EXCEPT !.inst = NoInst, !.pc = "findPhone"]
  <2>1. Become(s, r) BY <1>5 DEF FindInstitution
  <2>2. Alike(r) BY DEF Alike, Request
  <2> QED BY <1>1, <2>1, <2>2
<1>6. ASSUME NEW p \in Phones \cup {NoPhone}, FindPhone(s, p)
      PROVE  \E r : Become(s, r) /\ Settled(r)
  <2> DEFINE l == AfterPhone(slot[s])
             r == [slot[s] EXCEPT !.phone = p, !.pc = l]
  <2>1. Become(s, r) BY <1>6 DEF FindPhone
  <2> HIDE DEF l
  <2>2. r.phone = p BY DEF Request
  <2>3. p # NoPhone => ~\E b \in Admins : Live(b) /\ admin[b]["phone"] = p
    BY <1>6, NoneAssumption DEF FindPhone, Taken
  <2>4. Settled(r) BY <2>2, <2>3 DEF Settled, Taken
  <2> QED BY <2>1, <2>4
<1>7. CASE DomainFree(s)
  <2> DEFINE r == [slot[s] EXCEPT !.pc = "found"]
  <2>1. Alike(r) BY DEF Alike, Request
  <2>2. Become(s, r) \/ End(s) BY <1>7 DEF DomainFree, Goto
  <2> QED BY <1>1, <1>2, <2>1, <2>2
<1>8. CASE FoundInstitution(s)
  <2> PICK i \in Insts : Become(s, [slot[s] EXCEPT !.inst = i, !.pc = "group"])
    BY <1>8 DEF FoundInstitution
  <2>1. Alike([slot[s] EXCEPT !.inst = i, !.pc = "group"]) BY DEF Alike, Request
  <2> QED BY <1>1, <2>1
<1>9. CASE MakeGroup(s)
  <2> DEFINE r == [slot[s] EXCEPT !.pc = "insert"]
  <2>1. Alike(r) BY DEF Alike, Request
  <2> QED BY <1>1, <1>9, <2>1 DEF MakeGroup, Goto
<1>10. CASE OnboardRefused(s)
  BY <1>1, <1>10 DEF OnboardRefused, Alike, Idle
<1>11. CASE Undo(s)
  <2> DEFINE r == [slot[s] EXCEPT !.email = NoEmail, !.name = NoName, !.pc = "undoAdmin"]
  <2>1. Alike(r) BY DEF Alike, Request
  <2> QED BY <1>1, <1>11, <2>1 DEF Undo
<1>12. CASE CreateAccount(s)
  <2> DEFINE r == [slot[s] EXCEPT !.email = NoEmail, !.pc = "password"]
  <2>1. Alike(r) BY DEF Alike, Request
  <2>2. Become(s, r) \/ Undo(s) BY <1>12 DEF CreateAccount
  <2> QED BY <1>1, <1>11, <2>1, <2>2
<1>13. CASE UndoAdmin(s)
  <2> DEFINE r == [slot[s] EXCEPT !.admin = NoAdmin, !.pc = "undoInst"]
  <2>1. slot[s].phone = NoPhone BY <1>13 DEF UndoAdmin, At, RequestOK, Creating
  <2>2. Alike(r) BY <2>1 DEF Alike, Request
  <2>3. Become(s, r) \/ End(s) BY <1>13 DEF UndoAdmin
  <2> QED BY <1>1, <1>2, <2>2, <2>3
<1>14. CASE LoseName(s) \/ SetPassword(s) \/ UndoInstitution(s)
  <2>1. End(s) \/ Undo(s) BY <1>14 DEF LoseName, SetPassword, Succeed, UndoInstitution
  <2> QED BY <1>2, <1>11, <2>1
<1> QED
  BY <1>1, <1>3, <1>4, <1>5, <1>6, <1>7, <1>8, <1>9, <1>10, <1>12, <1>13, <1>14 DEF Create

\* Creations give no document a number it did not have, other than at the insertion.
LEMMA CreateGives ==
    ASSUME TypeOK, NEW s \in Slots, Create(s), ~\E n \in Names : Insert(s, n)
    PROVE  \A b \in Admins : Live(b)' => Live(b) /\ admin'[b].phone = admin[b].phone
<1>1. CASE UndoAdmin(s)
  <2>1. UndoneUser.state = "undone" BY DEF UndoneUser, NoAdminUser
  <2>2. admin' = admin \/ admin' = [admin EXCEPT ![slot[s].admin] = UndoneUser]
    BY <1>1 DEF UndoAdmin
  <2> QED BY <2>1, <2>2 DEF TypeOK, Live
<1>2. CASE UNCHANGED admin BY <1>2 DEF Live
<1> QED
  BY <1>1, <1>2
  DEF Create, StartOnboard, StartCreate, FindInstitution, FindPhone, DomainFree, FoundInstitution,
      LoseName, MakeGroup, OnboardRefused, CreateAccount, SetPassword, UndoInstitution,
      StoresUnchanged

LEMMA InsertPhones ==
    ASSUME TypeOK, PhonesInv, NEW s \in Slots, NEW n \in Names, Insert(s, n)
    PROVE  PhonesInv'
<1> USE SlotTyped
<1>p. PICK p \in Phones \cup {NoPhone} : p = slot[s].phone BY DEF Request
<1> DEFINE r(a) == [slot[s] EXCEPT !.admin = a, !.name = n, !.phone = NoPhone, !.pc = "account"]
<1>1. PICK a \in Admins :
        /\ admin[a].state = "absent"
        /\ admin' = [admin EXCEPT ![a] = [state |-> "live", email |-> slot[s].email,
                                          name |-> n, phone |-> p]]
        /\ Become(s, r(a))
  BY <1>p DEF Insert
<1>2. r(a).phone = NoPhone BY DEF Request
<1>3. \A b \in Admins : Live(b)' =>
        \/ (Live(b) /\ admin'[b].phone = admin[b].phone)
        \/ (b = a /\ admin'[b].phone = p)
  BY <1>1 DEF TypeOK, Live
<1>4. slot[s].admin = NoAdmin /\ "phone" \notin slot[s].todo
  BY DEF Insert, At, RequestOK, Founding
<1>5. p # NoPhone => \A b \in Admins \ {a} : Live(b) /\ admin[b].phone = p => p \in raced
  BY <1>p, <1>4, NoneAssumption DEF PhonesInv, Settled, Taken
<1> HIDE DEF r
<1> QED BY <1>p, <1>1, <1>2, <1>3, <1>5, PhonesGiven

LEMMA WritePhones ==
    ASSUME TypeOK, PhonesInv, NEW s \in Slots, WriteAdmin(s)
    PROVE  PhonesInv'
<1> USE SlotTyped
<1>1. PICK a \in Admins : a = slot[s].admin BY DEF WriteAdmin, At, RequestOK
<1>2. PICK p \in Phones \cup {NoPhone} : p = slot[s].phone BY DEF Request
<1>3. "phone" \notin slot[s].todo BY DEF WriteAdmin, At, RequestOK
<1>4. p # NoPhone => \A b \in Admins \ {a} : Live(b) /\ admin[b].phone = p => p \in raced
  BY <1>1, <1>2, <1>3 DEF PhonesInv, Settled, Taken
<1>5. \A b \in Admins : Live(b)' =>
        \/ (Live(b) /\ admin'[b].phone = admin[b].phone)
        \/ (b = a /\ admin'[b].phone = p)
  BY <1>1, <1>2, Written DEF Live
<1>6. Become(s, Idle) /\ Idle.phone = NoPhone BY DEF WriteAdmin, End, Idle
<1> QED BY <1>2, <1>4, <1>5, <1>6, PhonesGiven

\* A request that has read its document: what it does not look for it has already.
LEMMA FindSettled ==
    ASSUME TypeOK, PhonesInv, NEW s \in Slots, NEW a \in Admins, Live(a),
           NEW e \in Emails \cup {NoEmail}, NEW n \in Names \cup {NoName},
           NEW p \in Phones \cup {NoPhone}, Find(s, Update(a, e, n, p))
    PROVE  \E r : Become(s, r) /\ Settled(r)
<1> DEFINE q == Update(a, e, n, p)
           C == Changed(q)
           l == NextCheck(C)
           r == [q EXCEPT !.todo = C, !.pc = l]
<1>1. Become(s, r) BY DEF Find
<1>2. q \in Request /\ q.admin = a /\ q.phone = p BY IdleTyped DEF Update, Request
<1>3. p # NoPhone /\ "phone" \notin C => admin[a].phone = p
  <2>1. p \notin {NoEmail, NoName} \/ p = NoPhone BY NoneAssumption
  <2> QED BY <1>2, <2>1 DEF Changed, Given, Fields
<1> HIDE DEF q, C, l
<1>4. r.phone = p /\ r.todo = C /\ r.admin = a BY <1>2 DEF Request
<1>5. Settled(r)
  BY <1>3, <1>4 DEF Settled, Taken, PhonesInv, PhonesSharedByRaces
<1> QED BY <1>1, <1>5

LEMMA UpdateSettled ==
    ASSUME TypeOK, PhonesInv, NEW s \in Slots,
           (Change(s) /\ ~WriteAdmin(s)) \/ Row(s) \/ Abort(s)
    PROVE  \E r : Become(s, r) /\ Settled(r)
<1> USE SlotTyped
<1>1. ASSUME NEW a \in Admins, StartUpdate(s, a) PROVE \E r : Become(s, r) /\ Settled(r)
  BY <1>1, FindSettled DEF StartUpdate
<1>2. CASE CheckDuplicate(s)
  <2> DEFINE f == FirstOf(slot[s].todo)
             rest == slot[s].todo \ {f}
             l == NextCheck(rest)
             r == [slot[s] EXCEPT !.todo = rest, !.pc = l]
  <2>1. Become(s, r) BY <1>2 DEF CheckDuplicate
  <2>2. f = "phone" => ~Taken("phone", slot[s].phone, slot[s].admin)
    BY <1>2 DEF CheckDuplicate
  <2> HIDE DEF f, l
  <2>3. r.phone = slot[s].phone /\ r.admin = slot[s].admin /\ r.todo = rest
    BY DEF Request
  <2>4. "phone" \notin rest => f = "phone" \/ "phone" \notin slot[s].todo OBVIOUS
  <2> HIDE DEF rest
  <2>5. Settled(r) BY <2>2, <2>3, <2>4 DEF Settled, PhonesInv
  <2> QED BY <2>1, <2>5
<1>3. ASSUME NEW e \in Emails, NEW i \in Insts, ReadRow(s, e, i)
      PROVE  \E r : Become(s, r) /\ Settled(r)
  <2> PICK known : Become(s, [Idle EXCEPT !.pc = "row", !.op = "row", !.admin = known,
                                         !.email = e, !.inst = i])
    BY <1>3 DEF ReadRow
  <2> DEFINE r == [Idle EXCEPT !.pc = "row", !.op = "row", !.admin = known,
                              !.email = e, !.inst = i]
  <2>1. Settled(r) BY DEF Settled, Idle
  <2> QED BY <2>1
<1>4. CASE CreateRow(s)
  <2> DEFINE r == [slot[s] EXCEPT !.pc = "institution", !.op = "create"]
  <2>1. Become(s, r) BY <1>4 DEF CreateRow
  <2>2. r.phone = slot[s].phone /\ r.admin = slot[s].admin /\ r.todo = slot[s].todo
    BY DEF Request
  <2> HIDE DEF r
  <2> QED BY <2>1, <2>2, SettledAlike
<1>5. ASSUME NEW p \in Phones, UpdateRow(s, p) PROVE \E r : Become(s, r) /\ Settled(r)
  <2>1. slot[s].admin \in Admins /\ slot[s].email \in Emails \cup {NoEmail}
    BY <1>5 DEF UpdateRow, Request
  <2> QED BY <1>5, <2>1, FindSettled DEF UpdateRow
<1>6. CASE Abort(s)
  <2>1. Settled(Idle) BY DEF Settled, Idle
  <2> QED BY <1>6, <2>1 DEF Abort, End
<1> QED BY <1>1, <1>2, <1>3, <1>4, <1>5, <1>6 DEF Change, Row

\* For any requests, two live administrators share a phone number only if two requests
\* carried it at a time: a request's look-up covers what was written before it began.
THEOREM PhonesShared == Spec => []PhonesSharedByRaces
<1>1. Init => PhonesInv
  BY NoneAssumption DEF Init, PhonesInv, Carried, Idle, Settled, PhonesSharedByRaces, Live, NoAdminUser
<1>2. TypeOK /\ PhonesInv /\ [Next]_vars => PhonesInv'
  <2> SUFFICES ASSUME TypeOK, PhonesInv, [Next]_vars PROVE PhonesInv'
    OBVIOUS
  <2>1. ASSUME NEW s \in Slots, Create(s) PROVE PhonesInv'
    BY <2>1, CreateSettled, CreateGives, InsertPhones, PhonesFrame
  <2>2. ASSUME NEW s \in Slots, Change(s) \/ Row(s) \/ Abort(s), ~WriteAdmin(s) PROVE PhonesInv'
    <3>1. UNCHANGED admin
      BY <2>2 DEF Change, StartUpdate, CheckDuplicate, Row, ReadRow, CreateRow, UpdateRow, Abort,
                  StoresUnchanged
    <3>2. \A b \in Admins : Live(b)' => Live(b) /\ admin'[b].phone = admin[b].phone
      BY <3>1 DEF Live
    <3> QED BY <2>2, <3>2, UpdateSettled, PhonesFrame
  <2>3. ASSUME NEW s \in Slots, WriteAdmin(s) PROVE PhonesInv' BY <2>3, WritePhones
  <2>4. CASE \E a \in Admins : DeleteAdmin(a)
    <3>1. UNCHANGED <<slot, raced>> BY <2>4 DEF DeleteAdmin
    <3>2. \A b \in Admins : Live(b)' => Live(b) /\ admin'[b].phone = admin[b].phone
      BY <2>4 DEF DeleteAdmin, TypeOK, AdminUser, Live
    <3> QED BY <3>1, <3>2 DEF PhonesInv, Carried, Settled, Taken, PhonesSharedByRaces
  <2>5. CASE UNCHANGED vars
    BY <2>5 DEF vars, PhonesInv, Carried, Settled, Taken, Live, PhonesSharedByRaces
  <2> QED BY <2>1, <2>2, <2>3, <2>4, <2>5 DEF Next
<1>3. PhonesInv => PhonesSharedByRaces BY DEF PhonesInv
<1> QED BY <1>1, <1>2, <1>3, AdministrationTyped, PTL DEF Spec

-----------------------------------------------------------------------------
(* Accounts and documents *)

\* Each administrator is made by one request.
OneMaker ==
    \A s, t \in Slots : s # t /\ slot[s].pc \in Creating /\ slot[t].pc \in Creating
                            => slot[s].admin # slot[t].admin

\* What is being made is there, and nobody has given it up.
Pending ==
    \A s \in Slots : slot[s].pc \in Creating => Exists(slot[s].admin) /\ slot[s].admin \notin stranded

\* What is left behind is there.
LeftThere == \A a \in Admins : a \in stranded => Exists(a)

\* The account is made for the document as it was inserted.
Named ==
    \A s \in Slots : slot[s].pc = "account" =>
        \/ slot[s].admin \in renamed
        \/ /\ slot[s].name = admin[slot[s].admin].name
           /\ slot[s].email = admin[slot[s].admin].email

\* Until its password is set the account is that of the request alone.
Temporary ==
    \A s \in Slots : slot[s].pc = "password" =>
        /\ pool[slot[s].name].state = "temporary"
        /\ \/ slot[s].admin \in renamed
           \/ /\ slot[s].name = admin[slot[s].admin].name
              /\ pool[slot[s].name].email = admin[slot[s].admin].email

NamesApart ==
    \A s, t \in Slots : s # t /\ slot[s].pc = "password" /\ slot[t].pc = "password"
                            => slot[s].name # slot[t].name

\* A ready account belongs to a document whose making is over: no undoing can reach it.
ReadyKept ==
    \A n \in Names : pool[n].state = "ready" => \E a \in Admins :
        Exists(a) /\ ~InFlight(a) /\ (admin[a].name = n \/ a \in renamed)

AccountsInv ==
    /\ OneMaker /\ Pending /\ LeftThere /\ Named /\ Temporary /\ NamesApart /\ ReadyKept
    /\ AdminsCanSignIn

LEMMA MakerTyped ==
    ASSUME TypeOK, NEW s \in Slots, slot[s].pc \in Creating
    PROVE  slot[s].admin \in Admins /\ slot[s].admin \notin Insts
BY NoneAssumption DEF TypeOK, RequestOK

\* Steps that leave those who make something, and the accounts, alone.
LEMMA AccountsQuiet ==
    ASSUME TypeOK, AccountsInv,
           \A t \in Slots : slot[t].pc \in Creating \/ slot'[t].pc \in Creating
                                => slot'[t] = slot[t],
           UNCHANGED pool, stranded \subseteq stranded', stranded' \subseteq stranded \cup Insts,
           renamed \subseteq renamed',
           \A a \in Admins :
               /\ Exists(a)' <=> Exists(a)
               /\ Live(a)' => Live(a)
               /\ Exists(a) => \/ a \in renamed'
                               \/ /\ admin'[a].name = admin[a].name
                                  /\ admin'[a].email = admin[a].email
    PROVE  AccountsInv'
<1> USE MakerTyped
<1>1. OneMaker' BY DEF AccountsInv, OneMaker
<1>2. Pending'
  <2> SUFFICES ASSUME NEW t \in Slots, slot'[t].pc \in Creating
               PROVE  Exists(slot[t].admin)' /\ slot'[t].admin \notin stranded'
    BY DEF Pending
  <2> PICK a \in Admins : a = slot[t].admin /\ a \notin Insts OBVIOUS
  <2>1. Exists(a) /\ a \notin stranded BY DEF AccountsInv, Pending
  <2>2. Exists(a)' BY <2>1
  <2> QED BY <2>1, <2>2 DEF Exists
<1>3. Named'
  <2> SUFFICES ASSUME NEW t \in Slots, slot'[t].pc = "account"
               PROVE  \/ slot'[t].admin \in renamed'
                      \/ /\ slot'[t].name = admin'[slot'[t].admin].name
                         /\ slot'[t].email = admin'[slot'[t].admin].email
    BY DEF Named
  <2>1. slot'[t] = slot[t] /\ slot[t].pc \in Creating BY DEF Creating
  <2>2. Exists(slot[t].admin) BY <2>1 DEF AccountsInv, Pending
  <2> QED BY <2>1, <2>2 DEF AccountsInv, Named
<1>4. Temporary'
  <2> SUFFICES ASSUME NEW t \in Slots, slot'[t].pc = "password"
               PROVE  /\ pool[slot'[t].name].state = "temporary"
                      /\ \/ slot'[t].admin \in renamed'
                         \/ /\ slot'[t].name = admin'[slot'[t].admin].name
                            /\ pool[slot'[t].name].email = admin'[slot'[t].admin].email
    BY DEF Temporary
  <2>1. slot'[t] = slot[t] /\ slot[t].pc \in Creating BY DEF Creating
  <2>2. Exists(slot[t].admin) BY <2>1 DEF AccountsInv, Pending
  <2> QED BY <2>1, <2>2 DEF AccountsInv, Temporary
<1>5. NamesApart'
  <2>1. \A t \in Slots : slot'[t].pc = "password" => slot'[t] = slot[t] BY DEF Creating
  <2> QED BY <2>1 DEF AccountsInv, NamesApart
<1>6. \A a \in Admins : InFlight(a)' <=> InFlight(a) BY DEF InFlight
<1>7. ReadyKept'
  <2> SUFFICES ASSUME NEW n \in Names, pool[n].state = "ready"
               PROVE  \E a \in Admins :
                         Exists(a)' /\ ~InFlight(a)' /\ (admin'[a].name = n \/ a \in renamed')
    BY DEF ReadyKept
  <2> PICK a \in Admins : Exists(a) /\ ~InFlight(a) /\ (admin[a].name = n \/ a \in renamed)
    BY DEF AccountsInv, ReadyKept
  <2> QED BY <1>6
<1>8. AdminsCanSignIn'
  <2> SUFFICES ASSUME NEW a \in Admins, Live(a)', ~InFlight(a)', a \notin renamed', a \notin stranded'
               PROVE  pool[admin'[a].name] = [email |-> admin'[a].email, state |-> "ready"]
    BY DEF AdminsCanSignIn
  <2>1. Live(a) /\ Exists(a) /\ ~InFlight(a) BY <1>6 DEF Live, Exists
  <2> QED BY <2>1 DEF AccountsInv, AdminsCanSignIn
<1>9. LeftThere' BY NoneAssumption DEF AccountsInv, LeftThere
<1> QED BY <1>1, <1>2, <1>3, <1>4, <1>5, <1>7, <1>8, <1>9 DEF AccountsInv

\* Steps that make nothing, and take nothing back.
Quiet(s) ==
    /\ \A t \in Slots \ {s} : slot'[t] = slot[t]
    /\ slot[s].pc \notin Creating /\ slot'[s].pc \notin Creating
    /\ UNCHANGED pool
    /\ stranded \subseteq stranded' /\ stranded' \subseteq stranded \cup Insts
    /\ renamed \subseteq renamed'
    /\ \A a \in Admins :
          /\ Live(a)' => Live(a)
          /\ Exists(a)' <=> Exists(a)
          /\ ~Exists(a) => admin'[a] = admin[a]
          /\ Exists(a) => \/ a \in renamed'
                          \/ /\ admin'[a].name = admin[a].name
                             /\ admin'[a].email = admin[a].email

LEMMA QuietSlot ==
    ASSUME TypeOK, NEW s \in Slots, NEW r, Become(s, r),
           slot[s].pc \notin Creating, slot'[s].pc \notin Creating,
           UNCHANGED <<admin, pool, renamed>>,
           stranded \subseteq stranded', stranded' \subseteq stranded \cup Insts
    PROVE  Quiet(s)
BY DEF Quiet, Become, TypeOK, Exists, Live

LEMMA QuietKeeps ==
    ASSUME TypeOK, AccountsInv, NEW s \in Slots, Quiet(s)
    PROVE  AccountsInv'
<1>1. \A t \in Slots : slot[t].pc \in Creating \/ slot'[t].pc \in Creating => slot'[t] = slot[t]
  BY DEF Quiet
<1> QED BY <1>1, AccountsQuiet DEF Quiet

LEMMA UndoKeeps ==
    ASSUME TypeOK, AccountsInv, NEW s \in Slots, slot[s].pc \in Creating, Undo(s),
           UNCHANGED <<admin, pool, stranded, renamed>>
    PROVE  AccountsInv'
<1>1. /\ \A t \in Slots \ {s} : slot'[t] = slot[t]
      /\ slot'[s].pc = "undoAdmin" /\ slot'[s].admin = slot[s].admin
  BY DEF Undo, Become, TypeOK, Request
<1>2. \A t \in Slots : /\ (slot'[t].pc \in Creating <=> slot[t].pc \in Creating)
                       /\ slot'[t].admin = slot[t].admin
  BY <1>1 DEF Creating
<1>3. \A t \in Slots : slot'[t].pc \in {"account", "password"} => slot'[t] = slot[t]
  BY <1>1
<1>4. OneMaker' BY <1>2 DEF AccountsInv, OneMaker
<1>5. Pending' BY <1>2 DEF AccountsInv, Pending, Exists
<1>6. Named' /\ Temporary' /\ NamesApart'
  BY <1>3 DEF AccountsInv, Named, Temporary, NamesApart
<1>7. \A a \in Admins : InFlight(a)' <=> InFlight(a) BY <1>2 DEF InFlight
<1>8. ReadyKept' BY <1>7 DEF AccountsInv, ReadyKept, Exists
<1>9. AdminsCanSignIn' BY <1>7 DEF AccountsInv, AdminsCanSignIn, Live
<1>10. LeftThere' BY DEF AccountsInv, LeftThere, Exists
<1> QED BY <1>4, <1>5, <1>6, <1>8, <1>9, <1>10 DEF AccountsInv

LEMMA InsertAccounts ==
    ASSUME TypeOK, AccountsInv, NEW s \in Slots, NEW n \in Names, Insert(s, n)
    PROVE  AccountsInv'
<1> USE SlotTyped
<1>1. PICK a \in Admins :
        /\ admin[a].state = "absent"
        /\ admin' = [admin EXCEPT ![a] = [state |-> "live", email |-> slot[s].email,
                                          name |-> n, phone |-> slot[s].phone]]
        /\ Become(s, [slot[s] EXCEPT !.admin = a, !.name = n, !.phone = NoPhone, !.pc = "account"])
  BY DEF Insert
<1>2. /\ \A t \in Slots \ {s} : slot'[t] = slot[t]
      /\ slot'[s].pc = "account" /\ slot'[s].admin = a /\ slot'[s].name = n
      /\ slot'[s].email = slot[s].email
  BY <1>1 DEF Become, TypeOK, Request
<1>3. /\ \A b \in Admins \ {a} : admin'[b] = admin[b]
      /\ admin'[a].state = "live" /\ admin'[a].name = n /\ admin'[a].email = slot[s].email
  BY <1>1 DEF TypeOK
<1>4. UNCHANGED <<pool, stranded, renamed>> BY DEF Insert
<1>5. ~Exists(a) BY <1>1 DEF Exists
<1>6. \A t \in Slots : slot[t].pc \in Creating => slot[t].admin \in Admins \ {a}
  BY <1>5, MakerTyped DEF AccountsInv, Pending
<1>7. slot[s].pc \notin Creating BY DEF Insert, At, Creating
<1>8. OneMaker' BY <1>2, <1>6 DEF AccountsInv, OneMaker
<1>9. \A b \in Admins : Exists(b) => b # a /\ Exists(b)' BY <1>3, <1>5 DEF Exists
<1>10. a \notin stranded BY <1>5 DEF AccountsInv, LeftThere
<1>11. Pending'
  <2> SUFFICES ASSUME NEW t \in Slots, slot'[t].pc \in Creating
               PROVE  Exists(slot[t].admin)' /\ slot'[t].admin \notin stranded'
    BY DEF Pending
  <2>1. CASE t = s BY <1>2, <1>3, <1>4, <1>10, <2>1 DEF Exists
  <2>2. CASE t # s
    <3>1. slot'[t] = slot[t] BY <1>2, <2>2
    <3>2. Exists(slot[t].admin) /\ slot[t].admin \notin stranded /\ slot[t].admin \in Admins \ {a}
      BY <1>6, <3>1 DEF AccountsInv, Pending
    <3> QED BY <1>3, <1>4, <3>1, <3>2 DEF Exists
  <2> QED BY <2>1, <2>2
<1>12. LeftThere' BY <1>4, <1>9 DEF AccountsInv, LeftThere
<1>13. Named'
  <2> SUFFICES ASSUME NEW t \in Slots, slot'[t].pc = "account"
               PROVE  \/ slot'[t].admin \in renamed'
                      \/ /\ slot'[t].name = admin'[slot'[t].admin].name
                         /\ slot'[t].email = admin'[slot'[t].admin].email
    BY DEF Named
  <2>1. CASE t = s BY <1>2, <1>3, <2>1
  <2>2. CASE t # s
    <3>1. slot'[t] = slot[t] /\ slot[t].pc \in Creating BY <1>2, <2>2 DEF Creating
    <3> QED BY <1>3, <1>4, <1>6, <3>1 DEF AccountsInv, Named
  <2> QED BY <2>1, <2>2
<1>14. Temporary'
  <2> SUFFICES ASSUME NEW t \in Slots, slot'[t].pc = "password"
               PROVE  /\ pool'[slot'[t].name].state = "temporary"
                      /\ \/ slot'[t].admin \in renamed'
                         \/ /\ slot'[t].name = admin'[slot'[t].admin].name
                            /\ pool'[slot'[t].name].email = admin'[slot'[t].admin].email
    BY DEF Temporary
  <2>1. slot'[t] = slot[t] /\ slot[t].pc \in Creating BY <1>2 DEF Creating
  <2> QED BY <1>3, <1>4, <1>6, <2>1 DEF AccountsInv, Temporary
<1>15. NamesApart' BY <1>2 DEF AccountsInv, NamesApart
<1>16. \A b \in Admins : InFlight(b)' => InFlight(b) \/ b = a BY <1>2 DEF InFlight
<1>17. \A b \in Admins : InFlight(b) => InFlight(b)'
  BY <1>2, <1>7 DEF InFlight
<1>18. ReadyKept'
  <2> SUFFICES ASSUME NEW m \in Names, pool[m].state = "ready"
               PROVE  \E b \in Admins :
                         Exists(b)' /\ ~InFlight(b)' /\ (admin'[b].name = m \/ b \in renamed')
    BY <1>4 DEF ReadyKept
  <2> PICK b \in Admins : Exists(b) /\ ~InFlight(b) /\ (admin[b].name = m \/ b \in renamed)
    BY DEF AccountsInv, ReadyKept
  <2>1. b # a /\ Exists(b)' BY <1>9
  <2> QED BY <1>3, <1>4, <1>16, <2>1
<1>19. AdminsCanSignIn'
  <2> SUFFICES ASSUME NEW b \in Admins, Live(b)', ~InFlight(b)', b \notin renamed, b \notin stranded
               PROVE  pool[admin'[b].name] = [email |-> admin'[b].email, state |-> "ready"]
    BY <1>4 DEF AdminsCanSignIn
  <2>1. InFlight(a)' BY <1>2 DEF InFlight, Creating
  <2>2. b # a BY <2>1
  <2>3. Live(b) /\ ~InFlight(b) BY <1>3, <1>17, <2>2 DEF Live
  <2> QED BY <1>3, <2>2, <2>3 DEF AccountsInv, AdminsCanSignIn
<1> QED BY <1>8, <1>11, <1>12, <1>13, <1>14, <1>15, <1>18, <1>19 DEF AccountsInv

LEMMA CreateAccountAccounts ==
    ASSUME TypeOK, AccountsInv, NEW s \in Slots, CreateAccount(s)
    PROVE  AccountsInv'
<1> USE SlotTyped
<1>1. slot[s].pc = "account" /\ slot[s].pc \in Creating BY DEF CreateAccount, At, Creating
<1>2. CASE Undo(s) /\ UNCHANGED pool BY <1>1, <1>2, UndoKeeps DEF CreateAccount
<1>3. ASSUME ~Refused(slot[s].name, slot[s].email),
             pool' = [pool EXCEPT ![slot[s].name] = [email |-> slot[s].email, state |-> "temporary"]],
             Become(s, [slot[s] EXCEPT !.email = NoEmail, !.pc = "password"])
      PROVE  AccountsInv'
  <2>1. PICK n \in Names : n = slot[s].name BY <1>1 DEF RequestOK
  <2>2. /\ \A t \in Slots \ {s} : slot'[t] = slot[t]
        /\ slot'[s].pc = "password" /\ slot'[s].admin = slot[s].admin
        /\ slot'[s].name = n
    BY <1>3, <2>1 DEF Become, TypeOK, Request
  <2>3. UNCHANGED <<admin, stranded, renamed>> BY DEF CreateAccount
  <2>4. pool[n].state = "none" BY <1>3, <2>1 DEF Refused
  <2>5. \A m \in Names \ {n} : pool'[m] = pool[m] BY <1>3, <2>1 DEF TypeOK
  <2>6. pool'[n] = [email |-> slot[s].email, state |-> "temporary"] BY <1>3, <2>1 DEF TypeOK
  <2>7. \A t \in Slots : /\ slot'[t].pc \in Creating <=> slot[t].pc \in Creating
                         /\ slot'[t].admin = slot[t].admin
    BY <1>1, <2>2 DEF Creating
  <2>8. OneMaker' BY <2>7 DEF AccountsInv, OneMaker
  <2>9. Pending' BY <2>3, <2>7 DEF AccountsInv, Pending, Exists
  <2>10. LeftThere' BY <2>3 DEF AccountsInv, LeftThere, Exists
  <2>11. Named' BY <2>2, <2>3 DEF AccountsInv, Named
  <2>12. \A t \in Slots \ {s} : slot[t].pc = "password" => slot[t].name \in Names \ {n}
    BY <2>4 DEF AccountsInv, Temporary, RequestOK
  <2>13. Temporary'
    <3> SUFFICES ASSUME NEW t \in Slots, slot'[t].pc = "password"
                 PROVE  /\ pool'[slot'[t].name].state = "temporary"
                        /\ \/ slot'[t].admin \in renamed
                           \/ /\ slot'[t].name = admin[slot'[t].admin].name
                              /\ pool'[slot'[t].name].email = admin[slot'[t].admin].email
      BY <2>3 DEF Temporary
    <3>1. CASE t = s
      BY <1>1, <2>1, <2>2, <2>6, <3>1 DEF AccountsInv, Named
    <3>2. CASE t # s
      BY <2>2, <2>5, <2>12, <3>2 DEF AccountsInv, Temporary
    <3> QED BY <3>1, <3>2
  <2>14. NamesApart' BY <2>2, <2>12 DEF AccountsInv, NamesApart
  <2>15. \A a \in Admins : InFlight(a)' <=> InFlight(a) BY <2>7 DEF InFlight
  <2>16. ReadyKept'
    <3> SUFFICES ASSUME NEW m \in Names, pool'[m].state = "ready"
                 PROVE  \E a \in Admins :
                           Exists(a) /\ ~InFlight(a) /\ (admin[a].name = m \/ a \in renamed)
      BY <2>3, <2>15 DEF ReadyKept, Exists
    <3>1. pool[m].state = "ready" BY <2>5, <2>6
    <3> QED BY <3>1 DEF AccountsInv, ReadyKept
  <2>17. AdminsCanSignIn'
    <3> SUFFICES ASSUME NEW a \in Admins, Live(a), ~InFlight(a), a \notin renamed, a \notin stranded
                 PROVE  pool'[admin[a].name] = [email |-> admin[a].email, state |-> "ready"]
      BY <2>3, <2>15 DEF AdminsCanSignIn, Live
    <3>1. pool[admin[a].name] = [email |-> admin[a].email, state |-> "ready"]
      BY DEF AccountsInv, AdminsCanSignIn
    <3>2. admin[a].name # n BY <2>4, <3>1
    <3>3. pool' = [pool EXCEPT ![n] = [email |-> slot[s].email, state |-> "temporary"]]
      BY <1>3, <2>1
    <3>4. pool'[admin[a].name] = pool[admin[a].name] BY <3>2, <3>3 DEF TypeOK
    <3> QED BY <3>1, <3>4
  <2> QED BY <2>8, <2>9, <2>10, <2>11, <2>13, <2>14, <2>16, <2>17 DEF AccountsInv
<1> QED BY <1>2, <1>3 DEF CreateAccount

LEMMA SetPasswordAccounts ==
    ASSUME TypeOK, AccountsInv, NEW s \in Slots, SetPassword(s)
    PROVE  AccountsInv'
<1>1. slot[s].pc = "password" /\ slot[s].pc \in Creating BY DEF SetPassword, At, Creating
<1>2. CASE Undo(s) /\ UNCHANGED pool BY <1>1, <1>2, UndoKeeps DEF SetPassword
<1>3. ASSUME pool' = [pool EXCEPT ![slot[s].name].state = "ready"], Succeed(s)
      PROVE  AccountsInv'
  <2>1. PICK n \in Names : n = slot[s].name BY <1>1, SlotTyped DEF RequestOK
  <2>2. PICK a \in Admins : a = slot[s].admin BY <1>1, MakerTyped
  <2>3. /\ \A t \in Slots \ {s} : slot'[t] = slot[t]
        /\ slot'[s] = Idle
    BY <1>3 DEF Succeed, End, Become, TypeOK
  <2>4. Idle.pc \notin Creating BY DEF Idle, Creating
  <2>5. UNCHANGED <<admin, stranded, renamed>> BY DEF SetPassword
  <2>6. pool[n].state = "temporary" BY <1>1, <2>1 DEF AccountsInv, Temporary
  <2>7. \A m \in Names \ {n} : pool'[m] = pool[m] BY <1>3, <2>1 DEF TypeOK
  <2>8. pool'[n] = [email |-> pool[n].email, state |-> "ready"]
    BY <1>3, <2>1 DEF TypeOK, Account
  <2>9. \A t \in Slots : slot'[t].pc \in Creating => t # s /\ slot'[t] = slot[t]
    BY <2>3, <2>4
  <2>10. Exists(a) BY <1>1, <2>2 DEF AccountsInv, Pending
  <2>11. a \in renamed \/ (n = admin[a].name /\ pool[n].email = admin[a].email)
    BY <1>1, <2>1, <2>2 DEF AccountsInv, Temporary
  <2>12. OneMaker' BY <2>9 DEF AccountsInv, OneMaker
  <2>13. Pending' BY <2>5, <2>9 DEF AccountsInv, Pending, Exists
  <2>14. LeftThere' BY <2>5 DEF AccountsInv, LeftThere, Exists
  <2>15. Named'
    <3>1. \A t \in Slots : slot'[t].pc = "account" => slot'[t] = slot[t] BY <2>9 DEF Creating
    <3> QED BY <2>5, <3>1 DEF AccountsInv, Named
  <2>16. \A t \in Slots : slot'[t].pc = "password" => slot'[t] = slot[t] /\ slot[t].name \in Names \ {n}
    <3> TAKE t \in Slots
    <3> HAVE slot'[t].pc = "password"
    <3>1. t # s /\ slot'[t] = slot[t] BY <2>9 DEF Creating
    <3>2. slot[t].name \in Names BY <3>1, SlotTyped DEF RequestOK
    <3>3. slot[t].name # n BY <1>1, <2>1, <3>1 DEF AccountsInv, NamesApart
    <3> QED BY <3>1, <3>2, <3>3
  <2>17. Temporary' BY <2>5, <2>7, <2>16 DEF AccountsInv, Temporary
  <2>18. NamesApart' BY <2>16 DEF AccountsInv, NamesApart
  <2>19. ~InFlight(a)'
    <3> SUFFICES ASSUME NEW t \in Slots, slot'[t].admin = a, slot'[t].pc \in Creating
                 PROVE  FALSE
      BY DEF InFlight
    <3> QED BY <1>1, <2>2, <2>9 DEF AccountsInv, OneMaker
  <2>20. \A b \in Admins : InFlight(b)' => InFlight(b) BY <2>9 DEF InFlight
  <2>21. \A b \in Admins \ {a} : InFlight(b) => InFlight(b)'
    <3> SUFFICES ASSUME NEW b \in Admins \ {a}, NEW t \in Slots, slot[t].admin = b,
                        slot[t].pc \in Creating
                 PROVE  InFlight(b)'
      BY DEF InFlight
    <3>1. slot'[t] = slot[t] BY <2>2, <2>3
    <3> QED BY <3>1 DEF InFlight
  <2>22. ReadyKept'
    <3> SUFFICES ASSUME NEW m \in Names, pool'[m].state = "ready"
                 PROVE  \E b \in Admins :
                           Exists(b) /\ ~InFlight(b)' /\ (admin[b].name = m \/ b \in renamed)
      BY <2>5 DEF ReadyKept, Exists
    <3>1. CASE m = n BY <2>10, <2>11, <2>19, <3>1
    <3>2. CASE m # n
      <4>1. pool[m].state = "ready" BY <2>7, <3>2
      <4>2. PICK b \in Admins :
              Exists(b) /\ ~InFlight(b) /\ (admin[b].name = m \/ b \in renamed)
        BY <4>1 DEF AccountsInv, ReadyKept
      <4> QED BY <2>20, <4>2
    <3> QED BY <3>1, <3>2
  <2>23. AdminsCanSignIn'
    <3> SUFFICES ASSUME NEW b \in Admins, Live(b), ~InFlight(b)', b \notin renamed, b \notin stranded
                 PROVE  pool'[admin[b].name] = [email |-> admin[b].email, state |-> "ready"]
      BY <2>5 DEF AdminsCanSignIn, Live
    <3>1. CASE b = a BY <2>8, <2>11, <3>1
    <3>2. CASE b # a
      <4>1. ~InFlight(b) BY <2>21, <3>2
      <4>2. pool[admin[b].name] = [email |-> admin[b].email, state |-> "ready"]
        BY <4>1 DEF AccountsInv, AdminsCanSignIn
      <4>3. admin[b].name # n BY <2>6, <4>2
      <4>4. pool' = [pool EXCEPT ![n].state = "ready"] BY <1>3, <2>1
      <4>5. pool'[admin[b].name] = pool[admin[b].name] BY <4>3, <4>4 DEF TypeOK
      <4> QED BY <4>2, <4>5
    <3> QED BY <3>1, <3>2
  <2> QED BY <2>12, <2>13, <2>14, <2>15, <2>17, <2>18, <2>22, <2>23 DEF AccountsInv
<1> QED BY <1>2, <1>3 DEF SetPassword

LEMMA UndoAdminAccounts ==
    ASSUME TypeOK, AccountsInv, NEW s \in Slots, UndoAdmin(s)
    PROVE  AccountsInv'
<1>1. slot[s].pc \in Creating BY DEF UndoAdmin, At, Creating
<1>2. PICK a \in Admins : a = slot[s].admin /\ a \notin Insts BY <1>1, MakerTyped
<1>3. /\ \A t \in Slots \ {s} : slot'[t] = slot[t]
      /\ slot'[s].pc \notin Creating
  <2>1. CASE End(s) BY <2>1 DEF End, Become, TypeOK, Idle, Creating
  <2>2. CASE Become(s, [slot[s] EXCEPT !.admin = NoAdmin, !.pc = "undoInst"])
    BY <2>2, SlotTyped DEF Become, TypeOK, Creating, Request
  <2> QED BY <2>1, <2>2 DEF UndoAdmin
<1>4. UNCHANGED <<pool, renamed>> BY DEF UndoAdmin
<1>5. /\ \A b \in Admins \ {a} : admin'[b] = admin[b]
      /\ \/ /\ admin'[a].state = "undone" /\ UNCHANGED stranded
         \/ /\ UNCHANGED admin /\ a \in stranded' /\ stranded \subseteq stranded'
            /\ stranded' \subseteq stranded \cup {a} \cup Insts
  <2>1. UndoneUser.state = "undone" BY DEF UndoneUser, NoAdminUser
  <2>2. CASE admin' = [admin EXCEPT ![slot[s].admin] = UndoneUser] /\ UNCHANGED stranded
    BY <1>2, <2>1, <2>2 DEF TypeOK
  <2>3. CASE /\ UNCHANGED admin
             /\ stranded' = stranded \cup {slot[s].admin}
                              \cup (IF slot[s].op = "onboard" THEN {slot[s].inst} ELSE {})
    <3>1. slot[s].op = "onboard" => slot[s].inst \in Insts
      BY <1>1, SlotTyped DEF RequestOK
    <3> QED BY <1>2, <2>3, <3>1
  <2> QED BY <2>2, <2>3 DEF UndoAdmin
<1>6. \A t \in Slots : slot'[t].pc \in Creating =>
        t # s /\ slot'[t] = slot[t] /\ slot[t].admin \in Admins \ {a} /\ slot[t].admin \notin Insts
  BY <1>1, <1>2, <1>3, MakerTyped DEF AccountsInv, OneMaker
<1>7. OneMaker' BY <1>6 DEF AccountsInv, OneMaker
<1>8. Pending'
  <2> SUFFICES ASSUME NEW t \in Slots, slot'[t].pc \in Creating
               PROVE  Exists(slot[t].admin)' /\ slot'[t].admin \notin stranded'
    BY DEF Pending
  <2>1. Exists(slot[t].admin) /\ slot[t].admin \notin stranded
    BY <1>6 DEF AccountsInv, Pending
  <2> QED BY <1>5, <1>6, <2>1 DEF Exists
<1>9. LeftThere'
  <2>1. Exists(a) /\ a \notin stranded BY <1>1, <1>2 DEF AccountsInv, Pending
  <2> QED BY <1>5, <2>1, NoneAssumption DEF AccountsInv, LeftThere, Exists
<1>10. \A t \in Slots : slot'[t].pc \in {"account", "password"} => slot'[t].pc \in Creating
  BY DEF Creating
<1>11. Named' BY <1>4, <1>5, <1>6, <1>10 DEF AccountsInv, Named
<1>12. Temporary' BY <1>4, <1>5, <1>6, <1>10 DEF AccountsInv, Temporary
<1>13. NamesApart' BY <1>6, <1>10 DEF AccountsInv, NamesApart
<1>14. InFlight(a) BY <1>1, <1>2 DEF InFlight
<1>15. \A b \in Admins : InFlight(b)' => InFlight(b) BY <1>6 DEF InFlight
<1>16. \A b \in Admins \ {a} : InFlight(b) => InFlight(b)'
  <2> SUFFICES ASSUME NEW b \in Admins \ {a}, NEW t \in Slots, slot[t].admin = b,
                      slot[t].pc \in Creating
               PROVE  InFlight(b)'
    BY DEF InFlight
  <2>1. slot'[t] = slot[t] BY <1>2, <1>3
  <2> QED BY <2>1 DEF InFlight
<1>17. ReadyKept'
  <2> SUFFICES ASSUME NEW m \in Names, pool[m].state = "ready"
               PROVE  \E b \in Admins :
                         Exists(b)' /\ ~InFlight(b)' /\ (admin'[b].name = m \/ b \in renamed)
    BY <1>4 DEF ReadyKept
  <2> PICK b \in Admins : Exists(b) /\ ~InFlight(b) /\ (admin[b].name = m \/ b \in renamed)
    BY DEF AccountsInv, ReadyKept
  <2>1. b # a BY <1>14
  <2> QED BY <1>5, <1>15, <2>1 DEF Exists
<1>18. AdminsCanSignIn'
  <2> SUFFICES ASSUME NEW b \in Admins, Live(b)', ~InFlight(b)', b \notin renamed, b \notin stranded'
               PROVE  pool[admin'[b].name] = [email |-> admin'[b].email, state |-> "ready"]
    BY <1>4 DEF AdminsCanSignIn
  <2>1. b # a BY <1>5 DEF Live
  <2>2. Live(b) /\ ~InFlight(b) /\ b \notin stranded BY <1>5, <1>16, <2>1 DEF Live
  <2> QED BY <1>5, <2>1, <2>2 DEF AccountsInv, AdminsCanSignIn
<1> QED BY <1>7, <1>8, <1>9, <1>11, <1>12, <1>13, <1>17, <1>18 DEF AccountsInv

LEMMA CreateQuiet ==
    ASSUME TypeOK, NEW s \in Slots, Create(s), ~\E n \in Names : Insert(s, n),
           ~CreateAccount(s), ~SetPassword(s), ~UndoAdmin(s)
    PROVE  Quiet(s)
<1>1. PICK r : Become(s, r) BY CreateTyped DEF Took
<1>3. ASSUME slot[s].pc \notin Creating, slot'[s].pc \notin Creating,
             UNCHANGED <<admin, pool, renamed>>,
             stranded \subseteq stranded', stranded' \subseteq stranded \cup Insts
      PROVE  Quiet(s)
  BY <1>1, <1>3, QuietSlot
<1>e. ASSUME End(s) PROVE slot'[s].pc = "idle"
  BY <1>e DEF End, Become, TypeOK, Idle
<1>4. ASSUME NEW e \in Emails, StartOnboard(s, e) PROVE Quiet(s)
  <2>1. slot'[s] = [Idle EXCEPT !.pc = "findPhone", !.op = "onboard", !.email = e]
    BY <1>4 DEF StartOnboard, Become, TypeOK
  <2>2. slot[s].pc = "idle" /\ slot'[s].pc = "findPhone" BY <1>4, <2>1 DEF StartOnboard, At, Idle
  <2> QED BY <1>3, <1>4, <2>2 DEF StartOnboard, StoresUnchanged, Creating
<1>5. ASSUME NEW e \in Emails, NEW i \in Insts \cup {NoInst}, StartCreate(s, e, i)
      PROVE  Quiet(s)
  <2> DEFINE l == IF i = NoInst THEN "findPhone" ELSE "institution"
  <2>1. slot'[s] = [Idle EXCEPT !.pc = l, !.op = "create", !.email = e, !.inst = i]
    BY <1>5 DEF StartCreate, Become, TypeOK
  <2>2. l \in {"findPhone", "institution"} OBVIOUS
  <2> HIDE DEF l
  <2>3. slot[s].pc = "idle" /\ slot'[s].pc = l BY <1>5, <2>1 DEF StartCreate, At, Idle
  <2> QED BY <1>3, <1>5, <2>2, <2>3 DEF StartCreate, StoresUnchanged, Creating
<1>6. CASE FindInstitution(s) \/ \E p \in Phones \cup {NoPhone} : FindPhone(s, p)
  <2>1. slot[s].pc \notin Creating /\ StoresUnchanged
    BY <1>6 DEF FindInstitution, FindPhone, At, Creating
  <2>2. AfterPhone(slot[s]) \in {"domainFree", "insert"} BY DEF AfterPhone
  <2>3. CASE FindInstitution(s)
    <3>1. slot'[s].pc = "findPhone" BY <2>3, SlotTyped DEF FindInstitution, Become, TypeOK, Request
    <3> QED BY <1>3, <2>1, <3>1 DEF StoresUnchanged, Creating
  <2>4. ASSUME NEW p \in Phones \cup {NoPhone}, FindPhone(s, p) PROVE Quiet(s)
    <3>1. slot'[s].pc = AfterPhone(slot[s])
      BY <2>4, SlotTyped DEF FindPhone, Become, TypeOK, Request
    <3> QED BY <1>3, <2>1, <2>2, <3>1 DEF StoresUnchanged, Creating
  <2> QED BY <1>6, <2>3, <2>4
<1>8. CASE DomainFree(s) \/ FoundInstitution(s) \/ MakeGroup(s) \/ OnboardRefused(s)
  <2>1. slot[s].pc \notin Creating /\ UNCHANGED <<admin, pool, renamed, stranded>>
    BY <1>8 DEF DomainFree, FoundInstitution, MakeGroup, OnboardRefused, At, Creating,
                StoresUnchanged
  <2>2. ASSUME NEW l, Goto(s, l) PROVE slot'[s].pc = l
    BY <2>2, SlotTyped DEF Goto, Become, TypeOK, Request
  <2>3. CASE DomainFree(s) BY <1>3, <1>e, <2>1, <2>2, <2>3 DEF DomainFree, Creating
  <2>4. CASE FoundInstitution(s)
    <3>1. slot'[s].pc = "group" BY <2>4, SlotTyped DEF FoundInstitution, Become, TypeOK, Request
    <3> QED BY <1>3, <2>1, <3>1 DEF Creating
  <2>5. CASE MakeGroup(s) BY <1>3, <2>1, <2>2, <2>5 DEF MakeGroup, Creating
  <2>6. CASE OnboardRefused(s)
    <3>1. slot'[s].pc = "undoInst" BY <2>6 DEF OnboardRefused, Become, TypeOK, Idle
    <3> QED BY <1>3, <2>1, <3>1 DEF Creating
  <2> QED BY <1>8, <2>3, <2>4, <2>5, <2>6
<1>7. CASE LoseName(s) \/ UndoInstitution(s)
  <2>1. slot[s].pc \notin Creating /\ UNCHANGED <<admin, pool, renamed>> /\ slot[s].inst \in Insts
    BY <1>7, SlotTyped DEF LoseName, UndoInstitution, At, Creating, Founding, RequestOK
  <2>2. stranded \subseteq stranded' /\ stranded' \subseteq stranded \cup Insts
    BY <1>7, <2>1 DEF LoseName, UndoInstitution
  <2>3. slot'[s].pc = "idle" BY <1>7, <1>e DEF LoseName, UndoInstitution
  <2> QED BY <1>3, <2>1, <2>2, <2>3 DEF Creating
<1> QED BY <1>4, <1>5, <1>6, <1>7, <1>8 DEF Create

LEMMA CreateAccounts ==
    ASSUME TypeOK, AccountsInv, NEW s \in Slots, Create(s)
    PROVE  AccountsInv'
BY CreateQuiet, QuietKeeps, InsertAccounts, CreateAccountAccounts, SetPasswordAccounts,
   UndoAdminAccounts

\* Where updates, rows of files and failures leave a request.
LEMMA OtherPlace ==
    ASSUME TypeOK, NEW s \in Slots, Change(s) \/ Row(s) \/ Abort(s)
    PROVE  slot'[s].pc \in {"idle", "check", "write", "row", "institution"}
<1>1. ASSUME NEW q, Find(s, q), q \in Request PROVE slot'[s].pc \in {"check", "write"}
  BY <1>1 DEF Find, NextCheck, Become, TypeOK, Request
<1>2. ASSUME NEW a \in Admins, NEW e \in Emails \cup {NoEmail}, NEW n \in Names \cup {NoName},
             NEW p \in Phones \cup {NoPhone}
      PROVE  Update(a, e, n, p) \in Request
  BY IdleTyped DEF Update, Request
<1>3. CASE \E a \in Admins : StartUpdate(s, a) BY <1>1, <1>2, <1>3 DEF StartUpdate
<1>4. CASE CheckDuplicate(s)
  <2> DEFINE rest == slot[s].todo \ {FirstOf(slot[s].todo)}
  <2>1. slot'[s].pc = NextCheck(rest)
    BY <1>4, SlotTyped DEF CheckDuplicate, Become, TypeOK, Request
  <2> QED BY <2>1 DEF NextCheck
<1>5. CASE \E e \in Emails, i \in Insts : ReadRow(s, e, i)
  BY <1>5 DEF ReadRow, Become, TypeOK, Idle
<1>6. CASE CreateRow(s) BY <1>6, SlotTyped DEF CreateRow, Become, TypeOK, Request
<1>7. ASSUME NEW p \in Phones, UpdateRow(s, p) PROVE slot'[s].pc \in {"check", "write"}
  <2>1. slot[s].admin \in Admins /\ slot[s].email \in Emails \cup {NoEmail}
    BY <1>7, SlotTyped DEF UpdateRow, Request
  <2> QED BY <1>1, <1>2, <1>7, <2>1 DEF UpdateRow
<1>8. CASE Abort(s) BY <1>8 DEF Abort, End, Become, TypeOK, Idle
<1>9. CASE WriteAdmin(s) BY <1>9 DEF WriteAdmin, End, Become, TypeOK, Idle
<1> QED BY <1>3, <1>4, <1>5, <1>6, <1>7, <1>8, <1>9 DEF Change, Row

\* Updates and deletions leave an administrator in being, and remember whose name or address
\* they change.
LEMMA OtherQuiet ==
    ASSUME TypeOK, NEW s \in Slots, Change(s) \/ Row(s) \/ Abort(s)
    PROVE  Quiet(s)
<1>1. PICK r : Become(s, r) BY ChangeTyped, RowTyped, AbortTyped DEF Took
<1>3. CASE WriteAdmin(s)
  <2>1. PICK a \in Admins : a = slot[s].admin
    BY <1>3, SlotTyped DEF WriteAdmin, At, RequestOK
  <2>2. /\ \A t \in Slots \ {s} : slot'[t] = slot[t]
        /\ slot[s].pc \notin Creating /\ slot'[s].pc \notin Creating
    BY <1>3 DEF WriteAdmin, At, End, Become, TypeOK, Idle, Creating
  <2>3. UNCHANGED <<pool, stranded>> /\ renamed \subseteq renamed' BY <1>3 DEF WriteAdmin
  <2>4. \A b \in Admins \ {a} : admin'[b] = admin[b] BY <1>3, <2>1, Written
  <2>5. /\ admin'[a].state = admin[a].state
        /\ (admin'[a].email = admin[a].email /\ admin'[a].name = admin[a].name)
             \/ ~Exists(a) \/ a \in renamed'
    BY <1>3, <2>1, Written
  <2>6. ~Exists(a) => admin'[a] = admin[a] BY <1>3, <2>1 DEF WriteAdmin
  <2>7. \A b \in Admins : admin'[b].state = admin[b].state BY <2>4, <2>5
  <2> QED BY <2>2, <2>3, <2>4, <2>5, <2>6, <2>7 DEF Quiet, Exists, Live
<1>4. CASE ~WriteAdmin(s)
  <2>1. StoresUnchanged /\ slot[s].pc \notin Creating
    BY <1>4
    DEF Change, StartUpdate, CheckDuplicate, Row, ReadRow, CreateRow, UpdateRow, Abort, At, Creating
  <2>2. slot'[s].pc \in {"idle", "check", "write", "row", "institution"} BY OtherPlace
  <2> QED BY <1>1, <2>1, <2>2, QuietSlot DEF StoresUnchanged, Creating
<1> QED BY <1>3, <1>4

LEMMA AccountsInitially == Init => AccountsInv
BY DEF Init, AccountsInv, OneMaker, Pending, LeftThere, Named, Temporary, NamesApart, ReadyKept,
       AdminsCanSignIn, Idle, Creating, NoAccount, NoAdminUser, Live

LEMMA AccountsKept == TypeOK /\ AccountsInv /\ [Next]_vars => AccountsInv'
<1> SUFFICES ASSUME TypeOK, AccountsInv, [Next]_vars PROVE AccountsInv'
  OBVIOUS
<1>1. ASSUME NEW a \in Admins, DeleteAdmin(a) PROVE AccountsInv'
  <2>1. \A b \in Admins :
          /\ Exists(b)' <=> Exists(b)
          /\ Live(b)' => Live(b)
          /\ admin'[b].name = admin[b].name /\ admin'[b].email = admin[b].email
    BY <1>1 DEF DeleteAdmin, TypeOK, AdminUser, Exists, Live
  <2>2. UNCHANGED <<slot, pool, stranded, renamed>> BY <1>1 DEF DeleteAdmin
  <2> QED BY <2>1, <2>2, AccountsQuiet
<1>2. CASE UNCHANGED vars
  <2>1. UNCHANGED <<admin, slot, pool, stranded, renamed>> BY <1>2 DEF vars
  <2> QED BY <2>1, AccountsQuiet DEF Exists, Live
<1> QED BY CreateAccounts, OtherQuiet, QuietKeeps, <1>1, <1>2 DEF Next

\* For any requests, accounts and documents match both ways: who is live can sign in, and
\* who can sign in is there.  The invariant follows a request's account from its making to
\* its password, during which nobody else makes the same administrator or the same account.
THEOREM AccountsAndDocuments == Spec => []AccountsMatch
<1>1. AccountsInv => AccountsMatch
  BY DEF AccountsInv, ReadyKept, AccountsMatch, ReadyAccountsHeld
<1> QED BY <1>1, AccountsInitially, AccountsKept, AdministrationTyped, PTL DEF Spec

-----------------------------------------------------------------------------
(* The making of administrators refines Compensation *)

PhaseOK(a) ==
    /\ admin[a].state = "absent" => AdminPhase(a) = "none"
    /\ admin[a].state = "undone" => AdminPhase(a) = "undone"
    /\ Exists(a) /\ InFlight(a) => AdminPhase(a) = "pending"
    /\ Exists(a) /\ ~InFlight(a) /\ a \in stranded => AdminPhase(a) = "left"
    /\ Exists(a) /\ ~InFlight(a) /\ a \notin stranded => AdminPhase(a) = "kept"

LEMMA PhaseOf == ASSUME NEW a \in Admins PROVE PhaseOK(a) /\ PhaseOK(a)'
BY DEF PhaseOK, AdminPhase, Exists

AdminStep == [Creation!Next]_[a \in Admins |-> AdminPhase(a)]

\* A step that takes at most one administrator on.
LEMMA OneAdmin ==
    ASSUME NEW a \in Admins,
           \A b \in Admins \ {a} : AdminPhase(b)' = AdminPhase(b),
           \/ AdminPhase(a)' = AdminPhase(a)
           \/ AdminPhase(a) = "none" /\ AdminPhase(a)' = "pending"
           \/ AdminPhase(a) = "pending" /\ AdminPhase(a)' \in {"kept", "undone", "left"}
    PROVE  AdminStep
<1> DEFINE phase == [b \in Admins |-> AdminPhase(b)]
<1>1. CASE AdminPhase(a)' = AdminPhase(a)
  <2>1. phase' = phase BY <1>1
  <2> QED BY <2>1 DEF AdminStep
<1>2. ASSUME NEW how, AdminPhase(a)' = how
      PROVE  phase' = [phase EXCEPT ![a] = how]
  BY <1>2
<1>3. CASE AdminPhase(a) = "none" /\ AdminPhase(a)' = "pending"
  <2>1. phase' = [phase EXCEPT ![a] = "pending"] BY <1>2, <1>3
  <2> QED BY <1>3, <2>1 DEF AdminStep, Creation!Next, Creation!Make
<1>4. CASE AdminPhase(a) = "pending" /\ AdminPhase(a)' \in {"kept", "undone", "left"}
  <2>1. PICK how \in {"kept", "undone", "left"} : phase' = [phase EXCEPT ![a] = how]
    BY <1>2, <1>4
  <2> QED BY <1>4, <2>1 DEF AdminStep, Creation!Next, Creation!Finish
<1> QED BY <1>1, <1>3, <1>4

LEMMA PhaseKept ==
    ASSUME NEW a \in Admins, Exists(a)' <=> Exists(a), ~Exists(a) => admin'[a] = admin[a],
           InFlight(a)' <=> InFlight(a), a \in stranded' <=> a \in stranded, TypeOK
    PROVE  AdminPhase(a)' = AdminPhase(a)
<1>1. Exists(a) \/ admin[a].state \in {"absent", "undone"} BY DEF TypeOK, AdminUser, Exists
<1> QED BY <1>1, PhaseOf DEF PhaseOK

LEMMA QuietPhases ==
    ASSUME TypeOK, NEW s \in Slots, Quiet(s)
    PROVE  AdminStep
<1>1. \A a \in Admins : InFlight(a)' <=> InFlight(a) BY DEF InFlight, Quiet
<1>2. \A a \in Admins : a \in stranded' <=> a \in stranded BY NoneAssumption DEF Quiet
<1>3. \A a \in Admins : AdminPhase(a)' = AdminPhase(a) BY <1>1, <1>2, PhaseKept DEF Quiet
<1> QED BY <1>3 DEF AdminStep

LEMMA MakingPhases ==
    ASSUME TypeOK, AccountsInv, NEW s \in Slots, Create(s), ~Quiet(s)
    PROVE  AdminStep
<1>1. ASSUME NEW n \in Names, Insert(s, n) PROVE AdminStep
  <2>1. PICK a \in Admins :
          /\ admin[a].state = "absent"
          /\ admin' = [admin EXCEPT ![a] = [state |-> "live", email |-> slot[s].email,
                                            name |-> n, phone |-> slot[s].phone]]
          /\ Become(s, [slot[s] EXCEPT !.admin = a, !.name = n, !.phone = NoPhone, !.pc = "account"])
    BY <1>1 DEF Insert
  <2>2. /\ \A t \in Slots \ {s} : slot'[t] = slot[t]
        /\ slot'[s].pc = "account" /\ slot'[s].admin = a /\ slot[s].pc \notin Creating
    BY <1>1, <2>1, SlotTyped DEF Become, TypeOK, Request, Insert, At, Creating
  <2>3. \A b \in Admins \ {a} : InFlight(b)' <=> InFlight(b) BY <2>2 DEF InFlight
  <2>4. \A b \in Admins \ {a} : admin'[b] = admin[b] BY <2>1 DEF TypeOK
  <2>5. \A b \in Admins \ {a} : AdminPhase(b)' = AdminPhase(b)
    BY <1>1, <2>3, <2>4, PhaseKept DEF Insert, Exists
  <2>6. InFlight(a)' /\ Exists(a)' BY <2>1, <2>2 DEF InFlight, Creating, Exists, TypeOK
  <2> QED BY <2>1, <2>5, <2>6, PhaseOf, OneAdmin DEF PhaseOK
<1>2. ASSUME slot[s].pc \in Creating, UNCHANGED <<admin, stranded>>,
             \A t \in Slots : /\ slot'[t].pc \in Creating <=> slot[t].pc \in Creating
                              /\ slot'[t].admin = slot[t].admin
      PROVE  AdminStep
  <2>1. \A a \in Admins : InFlight(a)' <=> InFlight(a) BY <1>2 DEF InFlight
  <2>2. \A a \in Admins : AdminPhase(a)' = AdminPhase(a)
    BY <1>2, <2>1, PhaseKept DEF Exists
  <2> QED BY <2>2 DEF AdminStep
<1>3. ASSUME slot[s].pc \in Creating, Undo(s), UNCHANGED <<admin, stranded>> PROVE AdminStep
  <2>1. \A t \in Slots : /\ slot'[t].pc \in Creating <=> slot[t].pc \in Creating
                         /\ slot'[t].admin = slot[t].admin
    BY <1>3, SlotTyped DEF Undo, Become, TypeOK, Request, Creating
  <2> QED BY <1>2, <1>3, <2>1
<1>4. CASE CreateAccount(s)
  <2>1. slot[s].pc \in Creating /\ UNCHANGED <<admin, stranded>>
    BY <1>4 DEF CreateAccount, At, Creating
  <2>2. CASE Become(s, [slot[s] EXCEPT !.email = NoEmail, !.pc = "password"])
    <3>1. \A t \in Slots : /\ slot'[t].pc \in Creating <=> slot[t].pc \in Creating
                           /\ slot'[t].admin = slot[t].admin
      BY <2>1, <2>2, SlotTyped DEF Become, TypeOK, Request, Creating
    <3> QED BY <1>2, <2>1, <3>1
  <2> QED BY <1>3, <1>4, <2>1, <2>2 DEF CreateAccount
\* The request lets go of the administrator it has made, and of no other.
<1>5. ASSUME NEW a \in Admins, a = slot[s].admin, slot[s].pc \in Creating,
             slot'[s].pc \notin Creating, \A t \in Slots \ {s} : slot'[t] = slot[t]
      PROVE  /\ Exists(a) /\ a \notin stranded /\ InFlight(a) /\ ~InFlight(a)'
             /\ \A b \in Admins \ {a} : InFlight(b)' <=> InFlight(b)
             /\ AdminPhase(a) = "pending"
  <2>1. Exists(a) /\ a \notin stranded /\ InFlight(a)
    BY <1>5 DEF AccountsInv, Pending, InFlight
  <2>2. ~InFlight(a)' BY <1>5 DEF AccountsInv, OneMaker, InFlight
  <2>3. \A b \in Admins \ {a} : InFlight(b)' <=> InFlight(b) BY <1>5 DEF InFlight
  <2> QED BY <2>1, <2>2, <2>3, PhaseOf DEF PhaseOK
<1>6. CASE SetPassword(s)
  <2>1. slot[s].pc \in Creating /\ UNCHANGED <<admin, stranded>>
    BY <1>6 DEF SetPassword, At, Creating
  <2>2. CASE Succeed(s)
    <3>1. PICK a \in Admins : a = slot[s].admin BY <2>1, MakerTyped
    <3>2. slot'[s].pc \notin Creating /\ \A t \in Slots \ {s} : slot'[t] = slot[t]
      BY <2>2 DEF Succeed, End, Become, TypeOK, Idle, Creating
    <3>3. \A b \in Admins \ {a} : AdminPhase(b)' = AdminPhase(b)
      BY <1>5, <2>1, <3>1, <3>2, PhaseKept DEF Exists
    <3>4. AdminPhase(a)' = "kept"
      BY <1>5, <2>1, <3>1, <3>2, PhaseOf DEF PhaseOK, Exists
    <3> QED BY <1>5, <2>1, <3>1, <3>2, <3>3, <3>4, OneAdmin
  <2> QED BY <1>3, <1>6, <2>1, <2>2 DEF SetPassword
<1>7. CASE UndoAdmin(s)
  <2>1. slot[s].pc \in Creating BY <1>7 DEF UndoAdmin, At, Creating
  <2>2. PICK a \in Admins : a = slot[s].admin /\ a \notin Insts BY <2>1, MakerTyped
  <2>3. slot'[s].pc \notin Creating /\ \A t \in Slots \ {s} : slot'[t] = slot[t]
    <3>1. CASE End(s) BY <3>1 DEF End, Become, TypeOK, Idle, Creating
    <3>2. CASE Become(s, [slot[s] EXCEPT !.admin = NoAdmin, !.pc = "undoInst"])
      BY <3>2, SlotTyped DEF Become, TypeOK, Creating, Request
    <3> QED BY <1>7, <3>1, <3>2 DEF UndoAdmin
  <2>4. /\ Exists(a) /\ ~InFlight(a)' /\ \A b \in Admins \ {a} : InFlight(b)' <=> InFlight(b)
        /\ AdminPhase(a) = "pending"
    BY <1>5, <2>1, <2>2, <2>3
  <2>5. CASE admin' = [admin EXCEPT ![slot[s].admin] = UndoneUser] /\ UNCHANGED stranded
    <3>1. UndoneUser.state = "undone" BY DEF UndoneUser, NoAdminUser
    <3>2. admin'[a].state = "undone" /\ \A b \in Admins \ {a} : admin'[b] = admin[b]
      BY <2>2, <2>5, <3>1 DEF TypeOK
    <3>3. \A b \in Admins \ {a} : AdminPhase(b)' = AdminPhase(b)
      BY <2>4, <2>5, <3>2, PhaseKept DEF Exists
    <3>4. AdminPhase(a)' = "undone" BY <3>2, PhaseOf DEF PhaseOK
    <3> QED BY <2>4, <3>3, <3>4, OneAdmin
  <2>6. CASE /\ UNCHANGED admin
             /\ stranded' = stranded \cup {slot[s].admin}
                              \cup (IF slot[s].op = "onboard" THEN {slot[s].inst} ELSE {})
    <3>1. slot[s].op = "onboard" => slot[s].inst \in Insts
      BY <2>1, SlotTyped DEF RequestOK
    <3>2. a \in stranded' /\ \A b \in Admins \ {a} : b \in stranded' <=> b \in stranded
      BY <2>2, <2>6, <3>1, NoneAssumption
    <3>3. \A b \in Admins \ {a} : AdminPhase(b)' = AdminPhase(b)
      BY <2>4, <2>6, <3>2, PhaseKept DEF Exists
    <3>4. AdminPhase(a)' = "left" BY <2>4, <2>6, <3>2, PhaseOf DEF PhaseOK, Exists
    <3> QED BY <2>4, <3>3, <3>4, OneAdmin
  <2> QED BY <1>7, <2>5, <2>6 DEF UndoAdmin
<1> QED BY <1>1, <1>4, <1>6, <1>7, CreateQuiet

\* The making of administrators implements Compensation: whatever is undone was still being
\* made, by the request that undoes it.
THEOREM AdminsImplementCompensation == Spec => AdminsCompensated
<1>1. Init => Creation!Init
  <2> SUFFICES ASSUME Init PROVE [a \in Admins |-> AdminPhase(a)] = [a \in Admins |-> "none"]
    BY DEF Creation!Init
  <2> QED BY PhaseOf DEF Init, PhaseOK, NoAdminUser
<1>2. TypeOK /\ AccountsInv /\ [Next]_vars => AdminStep
  <2> SUFFICES ASSUME TypeOK, AccountsInv, [Next]_vars PROVE AdminStep
    OBVIOUS
  <2>1. ASSUME NEW a \in Admins, DeleteAdmin(a) PROVE AdminStep
    <3>1. \A b \in Admins : /\ Exists(b)' <=> Exists(b)
                            /\ ~Exists(b) => admin'[b] = admin[b]
      BY <2>1 DEF DeleteAdmin, TypeOK, AdminUser, Exists, Live
    <3>2. UNCHANGED <<slot, stranded>> BY <2>1 DEF DeleteAdmin
    <3>3. \A b \in Admins : AdminPhase(b)' = AdminPhase(b)
      BY <3>1, <3>2, PhaseKept DEF InFlight
    <3> QED BY <3>3 DEF AdminStep
  <2>2. CASE UNCHANGED vars
    BY <2>2 DEF vars, AdminStep, AdminPhase, Exists, InFlight
  <2> QED BY MakingPhases, QuietPhases, OtherQuiet, <2>1, <2>2 DEF Next
<1>3. Spec => []AccountsInv
  <2>1. Init => AccountsInv BY AccountsInitially
  <2> QED BY <2>1, AccountsKept, AdministrationTyped, PTL DEF Spec
<1> QED BY <1>1, <1>2, <1>3, AdministrationTyped, PTL DEF Spec, AdminsCompensated, Creation!Spec, AdminStep

-----------------------------------------------------------------------------
(* The founding of institutions refines Compensation *)

\* Each institution is founded by one request.
OneFounder ==
    \A s, t \in Slots : s # t => \A i \in Insts : ~(Holds(slot[s], i) /\ Holds(slot[t], i))

\* Until it is over the institution is active, and nobody has given it up.
HeldActive ==
    \A s \in Slots : \A i \in Insts :
        Holds(slot[s], i) => inst[i].state = "active" /\ i \notin stranded

LeftFounded == \A i \in Insts : i \in stranded => inst[i].state # "absent"

FoundingInv == OneFounder /\ HeldActive /\ LeftFounded

InstPhaseOK(i) ==
    /\ inst[i].state = "absent" => InstPhase(i) = "none"
    /\ inst[i].state = "deleted" => InstPhase(i) = "undone"
    /\ inst[i].state = "active" /\ Held(i) => InstPhase(i) = "pending"
    /\ inst[i].state = "active" /\ ~Held(i) /\ i \in stranded => InstPhase(i) = "left"
    /\ inst[i].state = "active" /\ ~Held(i) /\ i \notin stranded => InstPhase(i) = "kept"

LEMMA InstPhaseOf == ASSUME NEW i \in Insts PROVE InstPhaseOK(i) /\ InstPhaseOK(i)'
BY DEF InstPhaseOK, InstPhase

InstStep == [Foundation!Next]_[i \in Insts |-> InstPhase(i)]

\* A step that takes at most one institution on.
LEMMA OneInst ==
    ASSUME NEW i \in Insts,
           \A j \in Insts \ {i} : InstPhase(j)' = InstPhase(j),
           \/ InstPhase(i)' = InstPhase(i)
           \/ InstPhase(i) = "none" /\ InstPhase(i)' = "pending"
           \/ InstPhase(i) = "pending" /\ InstPhase(i)' \in {"kept", "undone", "left"}
    PROVE  InstStep
<1> DEFINE phase == [j \in Insts |-> InstPhase(j)]
<1>1. CASE InstPhase(i)' = InstPhase(i)
  <2>1. phase' = phase BY <1>1
  <2> QED BY <2>1 DEF InstStep
<1>2. ASSUME NEW how, InstPhase(i)' = how
      PROVE  phase' = [phase EXCEPT ![i] = how]
  BY <1>2
<1>3. CASE InstPhase(i) = "none" /\ InstPhase(i)' = "pending"
  <2>1. phase' = [phase EXCEPT ![i] = "pending"] BY <1>2, <1>3
  <2> QED BY <1>3, <2>1 DEF InstStep, Foundation!Next, Foundation!Make
<1>4. CASE InstPhase(i) = "pending" /\ InstPhase(i)' \in {"kept", "undone", "left"}
  <2>1. PICK how \in {"kept", "undone", "left"} : phase' = [phase EXCEPT ![i] = how]
    BY <1>2, <1>4
  <2> QED BY <1>4, <2>1 DEF InstStep, Foundation!Next, Foundation!Finish
<1> QED BY <1>1, <1>3, <1>4

LEMMA InstPhaseKept ==
    ASSUME TypeOK, NEW i \in Insts, inst'[i].state = inst[i].state, Held(i)' <=> Held(i),
           i \in stranded' <=> i \in stranded
    PROVE  InstPhase(i)' = InstPhase(i)
<1>1. inst[i].state \in {"absent", "active", "deleted"} BY DEF TypeOK, Institution
<1> QED BY <1>1, InstPhaseOf DEF InstPhaseOK

\* Steps that found nothing, and let go of nothing.
Steady(s) ==
    /\ \A t \in Slots \ {s} : slot'[t] = slot[t]
    /\ \A i \in Insts : /\ Holds(slot'[s], i) <=> Holds(slot[s], i)
                        /\ inst'[i].state = inst[i].state
                        /\ i \in stranded' <=> i \in stranded

LEMMA SteadyKeeps ==
    ASSUME TypeOK, FoundingInv, NEW s \in Slots, Steady(s)
    PROVE  FoundingInv' /\ InstStep
<1>1. \A t \in Slots, i \in Insts : Holds(slot'[t], i) <=> Holds(slot[t], i)
  BY DEF Steady
<1>2. OneFounder' BY <1>1 DEF FoundingInv, OneFounder, Holds
<1>3. HeldActive'
  <2> SUFFICES ASSUME NEW t \in Slots, NEW i \in Insts, Holds(slot'[t], i)
               PROVE  inst'[i].state = "active" /\ i \notin stranded'
    BY DEF HeldActive, Holds
  <2>1. Holds(slot[t], i) BY <1>1
  <2> QED BY <2>1 DEF FoundingInv, HeldActive, Steady
<1>4. LeftFounded' BY DEF FoundingInv, LeftFounded, Steady
<1>5. \A i \in Insts : Held(i)' <=> Held(i) BY <1>1 DEF Held, Holds
<1>6. \A i \in Insts : InstPhase(i)' = InstPhase(i) BY <1>5, InstPhaseKept DEF Steady
<1> QED BY <1>2, <1>3, <1>4, <1>6 DEF FoundingInv, InstStep

\* Steps by which a request lets go of its institution, and what becomes of it.
LEMMA LetGo ==
    ASSUME TypeOK, FoundingInv, NEW s \in Slots, NEW i \in Insts, Holds(slot[s], i),
           slot'[s].pc \notin Creating \cup Founding, \A t \in Slots \ {s} : slot'[t] = slot[t],
           \A j \in Insts \ {i} : inst'[j] = inst[j] /\ (j \in stranded' <=> j \in stranded),
           inst'[i].state \in {"active", "deleted"}
    PROVE  FoundingInv' /\ InstStep
<1>1. \A t \in Slots, j \in Insts : Holds(slot'[t], j) => t # s /\ Holds(slot[t], j)
  BY DEF Holds
<1>2. OneFounder' BY <1>1 DEF FoundingInv, OneFounder, Holds
<1>3. \A t \in Slots : ~Holds(slot'[t], i) BY <1>1 DEF FoundingInv, OneFounder
<1>4. HeldActive'
  <2> SUFFICES ASSUME NEW t \in Slots, NEW j \in Insts, Holds(slot'[t], j)
               PROVE  inst'[j].state = "active" /\ j \notin stranded'
    BY DEF HeldActive, Holds
  <2>1. Holds(slot[t], j) /\ j # i BY <1>1, <1>3
  <2> QED BY <2>1 DEF FoundingInv, HeldActive
<1>5. LeftFounded' BY DEF FoundingInv, LeftFounded
<1>6. ~Held(i)' BY <1>3 DEF Held, Holds
<1>7. \A j \in Insts \ {i} : Held(j)' <=> Held(j)
  <2> SUFFICES ASSUME NEW j \in Insts \ {i}
               PROVE  Held(j)' <=> Held(j)
    OBVIOUS
  <2>1. ~Holds(slot[s], j) BY DEF Holds
  <2>2. Held(j) => Held(j)'
    <3> SUFFICES ASSUME NEW t \in Slots, Holds(slot[t], j) PROVE Held(j)'
      BY DEF Held, Holds
    <3>1. slot'[t] = slot[t] BY <2>1
    <3> QED BY <3>1 DEF Held, Holds
  <2>3. Held(j)' => Held(j) BY <1>1 DEF Held, Holds
  <2> QED BY <2>2, <2>3
<1>8. \A j \in Insts \ {i} : InstPhase(j)' = InstPhase(j) BY <1>7, InstPhaseKept
<1>9. inst[i].state = "active" /\ Held(i) BY DEF FoundingInv, HeldActive, Held, Holds
<1>10. InstPhase(i) = "pending" BY <1>9, InstPhaseOf DEF InstPhaseOK
<1>11. InstPhase(i)' \in {"kept", "undone", "left"} BY <1>6, InstPhaseOf DEF InstPhaseOK
<1> QED BY <1>2, <1>4, <1>5, <1>8, <1>10, <1>11, OneInst DEF FoundingInv

LEMMA FoundedPhases ==
    ASSUME TypeOK, FoundingInv, NEW s \in Slots, FoundInstitution(s)
    PROVE  FoundingInv' /\ InstStep
<1>1. PICK i \in Insts :
        /\ inst[i].state = "absent"
        /\ inst' = [inst EXCEPT ![i] = [domain |-> Domain[slot[s].email],
                                        group |-> FALSE, state |-> "active"]]
        /\ Become(s, [slot[s] EXCEPT !.inst = i, !.pc = "group"])
  BY DEF FoundInstitution
<1>2. slot[s].pc = "found" /\ slot[s].op = "onboard" /\ UNCHANGED stranded
  BY SlotTyped DEF FoundInstitution, At, RequestOK
<1>3. /\ \A t \in Slots \ {s} : slot'[t] = slot[t]
      /\ slot'[s].pc = "group" /\ slot'[s].op = "onboard" /\ slot'[s].inst = i
  BY <1>1, <1>2, SlotTyped DEF Become, TypeOK, Request
<1>4. inst'[i].state = "active" /\ \A j \in Insts \ {i} : inst'[j] = inst[j]
  BY <1>1 DEF TypeOK
<1>5. \A t \in Slots : ~Holds(slot[t], i) BY <1>1 DEF FoundingInv, HeldActive
<1>6. \A j \in Insts : /\ ~Holds(slot[s], j)
                       /\ Holds(slot'[s], j) <=> j = i
  BY <1>2, <1>3 DEF Holds, Creating, Founding
<1>7. OneFounder'
  <2> SUFFICES ASSUME NEW t \in Slots, NEW u \in Slots, t # u, NEW j \in Insts,
                      Holds(slot'[t], j), Holds(slot'[u], j)
               PROVE  FALSE
    BY DEF OneFounder, Holds
  <2> QED BY <1>3, <1>5, <1>6 DEF FoundingInv, OneFounder
<1>8. HeldActive'
  <2> SUFFICES ASSUME NEW t \in Slots, NEW j \in Insts, Holds(slot'[t], j)
               PROVE  inst'[j].state = "active" /\ j \notin stranded'
    BY DEF HeldActive, Holds
  <2>1. i \notin stranded BY <1>1 DEF FoundingInv, LeftFounded
  <2>2. CASE t = s BY <1>2, <1>4, <1>6, <2>1, <2>2
  <2>3. CASE t # s
    <3>1. Holds(slot[t], j) /\ j # i BY <1>3, <1>5, <2>3
    <3> QED BY <1>2, <1>4, <3>1 DEF FoundingInv, HeldActive
  <2> QED BY <2>2, <2>3
<1>9. LeftFounded' BY <1>2, <1>4 DEF FoundingInv, LeftFounded
<1>10. Held(i)' BY <1>6 DEF Held, Holds
<1>11. \A j \in Insts \ {i} : Held(j)' <=> Held(j)
  <2> SUFFICES ASSUME NEW j \in Insts \ {i} PROVE Held(j)' <=> Held(j)
    OBVIOUS
  <2>1. \A t \in Slots : Holds(slot'[t], j) <=> Holds(slot[t], j) BY <1>3, <1>6
  <2> QED BY <2>1 DEF Held, Holds
<1>12. \A j \in Insts \ {i} : InstPhase(j)' = InstPhase(j)
  BY <1>2, <1>4, <1>11, InstPhaseKept
<1>13. InstPhase(i) = "none" /\ InstPhase(i)' = "pending"
  BY <1>1, <1>4, <1>10, InstPhaseOf DEF InstPhaseOK
<1> QED BY <1>7, <1>8, <1>9, <1>12, <1>13, OneInst DEF FoundingInv

\* A slot whose request keeps its institution, or has none.
LEMMA SteadySlot ==
    ASSUME TypeOK, NEW s \in Slots, NEW r, Become(s, r),
           \A i \in Insts : Holds(slot'[s], i) <=> Holds(slot[s], i),
           \A i \in Insts : inst'[i].state = inst[i].state,
           \A i \in Insts : i \in stranded' <=> i \in stranded
    PROVE  Steady(s)
BY DEF Steady, Become, TypeOK

LEMMA CreateFounding ==
    ASSUME TypeOK, FoundingInv, NEW s \in Slots, Create(s)
    PROVE  FoundingInv' /\ InstStep
<1> USE SlotTyped
<1>1. PICK r : Become(s, r) BY CreateTyped DEF Took
<1>2. \A t \in Slots \ {s} : slot'[t] = slot[t] BY <1>1 DEF Become, TypeOK
<1>3. ASSUME \A i \in Insts : Holds(slot'[s], i) <=> Holds(slot[s], i),
             \A i \in Insts : inst'[i].state = inst[i].state,
             \A i \in Insts : i \in stranded' <=> i \in stranded
      PROVE  FoundingInv' /\ InstStep
  BY <1>1, <1>3, SteadySlot, SteadyKeeps
\* A request that holds nothing before and after.
<1>4. ASSUME slot[s].op # "onboard" \/ slot[s].pc \notin Creating \cup Founding,
             slot'[s].op # "onboard" \/ slot'[s].pc \notin Creating \cup Founding,
             UNCHANGED <<inst, stranded>>
      PROVE  FoundingInv' /\ InstStep
  BY <1>3, <1>4 DEF Holds
\* A request that goes on with what it holds.
<1>5. ASSUME slot[s].pc \in Creating \cup Founding, slot'[s].pc \in Creating \cup Founding,
             slot'[s].op = slot[s].op, slot'[s].inst = slot[s].inst,
             \A i \in Insts : inst'[i].state = inst[i].state,
             \A i \in Insts : i \in stranded' <=> i \in stranded
      PROVE  FoundingInv' /\ InstStep
  BY <1>3, <1>5 DEF Holds
<1>e. ASSUME End(s) PROVE slot'[s].pc = "idle"
  BY <1>e DEF End, Become, TypeOK, Idle
<1>6. ASSUME NEW e \in Emails, StartOnboard(s, e) PROVE FoundingInv' /\ InstStep
  <2>1. slot'[s] = [Idle EXCEPT !.pc = "findPhone", !.op = "onboard", !.email = e]
    BY <1>6 DEF StartOnboard, Become, TypeOK
  <2>2. slot[s].pc = "idle" /\ slot'[s].pc = "findPhone" BY <1>6, <2>1 DEF StartOnboard, At, Idle
  <2> QED BY <1>4, <1>6, <2>2 DEF StartOnboard, StoresUnchanged, Creating, Founding
<1>7. ASSUME NEW e \in Emails, NEW i \in Insts \cup {NoInst}, StartCreate(s, e, i)
      PROVE  FoundingInv' /\ InstStep
  <2> DEFINE l == IF i = NoInst THEN "findPhone" ELSE "institution"
  <2>1. slot'[s] = [Idle EXCEPT !.pc = l, !.op = "create", !.email = e, !.inst = i]
    BY <1>7 DEF StartCreate, Become, TypeOK
  <2> HIDE DEF l
  <2>2. slot[s].pc = "idle" /\ slot'[s].op = "create" BY <1>7, <2>1 DEF StartCreate, At, Idle
  <2> QED BY <1>4, <1>7, <2>2 DEF StartCreate, StoresUnchanged, Creating, Founding
<1>8. CASE FindInstitution(s)
  <2>1. slot[s].pc = "institution" /\ slot'[s].pc = "findPhone"
    BY <1>8 DEF FindInstitution, At, Become, TypeOK, Request
  <2> QED BY <1>4, <1>8, <2>1 DEF FindInstitution, StoresUnchanged, Creating, Founding
<1>9. ASSUME NEW p \in Phones \cup {NoPhone}, FindPhone(s, p) PROVE FoundingInv' /\ InstStep
  <2>1. /\ slot[s].pc = "findPhone" /\ slot'[s].op = slot[s].op
        /\ slot'[s].pc = AfterPhone(slot[s])
    BY <1>9 DEF FindPhone, At, Become, TypeOK, Request
  <2>2. slot'[s].op = "onboard" => slot'[s].pc = "domainFree" BY <2>1 DEF AfterPhone
  <2> QED BY <1>4, <1>9, <2>1, <2>2 DEF FindPhone, StoresUnchanged, Creating, Founding
<1>10. CASE DomainFree(s)
  <2>1. slot[s].pc = "domainFree" /\ slot'[s].pc \in {"idle", "found"}
    BY <1>e, <1>10 DEF DomainFree, At, Goto, Become, TypeOK, Request
  <2> QED BY <1>4, <1>10, <2>1 DEF DomainFree, StoresUnchanged, Creating, Founding
<1>11. CASE LoseName(s)
  <2>1. slot[s].pc = "group" /\ slot[s].op = "onboard" /\ slot[s].inst \in Insts
    BY <1>11 DEF LoseName, At, RequestOK, Founding
  <2>2. PICK i \in Insts : i = slot[s].inst BY <2>1
  <2>3. Holds(slot[s], i) BY <2>1, <2>2 DEF Holds, Founding
  <2>4. inst[i].state = "active" BY <2>3 DEF FoundingInv, HeldActive
  <2>5. slot'[s].pc \notin Creating \cup Founding
    BY <1>e, <1>11 DEF LoseName, Creating, Founding
  <2> QED BY <1>2, <1>11, <2>2, <2>3, <2>4, <2>5, LetGo DEF LoseName
<1>12. CASE MakeGroup(s)
  <2>1. /\ slot[s].pc = "group" /\ slot'[s].pc = "insert" /\ slot'[s].op = slot[s].op
        /\ slot'[s].inst = slot[s].inst
    BY <1>12 DEF MakeGroup, At, Goto, Become, TypeOK, Request
  <2>2. \A j \in Insts : inst'[j].state = inst[j].state
    BY <1>12 DEF MakeGroup, TypeOK, Institution
  <2> QED BY <1>5, <1>12, <2>1, <2>2 DEF MakeGroup, Founding
<1>13. ASSUME NEW n \in Names, Insert(s, n) PROVE FoundingInv' /\ InstStep
  <2>1. /\ slot[s].pc = "insert" /\ slot'[s].pc = "account" /\ slot'[s].op = slot[s].op
        /\ slot'[s].inst = slot[s].inst
    BY <1>13 DEF Insert, At, Become, TypeOK, Request
  <2> QED BY <1>5, <1>13, <2>1 DEF Insert, Founding, Creating
<1>14. CASE OnboardRefused(s)
  <2>1. /\ slot[s].pc = "insert" /\ slot'[s].pc = "undoInst" /\ slot'[s].op = slot[s].op
        /\ slot'[s].inst = slot[s].inst
    BY <1>14 DEF OnboardRefused, At, Become, TypeOK, Idle
  <2> QED BY <1>5, <1>14, <2>1 DEF OnboardRefused, StoresUnchanged, Founding
<1>15. ASSUME Undo(s), slot[s].pc \in Creating, UNCHANGED <<inst, stranded>>
       PROVE  FoundingInv' /\ InstStep
  <2>1. slot'[s].pc = "undoAdmin" /\ slot'[s].op = slot[s].op /\ slot'[s].inst = slot[s].inst
    BY <1>15 DEF Undo, Become, TypeOK, Request
  <2> QED BY <1>5, <1>15, <2>1 DEF Creating
<1>16. CASE CreateAccount(s)
  <2>1. slot[s].pc \in Creating BY <1>16 DEF CreateAccount, At, Creating
  <2>2. CASE Become(s, [slot[s] EXCEPT !.email = NoEmail, !.pc = "password"])
    <3>1. slot'[s].pc = "password" /\ slot'[s].op = slot[s].op /\ slot'[s].inst = slot[s].inst
      BY <2>2 DEF Become, TypeOK, Request
    <3> QED BY <1>5, <1>16, <2>1, <3>1 DEF CreateAccount, Creating
  <2> QED BY <1>15, <1>16, <2>1, <2>2 DEF CreateAccount
<1>17. CASE SetPassword(s)
  <2>1. slot[s].pc \in Creating /\ UNCHANGED <<inst, stranded>>
    BY <1>17 DEF SetPassword, At, Creating
  <2>2. CASE Succeed(s)
    <3>1. slot'[s].pc \notin Creating \cup Founding
      BY <1>e, <2>2 DEF Succeed, Creating, Founding
    <3>2. CASE slot[s].op # "onboard" BY <1>4, <2>1, <3>1, <3>2
    <3>3. CASE slot[s].op = "onboard"
      <4>1. PICK i \in Insts : i = slot[s].inst BY <2>1, <3>3 DEF RequestOK
      <4>2. Holds(slot[s], i) BY <2>1, <3>3, <4>1 DEF Holds
      <4>3. inst[i].state = "active" BY <4>2 DEF FoundingInv, HeldActive
      <4> QED BY <1>2, <2>1, <3>1, <4>2, <4>3, LetGo
    <3> QED BY <3>2, <3>3
  <2> QED BY <1>15, <1>17, <2>1, <2>2 DEF SetPassword
<1>18. CASE UndoAdmin(s)
  <2>1. slot[s].pc \in Creating /\ slot[s].admin \notin Insts /\ UNCHANGED inst
    BY <1>18, MakerTyped DEF UndoAdmin, At, Creating
  <2>2. CASE slot[s].op # "onboard"
    <3>1. \A i \in Insts : i \in stranded' <=> i \in stranded BY <1>18, <2>1, <2>2 DEF UndoAdmin
    <3>2. slot'[s].pc = "idle" BY <1>e, <1>18, <2>2 DEF UndoAdmin
    <3> QED BY <1>3, <2>1, <2>2, <3>1, <3>2 DEF Holds, Creating, Founding
  <2>3. CASE slot[s].op = "onboard" /\ UNCHANGED stranded
               /\ Become(s, [slot[s] EXCEPT !.admin = NoAdmin, !.pc = "undoInst"])
    <3>1. slot'[s].pc = "undoInst" /\ slot'[s].op = slot[s].op /\ slot'[s].inst = slot[s].inst
      BY <2>3 DEF Become, TypeOK, Request
    <3> QED BY <1>5, <2>1, <2>3, <3>1 DEF Founding
  <2>4. CASE slot[s].op = "onboard" /\ End(s)
               /\ stranded' = stranded \cup {slot[s].admin} \cup {slot[s].inst}
    <3>1. PICK i \in Insts : i = slot[s].inst BY <2>1, <2>4 DEF RequestOK
    <3>2. Holds(slot[s], i) BY <2>1, <2>4, <3>1 DEF Holds
    <3>3. inst[i].state = "active" BY <3>2 DEF FoundingInv, HeldActive
    <3>4. slot'[s].pc \notin Creating \cup Founding BY <1>e, <2>4 DEF Creating, Founding
    <3> QED BY <1>2, <2>1, <2>4, <3>1, <3>2, <3>3, <3>4, LetGo
  <2> QED BY <1>18, <2>2, <2>3, <2>4 DEF UndoAdmin
<1>19. CASE UndoInstitution(s)
  <2>1. slot[s].pc = "undoInst" /\ slot[s].op = "onboard" /\ slot[s].inst \in Insts
    BY <1>19 DEF UndoInstitution, At, RequestOK, Founding
  <2>2. PICK i \in Insts : i = slot[s].inst BY <2>1
  <2>3. Holds(slot[s], i) BY <2>1, <2>2 DEF Holds, Founding
  <2>4. inst[i].state = "active" BY <2>3 DEF FoundingInv, HeldActive
  <2>5. slot'[s].pc \notin Creating \cup Founding
    BY <1>e, <1>19 DEF UndoInstitution, Creating, Founding
  <2>6. /\ \A j \in Insts \ {i} : inst'[j] = inst[j] /\ (j \in stranded' <=> j \in stranded)
        /\ inst'[i].state \in {"active", "deleted"}
    BY <1>19, <2>2, <2>4 DEF UndoInstitution, TypeOK, Institution
  <2> QED BY <1>2, <2>3, <2>5, <2>6, LetGo
<1> QED
  BY <1>6, <1>7, <1>8, <1>9, <1>10, <1>11, <1>12, <1>13, <1>14, <1>16, <1>17, <1>18, <1>19,
     FoundedPhases
  DEF Create

LEMMA OtherFounding ==
    ASSUME TypeOK, FoundingInv, NEW s \in Slots, Change(s) \/ Row(s) \/ Abort(s)
    PROVE  FoundingInv' /\ InstStep
<1>1. PICK r : Become(s, r) BY ChangeTyped, RowTyped, AbortTyped DEF Took
<1>2. UNCHANGED <<inst, stranded>>
  BY DEF Change, StartUpdate, CheckDuplicate, WriteAdmin, Row, ReadRow, CreateRow, UpdateRow, Abort,
         StoresUnchanged
<1>3. slot[s].op # "onboard" \/ slot[s].pc \notin Creating \cup Founding
  BY DEF Change, StartUpdate, CheckDuplicate, WriteAdmin, Row, ReadRow, CreateRow, UpdateRow, Abort,
         At, Creating, Founding
<1>4. slot'[s].pc \notin Creating \cup Founding BY OtherPlace DEF Creating, Founding
<1>5. \A i \in Insts : Holds(slot'[s], i) <=> Holds(slot[s], i) BY <1>3, <1>4 DEF Holds
<1> QED BY <1>1, <1>2, <1>5, SteadySlot, SteadyKeeps

\* The founding of institutions implements Compensation: whatever is taken back was still
\* being founded, by the onboarding that takes it back.
THEOREM InstitutionsImplementCompensation == Spec => InstitutionsCompensated
<1>1. Init => Foundation!Init /\ FoundingInv
  <2> SUFFICES ASSUME Init
               PROVE  [i \in Insts |-> InstPhase(i)] = [i \in Insts |-> "none"] /\ FoundingInv
    BY DEF Foundation!Init
  <2>1. [i \in Insts |-> InstPhase(i)] = [i \in Insts |-> "none"]
    BY InstPhaseOf DEF Init, InstPhaseOK, NoInstitution
  <2>2. FoundingInv
    BY DEF Init, FoundingInv, OneFounder, HeldActive, LeftFounded, Holds, Idle
  <2> QED BY <2>1, <2>2
<1>2. TypeOK /\ FoundingInv /\ [Next]_vars => FoundingInv' /\ InstStep
  <2> SUFFICES ASSUME TypeOK, FoundingInv, [Next]_vars PROVE FoundingInv' /\ InstStep
    OBVIOUS
  <2>1. CASE \E a \in Admins : DeleteAdmin(a)
    BY <2>1 DEF DeleteAdmin, FoundingInv, OneFounder, HeldActive, LeftFounded, InstStep, InstPhase,
                Held
  <2>2. CASE UNCHANGED vars
    BY <2>2 DEF vars, FoundingInv, OneFounder, HeldActive, LeftFounded, InstStep, InstPhase, Held
  <2> QED BY CreateFounding, OtherFounding, <2>1, <2>2 DEF Next
<1> QED
  BY <1>1, <1>2, AdministrationTyped, PTL
  DEF Spec, InstitutionsCompensated, Foundation!Spec, InstStep

\* Neither administrators nor institutions are undone once they have been made.
THEOREM BothCompensated == Spec => Compensated
BY AdminsImplementCompensation, InstitutionsImplementCompensation, PTL DEF Compensated

\* What is over is over, of administrators: one whose creation was answered with success is
\* never undone, and one that was undone never comes back, whatever requests of the same
\* address or name fail afterwards.
THEOREM AdminsOverForGood == Spec => Creation!OverForGood
<1>1. Spec => [][Creation!Next]_[a \in Admins |-> AdminPhase(a)]
  BY AdminsImplementCompensation, PTL DEF AdminsCompensated, Creation!Spec
<1>2. [Creation!Next]_[a \in Admins |-> AdminPhase(a)] =>
        [\A i \in Admins :
            [a \in Admins |-> AdminPhase(a)][i] \in {"kept", "undone", "left"} =>
              [a \in Admins |-> AdminPhase(a)]'[i] = [a \in Admins |-> AdminPhase(a)][i]
        ]_[a \in Admins |-> AdminPhase(a)]
  BY DEF Creation!Next, Creation!Make, Creation!Finish
<1> QED
  BY <1>1, <1>2, PTL DEF Creation!OverForGood

\* The same of institutions: one that was founded is never taken back by a later failure, of
\* its own onboarding or of another of its domain, and one that was taken back stays away.
THEOREM InstitutionsOverForGood == Spec => Foundation!OverForGood
<1>1. Spec => [][Foundation!Next]_[i \in Insts |-> InstPhase(i)]
  BY InstitutionsImplementCompensation, PTL DEF InstitutionsCompensated, Foundation!Spec
<1>2. [Foundation!Next]_[i \in Insts |-> InstPhase(i)] =>
        [\A j \in Insts :
            [i \in Insts |-> InstPhase(i)][j] \in {"kept", "undone", "left"} =>
              [i \in Insts |-> InstPhase(i)]'[j] = [i \in Insts |-> InstPhase(i)][j]
        ]_[i \in Insts |-> InstPhase(i)]
  BY DEF Foundation!Next, Foundation!Make, Foundation!Finish
<1> QED
  BY <1>1, <1>2, PTL DEF Foundation!OverForGood
=============================================================================
