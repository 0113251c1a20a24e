--------------------------- MODULE BackOfficeProofs ---------------------------
(***************************************************************************)
(* Proofs about BackOffice, for any users, institutions, reports and       *)
(* requests: what the administrators decide, and what the scripts leave.   *)
(***************************************************************************)
EXTENDS BackOffice, TLAPS

-----------------------------------------------------------------------------
(* Types *)

LEMMA IdleOK ==
    /\ Idle \in Request /\ Idle.pc = "idle" /\ Idle.report = NoReport
BY DEF Idle, Request, Labels

LEMMA UnseenOK == Unseen \in Seen
BY DEF Unseen, Seen, Statuses, Legacy

RequestOK(q) ==
    /\ q \in Request
    /\ q.pc \in {"settle", "block", "remove"} => q.report \in Reports
    /\ q.pc \in {"institution", "sever", "save", "block"} => q.reported \in Users
    /\ q.pc \in {"institution", "sever", "save"} => q.reporter \in Users

LEMMA SlotOK == ASSUME ModTypeOK, NEW s \in Slots PROVE RequestOK(slot[s])
BY DEF ModTypeOK, RequestOK

\* The part of the types that a request's step leaves to its slot.
LEMMA BecomeOK ==
    ASSUME ModTypeOK, NEW s \in Slots, NEW q, RequestOK(q), Become(s, q)
    PROVE  /\ slot' \in [Slots -> Request]
           /\ \A t \in Slots : RequestOK(slot'[t])
           /\ moved' \subseteq Slots
BY SlotOK DEF Become, RequestOK, ModTypeOK

LEMMA GotoOK ==
    ASSUME ModTypeOK, NEW s \in Slots, NEW l, Goto(s, l),
           \/ slot[s].pc = "institution" /\ l = "sever"
           \/ slot[s].pc = "sever" /\ l = "save"
    PROVE  \E q : RequestOK(q) /\ Become(s, q)
<1> DEFINE q == [slot[s] EXCEPT !.pc = l]
<1>1. RequestOK(q) BY SlotOK DEF RequestOK, Request, Labels
<1> QED BY <1>1 DEF Goto

LEMMA DoneOK ==
    ASSUME NEW s \in Slots, Done(s)
    PROVE  \E q : RequestOK(q) /\ Become(s, q)
BY IdleOK DEF Done, RequestOK

LEMMA HandleSlot ==
    ASSUME ModTypeOK, NEW s \in Slots, Handle(s)
    PROVE  \E q : RequestOK(q) /\ Become(s, q)
<1>1. ASSUME NEW u \in Users, NEW v \in Users, StartReport(s, u, v)
      PROVE  \E q : RequestOK(q) /\ Become(s, q)
  <2> DEFINE q == [Idle EXCEPT !.pc = "institution", !.reporter = u, !.reported = v]
  <2>1. RequestOK(q) BY DEF Idle, RequestOK, Request, Labels
  <2> QED BY <1>1, <2>1 DEF StartReport
<1>2. CASE ResolveInstitution(s) BY <1>2, GotoOK DEF ResolveInstitution, At
<1>3. CASE Sever(s) BY <1>3, GotoOK DEF Sever, At
<1>4. ASSUME NEW r \in Reports, SaveReport(s, r) PROVE \E q : RequestOK(q) /\ Become(s, q)
  BY <1>4, DoneOK DEF SaveReport
<1>5. ASSUME NEW r \in Reports, NEW scope \in Insts \cup {Super}, NEW block \in BOOLEAN,
             StartSettle(s, r, scope, block)
      PROVE  \E q : RequestOK(q) /\ Become(s, q)
  <2> DEFINE q == [Idle EXCEPT !.pc = "settle", !.report = r, !.scope = scope, !.block = block]
  <2>1. RequestOK(q) BY DEF Idle, RequestOK, Request, Labels
  <2> QED BY <1>5, <2>1 DEF StartSettle
<1>6. ASSUME NEW r \in Reports, NEW scope \in Insts \cup {Super}, StartRemove(s, r, scope)
      PROVE  \E q : RequestOK(q) /\ Become(s, q)
  <2> DEFINE q == [Idle EXCEPT !.pc = "remove", !.report = r, !.scope = scope]
  <2>1. RequestOK(q) BY DEF Idle, RequestOK, Request, Labels
  <2> QED BY <1>6, <2>1 DEF StartRemove
<1>7. CASE Settle(s)
  <2> PICK r \in Reports : r = slot[s].report BY <1>7, SlotOK DEF Settle, At, RequestOK
  <2>1. CASE There(r) /\ Become(s, [Idle EXCEPT !.pc = "block", !.report = r,
                                               !.reported = report[r].reported])
    <3>1. report[r].reported \in Users BY <2>1 DEF There, ModTypeOK
    <3>2. RequestOK([Idle EXCEPT !.pc = "block", !.report = r, !.reported = report[r].reported])
      BY <3>1 DEF Idle, RequestOK, Request, Labels
    <3> QED BY <2>1, <3>2
  <2>2. CASE Done(s) BY <2>2, DoneOK
  <2> QED BY <1>7, <2>1, <2>2 DEF Settle
<1>8. CASE BlockUser(s) \/ Remove(s) \/ Abort(s) BY <1>8, DoneOK DEF BlockUser, Remove, Abort
<1> QED BY <1>1, <1>2, <1>3, <1>4, <1>5, <1>6, <1>7, <1>8 DEF Handle

ReportsOK ==
    /\ report \in [Reports -> Report]
    /\ \A r \in Reports : report[r].state # "unused" =>
          report[r].reporter \in Users /\ report[r].reported \in Users

LEMMA HandleStores ==
    ASSUME ModTypeOK, NEW s \in Slots, Handle(s)
    PROVE  /\ users' \in [Users -> User]
           /\ connection' \in [Users -> [Users -> {"none", "open", "blocked"}]]
           /\ ReportsOK'
<1> USE SlotOK
<1>1. CASE UNCHANGED <<users, connection, report>> BY <1>1 DEF ModTypeOK, ReportsOK
<1>2. CASE Sever(s) BY <1>2 DEF Sever, ModTypeOK, ReportsOK, At, RequestOK
<1>3. ASSUME NEW r \in Reports, SaveReport(s, r)
      PROVE  ReportsOK' /\ UNCHANGED <<users, connection>>
  <2> DEFINE d == [state |-> "open", reporter |-> slot[s].reporter, reported |-> slot[s].reported]
  <2>1. d \in Report /\ d.reporter \in Users /\ d.reported \in Users
    BY <1>3 DEF SaveReport, At, RequestOK, Report
  <2>2. report' = [report EXCEPT ![r] = d] BY <1>3 DEF SaveReport
  <2> HIDE DEF d
  <2>3. ReportsOK' BY <2>1, <2>2 DEF ModTypeOK, ReportsOK
  <2> QED BY <1>3, <2>3 DEF SaveReport
<1>4. CASE Settle(s) \/ Remove(s)
  <2> PICK r \in Reports : r = slot[s].report BY <1>4 DEF Settle, Remove, At, RequestOK
  <2>1. \/ UNCHANGED report
        \/ \E state \in {"open", "resolved", "removed"} : report' = [report EXCEPT ![r].state = state]
    BY <1>4 DEF Settle, Remove
  <2>2. report[r].state # "unused"
    BY <1>4 DEF Settle, Remove, At, ModTypeOK
  <2>3. ASSUME NEW state \in {"open", "resolved", "removed"},
               report' = [report EXCEPT ![r].state = state]
        PROVE  ReportsOK'
    <3>1. PICK d : d = [report[r] EXCEPT !.state = state] OBVIOUS
    <3>2. report' = [report EXCEPT ![r] = d] BY <2>3, <3>1
    <3>3. d \in Report /\ d.reporter = report[r].reporter /\ d.reported = report[r].reported
      BY <3>1 DEF ModTypeOK, Report
    <3> QED BY <2>2, <3>2, <3>3 DEF ModTypeOK, ReportsOK
  <2>4. ASSUME UNCHANGED report PROVE ReportsOK' BY <2>4 DEF ModTypeOK, ReportsOK
  <2>5. ReportsOK' BY <2>1, <2>3, <2>4
  <2> QED BY <1>4, <2>5 DEF Settle, Remove, ModTypeOK
<1>5. CASE BlockUser(s)
  <2>1. users' \in [Users -> User] BY <1>5 DEF BlockUser, ModTypeOK, User, Statuses
  <2> QED BY <1>5, <2>1 DEF BlockUser, ModTypeOK, ReportsOK
<1>6. \/ UNCHANGED <<users, connection, report>> \/ Sever(s) \/ BlockUser(s)
      \/ \E r \in Reports : SaveReport(s, r)
      \/ Settle(s) \/ Remove(s)
  BY DEF Handle, StartReport, ResolveInstitution, StartSettle, StartRemove, Abort
<1>7. ASSUME UNCHANGED <<users, connection>>
      PROVE  /\ users' \in [Users -> User]
             /\ connection' \in [Users -> [Users -> {"none", "open", "blocked"}]]
  BY <1>7 DEF ModTypeOK
<1> QED BY <1>1, <1>2, <1>3, <1>4, <1>5, <1>6, <1>7

\* No report is given up by a request, and a request keeps to its own.
LEMMA HandleUsed ==
    ASSUME ModTypeOK, NEW s \in Slots, Handle(s)
    PROVE  /\ \A r \in Reports : report[r].state # "unused" => report'[r].state # "unused"
           /\ slot'[s].pc \in {"settle", "block", "remove"} =>
                 report[slot'[s].report].state # "unused"
<1> USE SlotOK
<1>1. ASSUME NEW r \in Reports, report[r].state # "unused" PROVE report'[r].state # "unused"
  <2>1. CASE UNCHANGED report BY <1>1, <2>1
  <2>2. CASE \E x \in Reports : SaveReport(s, x)
    BY <1>1, <2>2 DEF SaveReport, Unused, ModTypeOK
  <2>3. CASE Settle(s) BY <1>1, <2>3 DEF Settle, ModTypeOK, Report
  <2>4. CASE Remove(s) BY <1>1, <2>4 DEF Remove, ModTypeOK, Report
  <2> QED
    BY <2>1, <2>2, <2>3, <2>4
    DEF Handle, StartReport, ResolveInstitution, Sever, StartSettle, StartRemove, BlockUser, Abort
<1>2. ASSUME Done(s) PROVE slot'[s].pc = "idle"
  BY <1>2, IdleOK DEF Done, Become, ModTypeOK
<1>3. ASSUME NEW l, Goto(s, l) PROVE slot'[s].pc = l
  BY <1>3 DEF Goto, Become, ModTypeOK, Request
<1>4. ASSUME slot'[s].pc \in {"settle", "block", "remove"}
      PROVE  report[slot'[s].report].state # "unused"
  <2>1. CASE \E r \in Reports : \/ \E scope \in Insts \cup {Super}, block \in BOOLEAN :
                                      StartSettle(s, r, scope, block)
                                \/ \E scope \in Insts \cup {Super} : StartRemove(s, r, scope)
    <3> PICK r \in Reports :
               \/ \E scope \in Insts \cup {Super}, block \in BOOLEAN : StartSettle(s, r, scope, block)
               \/ \E scope \in Insts \cup {Super} : StartRemove(s, r, scope)
      BY <2>1
    <3>1. There(r) BY DEF StartSettle, StartRemove
    <3>2. PICK q : q.report = r /\ Become(s, q) BY DEF StartSettle, StartRemove, Idle
    <3>3. slot'[s].report = r BY <3>2 DEF Become, ModTypeOK
    <3> QED BY <3>1, <3>3 DEF There
  <2>2. CASE Settle(s)
    <3>1. PICK r \in Reports : r = slot[s].report BY <2>2 DEF Settle, At, RequestOK
    <3>2. There(r) /\ Become(s, [Idle EXCEPT !.pc = "block", !.report = r,
                                            !.reported = report[r].reported])
      BY <1>2, <1>4, <2>2, <3>1 DEF Settle
    <3>3. slot'[s].report = r BY <3>2 DEF Become, ModTypeOK, Idle
    <3> QED BY <3>2, <3>3 DEF There
  <2>3. CASE \E u, v \in Users : StartReport(s, u, v)
    <3>1. slot'[s].pc = "institution" BY <2>3 DEF StartReport, Become, ModTypeOK, Idle
    <3> QED BY <1>4, <3>1
  <2> QED
    BY <1>2, <1>3, <1>4, <2>1, <2>2, <2>3
    DEF Handle, ResolveInstitution, Sever, SaveReport, BlockUser, Remove, Abort
<1> QED BY <1>1, <1>4

LEMMA HandleTyped ==
    ASSUME ModTypeOK, NEW s \in Slots, Handle(s)
    PROVE  ModTypeOK'
<1>1. PICK q : RequestOK(q) /\ Become(s, q) BY HandleSlot
<1>2. /\ slot' \in [Slots -> Request]
      /\ \A t \in Slots : RequestOK(slot'[t])
      /\ moved' \subseteq Slots
  BY <1>1, BecomeOK
<1>3. \A t \in Slots : slot'[t].pc \in {"settle", "block", "remove"} =>
            report'[slot'[t].report].state # "unused"
  <2> SUFFICES ASSUME NEW t \in Slots, slot'[t].pc \in {"settle", "block", "remove"}
               PROVE  report'[slot'[t].report].state # "unused"
    OBVIOUS
  <2>1. slot'[t].report \in Reports BY <1>2 DEF RequestOK
  <2>2. CASE t = s BY <2>1, <2>2, HandleUsed
  <2>3. CASE t # s
    <3>1. slot'[t] = slot[t] BY <1>1, <2>3 DEF Become, ModTypeOK
    <3>2. report[slot[t].report].state # "unused" BY <3>1 DEF ModTypeOK
    <3> QED BY <2>1, <3>1, <3>2, HandleUsed
  <2> QED BY <2>2, <2>3
<1> QED BY <1>2, <1>3, HandleStores DEF ModTypeOK, RequestOK, ReportsOK

LEMMA ForgetOK ==
    ASSUME ScriptTypeOK, NEW u \in Users
    PROVE  /\ Forget(script, u) \in Script
           /\ Forget(script, u).name = script.name /\ Forget(script, u).pc = script.pc
           /\ Forget(script, u).todo = script.todo \ {u}
           /\ Forget(script, u).failed = script.failed
           /\ \A v \in Users \ {u} : Forget(script, u).seen[v] = script.seen[v]
<1>1. script \in Script BY DEF ScriptTypeOK
<1>2. [script.seen EXCEPT ![u] = Unseen] \in [Users -> Seen] BY <1>1, UnseenOK DEF Script
<1>3. Forget(script, u) = [script EXCEPT !.todo = @ \ {u}, !.seen = [@ EXCEPT ![u] = Unseen],
                                        !.user = NoUser, !.inst = NoInst, !.match = FALSE]
  BY <1>1 DEF Forget, Script
<1> DEFINE f == [script.seen EXCEPT ![u] = Unseen]
<1>4. \A v \in Users \ {u} : f[v] = script.seen[v] BY <1>1 DEF Script
<1>5. Forget(script, u) = [script EXCEPT !.todo = @ \ {u}, !.seen = f,
                                        !.user = NoUser, !.inst = NoInst, !.match = FALSE]
  BY <1>3
<1> HIDE DEF f
<1> QED BY <1>1, <1>2, <1>4, <1>5 DEF Script, f

\* The user is done with, whatever label comes next.
LEMMA ForgetStep ==
    ASSUME ScriptTypeOK, NEW u \in Users,
           \/ script' = Forget(script, u)
           \/ script' = [Forget(script, u) EXCEPT !.pc = "users"]
           \/ script' = [Forget(script, u) EXCEPT !.pc = "users", !.failed = TRUE]
    PROVE  /\ script' \in Script
           /\ script'.name = script.name /\ script'.pc \in {script.pc, "users"}
           /\ script'.todo = script.todo \ {u}
           /\ script'.failed \in {script.failed, TRUE}
           /\ \A v \in Users \ {u} : script'.seen[v] = script.seen[v]
<1> DEFINE q == Forget(script, u)
<1>1. /\ q \in Script /\ q.name = script.name /\ q.pc = script.pc
      /\ q.todo = script.todo \ {u} /\ q.failed = script.failed
      /\ \A v \in Users \ {u} : q.seen[v] = script.seen[v]
  BY ForgetOK
<1>2. \/ script' = q \/ script' = [q EXCEPT !.pc = "users"]
      \/ script' = [q EXCEPT !.pc = "users", !.failed = TRUE]
  OBVIOUS
<1> HIDE DEF q
<1> QED BY <1>1, <1>2 DEF Script

LEMMA StartStep ==
    ASSUME NEW n \in {"migrate", "sync"}, NEW S \in SUBSET Users,
           NEW fields \in [Users -> Seen], Start(n, S, fields)
    PROVE  /\ script' \in Script
           /\ script'.name = n /\ script'.pc = "users" /\ script'.todo = S
           /\ script'.failed = FALSE
           /\ \A u \in S : script'.seen[u] = fields[u]
<1> DEFINE f == [u \in Users |-> IF u \in S THEN fields[u] ELSE Unseen]
<1>1. f \in [Users -> Seen] /\ \A u \in S : f[u] = fields[u] BY UnseenOK
<1>2. script' = [NoScript EXCEPT !.name = n, !.pc = "users", !.todo = S, !.seen = f]
  BY DEF Start
<1>3. NoScript \in Script /\ NoScript.failed = FALSE BY UnseenOK DEF NoScript, Script
<1> HIDE DEF f
<1> QED BY <1>1, <1>2, <1>3 DEF Script

LEMMA NoScriptOK == NoScript \in Script /\ NoScript.name = "none" /\ NoScript.pc = "idle" /\ NoScript.todo = {}
BY UnseenOK DEF NoScript, Script

LEMMA MapOK == ASSUME NEW status \in Statuses PROVE MapToUserStatus(status) \in Statuses \ (Legacy \cup {"inactive"})
BY DEF MapToUserStatus, Statuses, Legacy

\* What each start reads.
LEMMA StartMigrateStep ==
    ASSUME TypeOK, StartMigrate
    PROVE  /\ script' \in Script
           /\ script'.name = "migrate" /\ script'.pc = "users" /\ script'.failed = FALSE
           /\ script'.todo = {u \in Users : users[u].live}
           /\ \A u \in script'.todo : script'.seen[u].status = users[u].status
<1> DEFINE S == {u \in Users : users[u].live}
           fields == [u \in Users |-> [Unseen EXCEPT !.status = users[u].status]]
<1>1. S \in SUBSET Users OBVIOUS
<1>2. fields \in [Users -> Seen] /\ \A u \in Users : fields[u].status = users[u].status
  BY UnseenOK DEF TypeOK, ModTypeOK, User, Seen
<1>3. Start("migrate", S, fields) BY DEF StartMigrate
<1>4. PICK T, g : T = S /\ g = fields OBVIOUS
<1>5. Start("migrate", T, g) /\ T \in SUBSET Users /\ g \in [Users -> Seen]
  BY <1>1, <1>2, <1>3, <1>4
<1>6. /\ script' \in Script
      /\ script'.name = "migrate" /\ script'.pc = "users" /\ script'.todo = T
      /\ script'.failed = FALSE
      /\ \A u \in T : script'.seen[u] = g[u]
  BY <1>5, StartStep
<1>7. \A u \in T : g[u] = fields[u] BY <1>4
<1>8. T = {u \in Users : users[u].live} BY <1>4
<1> HIDE DEF S, fields
<1> QED BY <1>2, <1>5, <1>6, <1>7, <1>8

LEMMA StartSyncStep ==
    ASSUME TypeOK, StartSync
    PROVE  /\ script' \in Script
           /\ script'.name = "sync" /\ script'.pc = "users" /\ script'.failed = FALSE
           /\ script'.todo = {u \in Users : users[u].live /\ users[u].email}
           /\ \A u \in script'.todo : /\ script'.seen[u].inst = users[u].inst
                                      /\ script'.seen[u].verified = users[u].verified
<1> DEFINE S == {u \in Users : users[u].live /\ users[u].email}
           fields == [u \in Users |-> [Unseen EXCEPT !.inst = users[u].inst,
                                                     !.verified = users[u].verified]]
<1>1. S \in SUBSET Users OBVIOUS
<1>2. /\ fields \in [Users -> Seen]
      /\ \A u \in Users : fields[u].inst = users[u].inst /\ fields[u].verified = users[u].verified
  BY UnseenOK DEF TypeOK, ModTypeOK, User, Seen
<1>3. Start("sync", S, fields) BY DEF StartSync
<1>4. PICK T, g : T = S /\ g = fields OBVIOUS
<1>5. Start("sync", T, g) /\ T \in SUBSET Users /\ g \in [Users -> Seen]
  BY <1>1, <1>2, <1>3, <1>4
<1>6. /\ script' \in Script
      /\ script'.name = "sync" /\ script'.pc = "users" /\ script'.todo = T
      /\ script'.failed = FALSE
      /\ \A u \in T : script'.seen[u] = g[u]
  BY <1>5, StartStep
<1>7. \A u \in T : g[u] = fields[u] BY <1>4
<1>8. T = {u \in Users : users[u].live /\ users[u].email} BY <1>4
<1> HIDE DEF S, fields
<1> QED BY <1>2, <1>5, <1>6, <1>7, <1>8

-----------------------------------------------------------------------------
(* What each action does to the users *)

SameUser(v) == users'[v] = users[v]
SameButStatus(v) ==
    /\ users'[v].live = users[v].live /\ users'[v].inst = users[v].inst
    /\ users'[v].email = users[v].email /\ users'[v].verified = users[v].verified

SameMembership(v) ==
    /\ users'[v].inst = users[v].inst /\ users'[v].email = users[v].email
    /\ users'[v].verified = users[v].verified

\* Settling reports never does more to a user than block it.
LEMMA HandleUsers ==
    ASSUME ModTypeOK, NEW s \in Slots, Handle(s), NEW v \in Users
    PROVE  SameButStatus(v) /\ users'[v].status \in {users[v].status, "blocked"}
<1>1. CASE BlockUser(s) BY <1>1 DEF BlockUser, SameButStatus, ModTypeOK, User
<1>2. CASE UNCHANGED users BY <1>2 DEF SameButStatus
<1> QED
  BY <1>1, <1>2
  DEF Handle, StartReport, ResolveInstitution, Sever, SaveReport, StartSettle, StartRemove,
      Settle, Remove, Abort

LEMMA MigrateUsers ==
    ASSUME TypeOK, NEW u \in Users, MigrateUser(u)
    PROVE  /\ users' \in [Users -> User]
           /\ \A v \in Users \ {u} : SameUser(v)
           /\ SameButStatus(u)
           /\ LET old == script.seen[u].status
              IN  /\ old \in Statuses
                  /\ users'[u].status =
                        IF MapToUserStatus(old) = old THEN users[u].status ELSE MapToUserStatus(old)
<1> DEFINE old == script.seen[u].status
           new == IF MapToUserStatus(old) = old THEN users[u].status ELSE MapToUserStatus(old)
<1>1. old \in Statuses BY DEF TypeOK, ScriptTypeOK, Script, Seen
<1>2. users[u] \in User BY DEF TypeOK, ModTypeOK
<1>3. new \in Statuses BY <1>1, <1>2, MapOK DEF User
<1>4. CASE MapToUserStatus(old) = old
  BY <1>1, <1>4 DEF MigrateUser, TypeOK, ModTypeOK, SameUser, SameButStatus
<1>5. CASE MapToUserStatus(old) # old
  <2> PICK d : d = [users[u] EXCEPT !.status = new] OBVIOUS
  <2>1. users' = [users EXCEPT ![u] = d] BY <1>5 DEF MigrateUser
  <2>2. d \in User /\ d.status = new /\ d.live = users[u].live /\ d.inst = users[u].inst
        /\ d.email = users[u].email /\ d.verified = users[u].verified
    BY <1>2, <1>3 DEF User
  <2> QED BY <1>1, <1>5, <2>1, <2>2 DEF TypeOK, ModTypeOK, SameUser, SameButStatus
<1> QED BY <1>4, <1>5

LEMMA SyncUsers ==
    ASSUME TypeOK, SyncUser
    PROVE  /\ users' \in [Users -> User]
           /\ script.user \in Users
           /\ \A v \in Users \ {script.user} : SameUser(v)
           /\ ~users[script.user].live => SameUser(script.user)
           /\ users'[script.user].live = users[script.user].live
           /\ users'[script.user].email = users[script.user].email
           /\ users'[script.user].status = users[script.user].status
           /\ users[script.user].live =>
                 /\ users'[script.user].inst = IF script.seen[script.user].inst = script.inst
                                               THEN users[script.user].inst ELSE script.inst
                 /\ users'[script.user].verified =
                       (users[script.user].verified \/ script.match)
<1> PICK u \in Users : u = script.user
  BY DEF SyncUser, Running, TypeOK, ScriptTypeOK
<1> DEFINE i == IF script.seen[u].inst = script.inst THEN users[u].inst ELSE script.inst
<1>1. users[u] \in User BY DEF TypeOK, ModTypeOK
<1>2. i \in Insts \cup {NoInst} BY <1>1 DEF TypeOK, ScriptTypeOK, Script, User
<1>3. CASE ~users[u].live BY <1>3 DEF SyncUser, TypeOK, ModTypeOK, SameUser
<1>4. CASE users[u].live
  <2> PICK d : d = [users[u] EXCEPT !.inst = i, !.verified = users[u].verified \/ script.match]
    OBVIOUS
  <2> DEFINE w == users[u].verified \/ script.match
  <2>1. users' = [users EXCEPT ![u] = d]
    <3>1. users' = [users EXCEPT ![u].inst = i, ![u].verified = @ \/ script.match]
      BY <1>4 DEF SyncUser
    <3> HIDE DEF i
    <3> QED BY <1>1, <3>1 DEF TypeOK, ModTypeOK, User
  <2>2. w \in BOOLEAN BY <1>1 DEF User, TypeOK, ScriptTypeOK, Script
  <2>3. d = [users[u] EXCEPT !.inst = i, !.verified = w] OBVIOUS
  <2> HIDE DEF w, i
  <2>4. d \in User /\ d.status = users[u].status /\ d.live = users[u].live /\ d.inst = i
        /\ d.email = users[u].email /\ d.verified = w
    BY <1>1, <1>2, <2>2, <2>3 DEF User
  <2>5. \A v \in Users \ {u} : users'[v] = users[v] BY <2>1 DEF TypeOK, ModTypeOK
  <2>6. users' \in [Users -> User] /\ users'[u] = d BY <2>1, <2>4 DEF TypeOK, ModTypeOK
  <2> QED BY <1>4, <2>4, <2>5, <2>6 DEF SameUser, i, w
<1> QED BY <1>3, <1>4

LEMMA OutsideUsers ==
    ASSUME TypeOK, NEW u \in Users, Detach(u) \/ DeleteUser(u)
    PROVE  /\ users' \in [Users -> User]
           /\ \A v \in Users \ {u} : SameUser(v)
           /\ users'[u].live => users'[u].status = users[u].status /\ users[u].live
<1>1. users[u] \in User BY DEF TypeOK, ModTypeOK
<1>2. CASE Detach(u)
  <2> PICK d : d = [users[u] EXCEPT !.inst = NoInst, !.email = FALSE, !.verified = FALSE] OBVIOUS
  <2>1. users' = [users EXCEPT ![u] = d] BY <1>1, <1>2 DEF Detach, TypeOK, ModTypeOK, User
  <2>2. d \in User /\ d.status = users[u].status /\ d.live = users[u].live BY <1>1 DEF User
  <2> QED BY <2>1, <2>2 DEF TypeOK, ModTypeOK, SameUser
<1>3. CASE DeleteUser(u)
  <2> PICK d : d = [users[u] EXCEPT !.live = FALSE, !.status = "inactive"] OBVIOUS
  <2>1. users' = [users EXCEPT ![u] = d] BY <1>1, <1>3 DEF DeleteUser, TypeOK, ModTypeOK, User
  <2>2. d \in User /\ d.live = FALSE BY <1>1 DEF User, Statuses
  <2> QED BY <2>1, <2>2 DEF TypeOK, ModTypeOK, SameUser
<1> QED BY <1>2, <1>3

-----------------------------------------------------------------------------
(* The types are kept *)

Keeps == UNCHANGED <<connection, report, slot>> /\ moved' \subseteq Slots

LEMMA ModTyped ==
    ASSUME ModTypeOK, users' \in [Users -> User], Keeps
    PROVE  ModTypeOK'
BY DEF ModTypeOK, Keeps

LEMMA MoveOK == ASSUME NEW u \in Users, Move(u) PROVE moved' \subseteq moved \cup Slots
BY DEF Move

LEMMA ScriptTyped ==
    ASSUME TypeOK, ScriptNext
    PROVE  TypeOK'
<1> USE DEF TypeOK
<1>1. ASSUME StartMigrate PROVE TypeOK'
  <2>1. UNCHANGED <<users, modVars, admin, phone, outside>> /\ stale' = {}
    BY <1>1 DEF StartMigrate, Start
  <2> QED BY <1>1, <2>1, StartMigrateStep, ModTyped DEF ScriptTypeOK, ModTypeOK, modVars, Keeps
<1>2. ASSUME StartSync PROVE TypeOK'
  <2>1. UNCHANGED <<users, modVars, admin, phone, outside>> /\ stale' = {}
    BY <1>2 DEF StartSync, Start
  <2> QED BY <1>2, <2>1, StartSyncStep, ModTyped DEF ScriptTypeOK, ModTypeOK, modVars, Keeps
<1>3. ASSUME SyncUser PROVE TypeOK'
  <2>1. script.user \in Users /\ users' \in [Users -> User] BY <1>3, SyncUsers
  <2>2. moved' \subseteq Slots
    BY <1>3, <2>1, MoveOK DEF SyncUser, ModTypeOK
  <2>3. Keeps BY <1>3, <2>2 DEF SyncUser, Keeps
  <2>4. PICK u \in Users : u = script.user BY <2>1
  <2>5. script' = [Forget(script, u) EXCEPT !.pc = "users"] BY <1>3, <2>4 DEF SyncUser
  <2>6. script' \in Script BY <2>4, <2>5, ForgetStep
  <2>7. script'.pc = "users" BY <2>5, <2>6, ForgetOK DEF Script
  <2> QED BY <1>3, <2>1, <2>3, <2>6, <2>7, ModTyped DEF SyncUser, ScriptTypeOK
<1>4. ASSUME FinishScript PROVE TypeOK'
  <2>1. script' \in Script /\ script'.pc = "done" BY <1>4 DEF FinishScript, ScriptTypeOK, Script
  <2> QED BY <1>4, <2>1 DEF FinishScript, ScriptTypeOK, ModTypeOK, modVars
<1>5. ASSUME Crash PROVE TypeOK'
  BY <1>5, NoScriptOK DEF Crash, ScriptTypeOK, ModTypeOK, modVars
<1>6. ASSUME NEW u \in Users, MigrateUser(u) PROVE TypeOK'
  <2>1. script' \in Script BY <1>6, ForgetStep DEF MigrateUser
  <2>2. script'.pc = "users" BY <1>6, ForgetOK DEF MigrateUser, Running
  <2>3. users' \in [Users -> User] BY <1>6, MigrateUsers
  <2> QED BY <1>6, <2>1, <2>2, <2>3, ModTyped DEF MigrateUser, ScriptTypeOK, modVars, Keeps, ModTypeOK
<1>7. ASSUME NEW u \in Users, FindAdmin(u) PROVE TypeOK'
  <2>1. script' \in Script /\ (script'.pc = "write" => script'.user \in Users)
    <3>1. CASE admin[u] # NoInst /\ Needs(u, admin[u])
      <4>1. admin[u] \in Insts \cup {NoInst} BY DEF ScriptTypeOK
      <4> QED BY <1>7, <3>1, <4>1 DEF FindAdmin, ScriptTypeOK, Script, PhoneMatch
    <3>2. CASE script' = Forget(script, u)
      BY <1>7, <3>2, ForgetStep, ForgetOK DEF FindAdmin, Running
    <3> QED BY <1>7, <3>1, <3>2 DEF FindAdmin
  <2> QED BY <1>7, <2>1, ModTyped DEF FindAdmin, ScriptTypeOK, modVars, Keeps, ModTypeOK
<1>8. ASSUME NEW u \in Users, FailUser(u) PROVE TypeOK'
  <2>1. script' \in Script BY <1>8, ForgetStep DEF FailUser
  <2>2. script'.pc = "users" BY <1>8, ForgetOK DEF FailUser, ScriptTypeOK, Script
  <2> QED BY <1>8, <2>1, <2>2, ModTyped DEF FailUser, ScriptTypeOK, modVars, Keeps, ModTypeOK
<1> QED BY <1>1, <1>2, <1>3, <1>4, <1>5, <1>6, <1>7, <1>8 DEF ScriptNext

LEMMA OutsideTyped ==
    ASSUME TypeOK, OutsideNext
    PROVE  TypeOK'
<1> USE DEF TypeOK
<1>1. ASSUME NEW u \in Users, Detach(u) \/ DeleteUser(u) PROVE TypeOK'
  <2>1. users' \in [Users -> User] BY <1>1, OutsideUsers
  <2>2. Keeps BY <1>1, MoveOK DEF Detach, DeleteUser, Keeps, ModTypeOK
  <2>3. outside' \in 0 .. MaxOutside /\ stale' \subseteq Users
    BY <1>1, BoundsAssumption DEF Detach, DeleteUser, Outside, ScriptTypeOK
  <2> QED BY <1>1, <2>1, <2>2, <2>3, ModTyped DEF Detach, DeleteUser, ScriptTypeOK
<1>2. ASSUME NEW u \in Users, NEW i \in Insts \cup {NoInst}, MoveAdmin(u, i) PROVE TypeOK'
  <2>1. outside' \in 0 .. MaxOutside /\ stale' \subseteq Users
    BY <1>2, BoundsAssumption DEF MoveAdmin, Outside, ScriptTypeOK
  <2> QED BY <1>2, <2>1, ModTyped DEF MoveAdmin, ScriptTypeOK, modVars, Keeps, ModTypeOK
<1>3. ASSUME NEW u \in Users, NEW p \in PhoneStates, RenumberAdmin(u, p) PROVE TypeOK'
  <2>1. outside' \in 0 .. MaxOutside /\ stale' \subseteq Users
    BY <1>3, BoundsAssumption DEF RenumberAdmin, Outside, ScriptTypeOK
  <2> QED BY <1>3, <2>1, ModTyped DEF RenumberAdmin, ScriptTypeOK, modVars, Keeps, ModTypeOK
<1> QED BY <1>1, <1>2, <1>3 DEF OutsideNext

LEMMA InitTyped == Init => TypeOK
<1> SUFFICES ASSUME Init PROVE TypeOK OBVIOUS
<1>1. /\ users \in [Users -> User] /\ admin \in [Users -> Insts \cup {NoInst}]
      /\ phone \in [Users -> PhoneStates]
  BY BoundsAssumption DEF Init
<1>2. ModTypeOK
  <2>1. connection \in [Users -> [Users -> {"none", "open", "blocked"}]] BY DEF Init, ModInit
  <2>2. /\ report \in [Reports -> Report]
        /\ \A r \in Reports : report[r].state = "unused"
    BY DEF Init, ModInit, Unused, Report
  <2>3. /\ slot \in [Slots -> Request]
        /\ \A s \in Slots : slot[s].pc = "idle"
    BY IdleOK DEF Init, ModInit
  <2> QED BY <1>1, <2>1, <2>2, <2>3 DEF Init, ModInit, ModTypeOK
<1> QED BY <1>1, <1>2, NoScriptOK, BoundsAssumption DEF Init, TypeOK, ScriptTypeOK

\* Every reachable state has its type: a request knows the report, the users and the scope it
\* acts on, and a script the user it writes.
THEOREM BackOfficeTyped == Spec => []TypeOK
<1>1. TypeOK /\ [Next]_vars => TypeOK'
  <2> SUFFICES ASSUME TypeOK, [Next]_vars PROVE TypeOK' OBVIOUS
  <2>1. CASE ModNext /\ UNCHANGED scriptVars
    BY <2>1, HandleTyped DEF ModNext, TypeOK, ScriptTypeOK, scriptVars
  <2>2. CASE UNCHANGED vars
    BY <2>2 DEF vars, modVars, scriptVars, TypeOK, ModTypeOK, ScriptTypeOK
  <2> QED BY <2>1, <2>2, ScriptTyped, OutsideTyped DEF Next
<1> QED BY <1>1, InitTyped, PTL DEF Spec

-----------------------------------------------------------------------------
(* What the scripts have read still holds, or somebody changed it *)

LiveNotInactive == \A u \in Users : users[u].live => users[u].status # "inactive"

Ready ==
    /\ script.pc = "write" =>
          /\ script.name = "sync" /\ script.user \in script.todo /\ script.inst \in Insts
          /\ script.user \notin stale =>
                script.inst = admin[script.user] /\ script.match = PhoneMatch(script.user)
    /\ script.pc = "done" => script.todo = {}

\* Of a user that is still to be migrated the status is the one read, or it was blocked; what
\* was migrated is not of an older version.
Migrating(u) ==
    script.name = "migrate" =>
        /\ u \in script.todo => script.seen[u].status # "inactive"
        /\ ~script.failed /\ users[u].live =>
              IF u \in script.todo THEN users[u].status \in {script.seen[u].status, "blocked"}
              ELSE users[u].status \notin Legacy

Synced(u) ==
    users[u].live /\ users[u].email /\ admin[u] # NoInst =>
        users[u].inst = admin[u] /\ (PhoneMatch(u) => users[u].verified)

Syncing(u) ==
    script.name = "sync" /\ u \notin stale =>
        /\ u \in script.todo =>
              /\ users[u].live /\ users[u].email
              /\ users[u].inst = script.seen[u].inst
              /\ users[u].verified = script.seen[u].verified
        /\ u \notin script.todo /\ ~script.failed => Synced(u)

ScriptInv == LiveNotInactive /\ Ready /\ \A u \in Users : Migrating(u) /\ Syncing(u)

LEMMA InitScript == Init => ScriptInv
<1> SUFFICES ASSUME Init PROVE ScriptInv OBVIOUS
<1>1. LiveNotInactive BY BoundsAssumption DEF Init, LiveNotInactive
<1> QED BY <1>1, NoScriptOK DEF Init, ScriptInv, Ready, Migrating, Syncing

LEMMA HandleScript ==
    ASSUME TypeOK, ScriptInv, NEW s \in Slots, Handle(s), UNCHANGED scriptVars
    PROVE  ScriptInv'
<1> USE DEF scriptVars
<1>1. \A u \in Users : SameButStatus(u) /\ users'[u].status \in {users[u].status, "blocked"}
  BY HandleUsers DEF TypeOK
<1>2. LiveNotInactive' BY <1>1 DEF ScriptInv, LiveNotInactive, SameButStatus
<1>3. Ready' BY DEF ScriptInv, Ready, PhoneMatch
<1>4. \A u \in Users : Migrating(u)' BY <1>1 DEF ScriptInv, Migrating, SameButStatus, Legacy
<1>5. \A u \in Users : Syncing(u)' BY <1>1 DEF ScriptInv, Syncing, Synced, PhoneMatch, SameButStatus
<1> QED BY <1>2, <1>3, <1>4, <1>5 DEF ScriptInv

LEMMA OutsideScript ==
    ASSUME TypeOK, ScriptInv, OutsideNext
    PROVE  ScriptInv'
<1>1. ASSUME NEW u \in Users, Detach(u) \/ DeleteUser(u) PROVE ScriptInv'
  <2>1. /\ \A v \in Users \ {u} : SameUser(v)
        /\ users'[u].live => users'[u].status = users[u].status /\ users[u].live
    BY <1>1, OutsideUsers
  <2>2. UNCHANGED <<script, admin, phone>> /\ stale' = stale \cup {u}
    BY <1>1 DEF Detach, DeleteUser, Outside
  <2>3. LiveNotInactive' BY <2>1 DEF ScriptInv, LiveNotInactive, SameUser
  <2>4. Ready' BY <2>2 DEF ScriptInv, Ready, PhoneMatch
  <2>5. \A v \in Users : Migrating(v)' BY <2>1, <2>2 DEF ScriptInv, Migrating, SameUser
  <2>6. \A v \in Users : Syncing(v)' BY <2>1, <2>2 DEF ScriptInv, Syncing, Synced, PhoneMatch, SameUser
  <2> QED BY <2>3, <2>4, <2>5, <2>6 DEF ScriptInv
<1>2. ASSUME NEW u \in Users, NEW i \in Insts \cup {NoInst}, MoveAdmin(u, i) PROVE ScriptInv'
  <2>1. UNCHANGED <<script, users, phone>> /\ stale' = stale \cup {u} BY <1>2 DEF MoveAdmin, Outside
  <2>2. \A v \in Users \ {u} : admin'[v] = admin[v]
    BY <1>2 DEF MoveAdmin, TypeOK, ScriptTypeOK
  <2>3. LiveNotInactive' BY <2>1 DEF ScriptInv, LiveNotInactive
  <2>4. Ready' BY <2>1, <2>2 DEF ScriptInv, Ready, PhoneMatch, TypeOK, ScriptTypeOK
  <2>5. \A v \in Users : Migrating(v)' BY <2>1 DEF ScriptInv, Migrating
  <2>6. \A v \in Users : Syncing(v)' BY <2>1, <2>2 DEF ScriptInv, Syncing, Synced, PhoneMatch
  <2> QED BY <2>3, <2>4, <2>5, <2>6 DEF ScriptInv
<1>3. ASSUME NEW u \in Users, NEW p \in PhoneStates, RenumberAdmin(u, p) PROVE ScriptInv'
  <2>1. UNCHANGED <<script, users, admin>> /\ stale' = stale \cup {u}
    BY <1>3 DEF RenumberAdmin, Outside
  <2>2. \A v \in Users \ {u} : phone'[v] = phone[v]
    BY <1>3 DEF RenumberAdmin, TypeOK, ScriptTypeOK
  <2>3. LiveNotInactive' BY <2>1 DEF ScriptInv, LiveNotInactive
  <2>4. Ready' BY <2>1, <2>2 DEF ScriptInv, Ready, PhoneMatch, TypeOK, ScriptTypeOK
  <2>5. \A v \in Users : Migrating(v)' BY <2>1 DEF ScriptInv, Migrating
  <2>6. \A v \in Users : Syncing(v)' BY <2>1, <2>2 DEF ScriptInv, Syncing, Synced, PhoneMatch
  <2> QED BY <2>3, <2>4, <2>5, <2>6 DEF ScriptInv
<1> QED BY <1>1, <1>2, <1>3 DEF OutsideNext

LEMMA MigrateScript ==
    ASSUME TypeOK, ScriptInv, NEW u \in Users, MigrateUser(u)
    PROVE  ScriptInv'
<1>1. /\ script'.name = script.name /\ script'.pc \in {script.pc, "users"}
      /\ script'.todo = script.todo \ {u} /\ script'.failed \in {script.failed, TRUE}
      /\ \A v \in Users \ {u} : script'.seen[v] = script.seen[v]
  BY ForgetStep DEF MigrateUser, TypeOK
<1>2. script.name = "migrate" /\ script.pc = "users" /\ UNCHANGED <<admin, phone, stale>> /\ u \in script.todo
  BY DEF MigrateUser, Running
<1>3. script'.failed = script.failed BY ForgetOK DEF MigrateUser, TypeOK
<1> DEFINE old == script.seen[u].status
<1>4. /\ \A v \in Users \ {u} : SameUser(v)
      /\ SameButStatus(u) /\ old \in Statuses
      /\ users'[u].status =
            IF MapToUserStatus(old) = old THEN users[u].status ELSE MapToUserStatus(old)
  BY MigrateUsers
<1>5. MapToUserStatus(old) \in Statuses \ (Legacy \cup {"inactive"}) BY <1>4, MapOK
<1> HIDE DEF old
<1>6. LiveNotInactive'
  BY <1>4, <1>5 DEF ScriptInv, LiveNotInactive, SameUser, SameButStatus
<1>7. Ready' BY <1>1, <1>2 DEF ScriptInv, Ready, PhoneMatch
<1>8. \A v \in Users : Syncing(v)' BY <1>1, <1>2 DEF Syncing
<1>9. \A v \in Users \ {u} : Migrating(v)'
  BY <1>1, <1>3, <1>4 DEF ScriptInv, Migrating, SameUser
<1>10. Migrating(u)'
  <2> SUFFICES ASSUME ~script.failed, users[u].live PROVE users'[u].status \notin Legacy
    BY <1>1, <1>3, <1>4 DEF Migrating, SameButStatus
  <2>1. users[u].status \in {old, "blocked"} BY <1>2 DEF ScriptInv, Migrating, old
  <2> QED BY <1>4, <1>5, <2>1 DEF Legacy
<1> QED BY <1>6, <1>7, <1>8, <1>9, <1>10 DEF ScriptInv

LEMMA SyncScript ==
    ASSUME TypeOK, ScriptInv, SyncUser
    PROVE  ScriptInv'
<1> PICK u \in Users : u = script.user BY DEF SyncUser, Running, TypeOK, ScriptTypeOK
<1>1. script' = [Forget(script, u) EXCEPT !.pc = "users"] BY DEF SyncUser
<1>2. /\ script'.name = script.name /\ script'.todo = script.todo \ {u}
      /\ \A v \in Users \ {u} : script'.seen[v] = script.seen[v]
  BY <1>1, ForgetStep DEF TypeOK
<1>3. script'.pc = "users" /\ script'.failed = script.failed
  BY <1>1, ForgetOK DEF TypeOK, Script
<1>4. /\ script.name = "sync" /\ script.pc = "write" /\ UNCHANGED <<admin, phone, stale>>
      /\ u \in script.todo /\ script.inst \in Insts
      /\ u \notin stale => script.inst = admin[u] /\ script.match = PhoneMatch(u)
  BY DEF SyncUser, Running, ScriptInv, Ready, PhoneMatch
<1>5. /\ \A v \in Users \ {u} : SameUser(v)
      /\ ~users[u].live => SameUser(u)
      /\ users'[u].live = users[u].live /\ users'[u].email = users[u].email
      /\ users'[u].status = users[u].status
      /\ users[u].live =>
            /\ users'[u].inst = IF script.seen[u].inst = script.inst THEN users[u].inst
                                ELSE script.inst
            /\ users'[u].verified = (users[u].verified \/ script.match)
  BY SyncUsers
<1>6. LiveNotInactive' BY <1>5 DEF ScriptInv, LiveNotInactive, SameUser
<1>7. Ready' BY <1>3 DEF Ready, PhoneMatch
<1>8. \A v \in Users : Migrating(v)' BY <1>2, <1>4 DEF Migrating
<1>9. \A v \in Users \ {u} : Syncing(v)'
  BY <1>2, <1>3, <1>4, <1>5 DEF ScriptInv, Syncing, Synced, PhoneMatch, SameUser
<1>10. Syncing(u)'
  <2> SUFFICES ASSUME u \notin stale PROVE Synced(u)'
    BY <1>2, <1>3, <1>4 DEF Syncing
  <2>1. users[u].live /\ users[u].inst = script.seen[u].inst BY <1>4 DEF ScriptInv, Syncing
  <2>2. users'[u].inst = admin[u] BY <1>4, <1>5, <2>1
  <2>3. PhoneMatch(u) => users'[u].verified BY <1>4, <1>5, <2>1
  <2> QED BY <1>4, <2>2, <2>3 DEF Synced, PhoneMatch
<1> QED BY <1>6, <1>7, <1>8, <1>9, <1>10 DEF ScriptInv

LEMMA FindAdminScript ==
    ASSUME TypeOK, ScriptInv, NEW u \in Users, FindAdmin(u)
    PROVE  ScriptInv'
<1>1. /\ script.name = "sync" /\ script.pc = "users" /\ u \in script.todo
      /\ UNCHANGED <<users, admin, phone, stale>>
  BY DEF FindAdmin, Running
<1>2. script \in Script BY DEF TypeOK, ScriptTypeOK
<1>3. LiveNotInactive' BY <1>1 DEF ScriptInv, LiveNotInactive
<1>4. CASE admin[u] # NoInst /\ Needs(u, admin[u])
  <2>1. script' = [script EXCEPT !.pc = "write", !.user = u, !.inst = admin[u],
                                   !.match = PhoneMatch(u)]
    BY <1>4 DEF FindAdmin
  <2>2. /\ script'.pc = "write" /\ script'.user = u /\ script'.inst = admin[u]
        /\ script'.match = PhoneMatch(u) /\ script'.name = "sync" /\ script'.todo = script.todo
        /\ script'.seen = script.seen /\ script'.failed = script.failed
    BY <1>1, <1>2, <2>1 DEF Script
  <2>3. Ready' BY <1>1, <1>4, <2>2 DEF Ready, PhoneMatch, TypeOK, ScriptTypeOK
  <2>4. \A v \in Users : Migrating(v)' /\ Syncing(v)'
    BY <1>1, <2>2 DEF ScriptInv, Migrating, Syncing, Synced, PhoneMatch
  <2> QED BY <1>3, <2>3, <2>4 DEF ScriptInv
<1>5. CASE ~(admin[u] # NoInst /\ Needs(u, admin[u]))
  <2>1. script' = Forget(script, u) BY <1>5 DEF FindAdmin
  <2>2. /\ script'.name = "sync" /\ script'.pc = "users" /\ script'.todo = script.todo \ {u}
        /\ script'.failed = script.failed
        /\ \A v \in Users \ {u} : script'.seen[v] = script.seen[v]
    BY <1>1, <2>1, ForgetOK DEF TypeOK
  <2>3. Ready' BY <2>2 DEF Ready, PhoneMatch
  <2>4. \A v \in Users : Migrating(v)' BY <2>2 DEF Migrating
  <2>5. \A v \in Users \ {u} : Syncing(v)' BY <1>1, <2>2 DEF ScriptInv, Syncing, Synced, PhoneMatch
  <2>6. u \notin stale => Synced(u) BY <1>1, <1>5 DEF ScriptInv, Syncing, Synced, PhoneMatch, Needs
  <2>7. Syncing(u)' BY <1>1, <2>2, <2>6 DEF Syncing, Synced, PhoneMatch
  <2> QED BY <1>3, <2>3, <2>4, <2>5, <2>7 DEF ScriptInv
<1> QED BY <1>4, <1>5

LEMMA FailScript ==
    ASSUME TypeOK, ScriptInv, NEW u \in Users, FailUser(u)
    PROVE  ScriptInv'
<1>1. script' = [Forget(script, u) EXCEPT !.pc = "users", !.failed = TRUE]
      /\ UNCHANGED <<users, admin, phone, stale>>
  BY DEF FailUser
<1>2. /\ script'.name = script.name /\ script'.todo = script.todo \ {u}
      /\ \A v \in Users \ {u} : script'.seen[v] = script.seen[v]
  BY <1>1, ForgetStep DEF TypeOK
<1>3. script'.pc = "users" /\ script'.failed = TRUE
  BY <1>1, ForgetOK DEF TypeOK, Script
<1>4. LiveNotInactive' BY <1>1 DEF ScriptInv, LiveNotInactive
<1>5. Ready' BY <1>3 DEF Ready, PhoneMatch
<1>6. \A v \in Users : Migrating(v)' /\ Syncing(v)'
  BY <1>1, <1>2, <1>3 DEF ScriptInv, Migrating, Syncing
<1> QED BY <1>4, <1>5, <1>6 DEF ScriptInv

LEMMA ScriptStep ==
    ASSUME TypeOK, ScriptInv, ScriptNext
    PROVE  ScriptInv'
<1>1. ASSUME StartMigrate PROVE ScriptInv'
  <2>1. UNCHANGED <<users, admin, phone>> BY <1>1 DEF StartMigrate, Start
  <2>2. /\ script'.name = "migrate" /\ script'.pc = "users" /\ script'.failed = FALSE
        /\ script'.todo = {u \in Users : users[u].live}
        /\ \A u \in script'.todo : script'.seen[u].status = users[u].status
    BY <1>1, StartMigrateStep
  <2>3. \A u \in Users : Migrating(u)'
    BY <2>1, <2>2 DEF ScriptInv, LiveNotInactive, Migrating
  <2> QED BY <2>1, <2>2, <2>3 DEF ScriptInv, LiveNotInactive, Ready, Syncing
<1>2. ASSUME StartSync PROVE ScriptInv'
  <2>1. UNCHANGED <<users, admin, phone>> BY <1>2 DEF StartSync, Start
  <2>2. /\ script'.name = "sync" /\ script'.pc = "users" /\ script'.failed = FALSE
        /\ script'.todo = {u \in Users : users[u].live /\ users[u].email}
        /\ \A u \in script'.todo : /\ script'.seen[u].inst = users[u].inst
                                   /\ script'.seen[u].verified = users[u].verified
    BY <1>2, StartSyncStep
  <2>3. \A u \in Users : Syncing(u)' BY <2>1, <2>2 DEF Syncing, Synced, PhoneMatch
  <2> QED BY <2>1, <2>2, <2>3 DEF ScriptInv, LiveNotInactive, Ready, PhoneMatch, Migrating
<1>3. ASSUME FinishScript PROVE ScriptInv'
  <2>1. /\ script'.pc = "done" /\ script'.name = script.name /\ script'.todo = {}
        /\ script.todo = {} /\ script'.failed = script.failed
        /\ UNCHANGED <<users, admin, phone, stale>>
    BY <1>3 DEF FinishScript, TypeOK, ScriptTypeOK, Script
  <2> QED
    BY <2>1 DEF ScriptInv, LiveNotInactive, Ready, Migrating, Syncing, Synced, PhoneMatch
<1>4. ASSUME Crash PROVE ScriptInv'
  BY <1>4, NoScriptOK DEF Crash, ScriptInv, LiveNotInactive, Ready, Migrating, Syncing
<1> QED
  BY <1>1, <1>2, <1>3, <1>4, MigrateScript, SyncScript, FindAdminScript, FailScript
  DEF ScriptNext

LEMMA ScriptInvHolds == Spec => []ScriptInv
<1>1. TypeOK /\ ScriptInv /\ [Next]_vars => ScriptInv'
  <2> SUFFICES ASSUME TypeOK, ScriptInv, [Next]_vars PROVE ScriptInv' OBVIOUS
  <2>1. CASE UNCHANGED vars
    BY <2>1 DEF vars, scriptVars, ScriptInv, LiveNotInactive, Ready, Migrating, Syncing, Synced, PhoneMatch
  <2> QED BY <2>1, HandleScript, ScriptStep, OutsideScript DEF Next, ModNext
<1> QED BY <1>1, InitScript, BackOfficeTyped, PTL DEF Spec

\* A migration or a synchronisation that ran to its end without a failure leaves nothing to do,
\* whatever was settled, changed or cut short meanwhile.
THEOREM ScriptsLeaveNothing == Spec => []ScriptsComplete
<1>1. ScriptInv => ScriptsComplete
  BY DEF ScriptInv, Ready, Migrating, Syncing, Synced, PhoneMatch, ScriptsComplete, MigrationComplete,
         SyncComplete, Running
<1> QED BY <1>1, ScriptInvHolds, PTL

\* The migration alone lifts a block, and only from a status of an older version that it had
\* read before the user was blocked.
THEOREM BlocksStay == Spec => BlockedStay
<1>1. TypeOK /\ ScriptInv /\ [Next]_vars =>
         [\A u \in Users :
              users[u].status = "blocked" /\ users'[u].status \notin {"blocked", "inactive"} =>
                  u \in script.todo /\ script.seen[u].status \in Legacy]_vars
  <2> SUFFICES ASSUME TypeOK, ScriptInv, Next, NEW v \in Users,
                      users[v].status = "blocked", users'[v].status \notin {"blocked", "inactive"}
               PROVE  v \in script.todo /\ script.seen[v].status \in Legacy
    OBVIOUS
  <2>1. ~SameUser(v) BY DEF SameUser
  <2>2. \A s \in Slots : ~Handle(s) BY HandleUsers DEF TypeOK
  <2>3. \A u \in Users : ~(Detach(u) \/ DeleteUser(u))
    <3> SUFFICES ASSUME NEW u \in Users, Detach(u) \/ DeleteUser(u) PROVE FALSE OBVIOUS
    <3>1. v = u BY <2>1, OutsideUsers
    <3>2. CASE Detach(u) BY <3>1, <3>2 DEF Detach, TypeOK, ModTypeOK, User
    <3>3. CASE DeleteUser(u) BY <3>1, <3>3 DEF DeleteUser, TypeOK, ModTypeOK, User
    <3> QED BY <3>2, <3>3
  <2>4. ~SyncUser BY <2>1, SyncUsers DEF SameUser
  <2>5. ~UNCHANGED users OBVIOUS
  <2>6. PICK u \in Users : MigrateUser(u)
    BY <2>2, <2>3, <2>4, <2>5
    DEF Next, ModNext, ScriptNext, OutsideNext, StartMigrate, StartSync, Start, FinishScript,
        Crash, FindAdmin, FailUser, MoveAdmin, RenumberAdmin
  <2>7. v = u BY <2>1, <2>6, MigrateUsers
  <2>8. u \in script.todo /\ script.name = "migrate" BY <2>6 DEF MigrateUser, Running
  <2>9. script.seen[u].status # "inactive" BY <2>8 DEF ScriptInv, Migrating
  <2>10. script.seen[u].status \in Statuses /\ MapToUserStatus(script.seen[u].status) # script.seen[u].status
    BY <2>6, <2>7, MigrateUsers
  <2> QED BY <2>7, <2>8, <2>9, <2>10 DEF MapToUserStatus, Statuses, Legacy
<1> QED BY <1>1, BackOfficeTyped, ScriptInvHolds, PTL DEF Spec, BlockedStay

\* Nobody becomes verified, or a member, but on the word of an administrator that the script
\* has just read, unless the user or the administrator changed in between.
THEOREM SyncsVouched == Spec => SyncVouched
<1>1. TypeOK /\ ScriptInv /\ [Next]_vars =>
         [\A u \in Users \ stale :
              /\ users'[u].verified /\ ~users[u].verified => users[u].email /\ PhoneMatch(u)
              /\ users'[u].inst # users[u].inst /\ users'[u].inst # NoInst =>
                    users[u].email /\ users'[u].inst = admin[u]]_vars
  <2> SUFFICES ASSUME TypeOK, ScriptInv, Next, NEW v \in Users \ stale
               PROVE  /\ users'[v].verified /\ ~users[v].verified => users[v].email /\ PhoneMatch(v)
                      /\ users'[v].inst # users[v].inst /\ users'[v].inst # NoInst =>
                            users[v].email /\ users'[v].inst = admin[v]
    OBVIOUS
  <2>1. CASE SameUser(v) BY <2>1 DEF SameUser
  <2>2. CASE SameButStatus(v) \/ SameMembership(v)
    BY <2>2 DEF SameButStatus, SameMembership
  <2>3. ASSUME NEW s \in Slots, Handle(s) PROVE SameButStatus(v)
    BY <2>3, HandleUsers DEF TypeOK
  <2>4. ASSUME NEW u \in Users, MigrateUser(u) PROVE SameUser(v) \/ SameButStatus(v)
    BY <2>4, MigrateUsers
  <2>5. ASSUME NEW u \in Users, Detach(u)
        PROVE  SameUser(v) \/ (users'[v].inst = NoInst /\ users'[v].verified = FALSE)
    <3>1. CASE u = v BY <2>5, <3>1 DEF Detach, TypeOK, ModTypeOK, User
    <3> QED BY <2>5, <3>1, OutsideUsers
  <2>6. ASSUME NEW u \in Users, DeleteUser(u) PROVE SameUser(v) \/ SameMembership(v)
    <3>1. CASE u = v
      <4>1. PICK d : d = [users[v] EXCEPT !.live = FALSE, !.status = "inactive"] OBVIOUS
      <4>2. users[v] \in User BY DEF TypeOK, ModTypeOK
      <4>3. users' = [users EXCEPT ![v] = d]
        BY <2>6, <3>1, <4>1, <4>2 DEF DeleteUser, TypeOK, ModTypeOK, User
      <4>4. /\ d.inst = users[v].inst /\ d.email = users[v].email
            /\ d.verified = users[v].verified
        BY <4>1, <4>2 DEF User
      <4> QED BY <4>3, <4>4 DEF TypeOK, ModTypeOK, SameMembership
    <3>2. CASE u # v BY <2>6, <3>2, OutsideUsers
    <3> QED BY <3>1, <3>2
  <2>7. CASE SyncUser
    <3>1. CASE v # script.user BY <2>1, <2>7, <3>1, SyncUsers
    <3>2. CASE v = script.user
      <4>1. /\ script.name = "sync" /\ v \in script.todo
            /\ script.inst = admin[v] /\ script.match = PhoneMatch(v)
        BY <2>7, <3>2 DEF SyncUser, Running, ScriptInv, Ready
      <4>2. users[v].live /\ users[v].email BY <4>1 DEF ScriptInv, Syncing
      <4>3. /\ users'[v].inst = IF script.seen[v].inst = script.inst THEN users[v].inst
                                ELSE script.inst
            /\ users'[v].verified = (users[v].verified \/ script.match)
        BY <2>7, <3>2, <4>2, SyncUsers
      <4> QED BY <4>1, <4>2, <4>3
    <3> QED BY <3>1, <3>2
  <2>8. CASE UNCHANGED users BY <2>8
  <2> QED
    BY <2>1, <2>2, <2>3, <2>4, <2>5, <2>6, <2>7, <2>8
    DEF Next, ModNext, ScriptNext, OutsideNext, StartMigrate, StartSync, Start, FinishScript,
        Crash, FindAdmin, FailUser, MoveAdmin, RenumberAdmin
<1> QED BY <1>1, BackOfficeTyped, ScriptInvHolds, PTL DEF Spec, SyncVouched

-----------------------------------------------------------------------------
(* The reports *)

SeveredBefore ==
    \A s \in Slots : At(s, "save") => connection[slot[s].reporter][slot[s].reported] = "blocked"

\* What let the request in still holds, or the user changed since.
Admitted(s) ==
    slot[s].pc \in {"settle", "remove"} /\ There(slot[s].report) =>
        LET u == users[report[slot[s].report].reported]
        IN  slot[s].scope = Super \/ s \in moved \/ (u.live /\ u.inst = slot[s].scope)

ReportInv == ReportsSevered /\ SeveredBefore /\ \A s \in Slots : Admitted(s)

LEMMA InitReports == Init => ReportInv
<1> SUFFICES ASSUME Init PROVE ReportInv OBVIOUS
<1>1. \A r \in Reports : ~There(r) BY DEF Init, ModInit, Unused, There
<1>2. \A s \in Slots : slot[s].pc = "idle" BY IdleOK DEF Init, ModInit
<1> QED BY <1>1, <1>2 DEF ReportInv, ReportsSevered, SeveredBefore, Admitted, At

\* A connection that was severed stays so.
LEMMA ConnectionKept ==
    ASSUME ModTypeOK, NEW s \in Slots, Handle(s), NEW u \in Users, NEW v \in Users,
           connection[u][v] = "blocked"
    PROVE  connection'[u][v] = "blocked"
<1>1. CASE Sever(s)
  <2> PICK a \in Users, b \in Users : a = slot[s].reporter /\ b = slot[s].reported
    BY <1>1, SlotOK DEF Sever, At, RequestOK
  <2>1. connection' = [connection EXCEPT ![a][b] = "blocked"] BY <1>1 DEF Sever
  <2> QED BY <2>1 DEF ModTypeOK
<1>2. CASE UNCHANGED connection BY <1>2
<1> QED
  BY <1>1, <1>2
  DEF Handle, StartReport, ResolveInstitution, SaveReport, StartSettle, StartRemove, Settle,
      BlockUser, Remove, Abort

\* A report that counts afterwards counted before, on the same users, or has just been stored.
LEMMA ReportKept ==
    ASSUME ModTypeOK, NEW s \in Slots, Handle(s), NEW r \in Reports, There(r)'
    PROVE  \/ /\ There(r)
              /\ report'[r].reporter = report[r].reporter
              /\ report'[r].reported = report[r].reported
           \/ SaveReport(s, r)
<1>1. CASE UNCHANGED report BY <1>1 DEF There
<1>2. ASSUME NEW x \in Reports, SaveReport(s, x)
      PROVE  SaveReport(s, r) \/ (There(r) /\ report'[r] = report[r])
  <2>1. CASE x = r BY <1>2, <2>1
  <2>2. CASE x # r
    <3>1. report'[r] = report[r] BY <1>2, <2>2 DEF SaveReport, ModTypeOK
    <3> QED BY <3>1 DEF There
  <2> QED BY <2>1, <2>2
<1>3. CASE Settle(s) \/ Remove(s)
  <2> PICK x \in Reports : x = slot[s].report BY <1>3, SlotOK DEF Settle, Remove, At, RequestOK
  <2>1. PICK state : /\ report' = [report EXCEPT ![x].state = state] \/ UNCHANGED report
                     /\ There(x) \/ state = "removed" \/ UNCHANGED report
    BY <1>3 DEF Settle, Remove
  <2>2. CASE r # x BY <2>1, <2>2 DEF ModTypeOK, There
  <2>3. CASE r = x
    <3>1. PICK d : d = [report[x] EXCEPT !.state = state] OBVIOUS
    <3>2. report[x] \in Report BY DEF ModTypeOK
    <3>3. d.state = state /\ d.reporter = report[x].reporter /\ d.reported = report[x].reported
      BY <3>1, <3>2 DEF Report
    <3>4. report' = [report EXCEPT ![x] = d] \/ UNCHANGED report BY <2>1, <3>1
    <3> QED BY <2>1, <2>3, <3>3, <3>4 DEF There, ModTypeOK
  <2> QED BY <2>2, <2>3
<1> QED
  BY <1>1, <1>2, <1>3
  DEF Handle, StartReport, ResolveInstitution, Sever, StartSettle, StartRemove, BlockUser, Abort

LEMMA HandleSevered ==
    ASSUME ModTypeOK, ReportInv, NEW s \in Slots, Handle(s)
    PROVE  ReportsSevered' /\ SeveredBefore'
<1>1. ASSUME NEW r \in Reports, There(r)'
      PROVE  connection'[report'[r].reporter][report'[r].reported] = "blocked"
  <2>1. CASE SaveReport(s, r)
    <3> DEFINE d == [state |-> "open", reporter |-> slot[s].reporter,
                     reported |-> slot[s].reported]
    <3>1. report'[r] = d /\ UNCHANGED connection BY <2>1 DEF SaveReport, ModTypeOK
    <3>2. d.reporter = slot[s].reporter /\ d.reported = slot[s].reported OBVIOUS
    <3>3. connection[slot[s].reporter][slot[s].reported] = "blocked"
      BY <2>1 DEF SaveReport, ReportInv, SeveredBefore
    <3> HIDE DEF d
    <3> QED BY <3>1, <3>2, <3>3
  <2>2. CASE There(r) /\ report'[r].reporter = report[r].reporter
                      /\ report'[r].reported = report[r].reported
    <3>1. report[r].reporter \in Users /\ report[r].reported \in Users
      BY <2>2 DEF ModTypeOK, There
    <3>2. connection[report[r].reporter][report[r].reported] = "blocked"
      BY <2>2 DEF ReportInv, ReportsSevered
    <3> QED BY <2>2, <3>1, <3>2, ConnectionKept
  <2> QED BY <1>1, <2>1, <2>2, ReportKept
<1>2. ASSUME NEW t \in Slots, slot'[t].pc = "save"
      PROVE  connection'[slot'[t].reporter][slot'[t].reported] = "blocked"
  <2>1. CASE slot'[t] = slot[t]
    <3>1. At(t, "save") /\ slot[t].reporter \in Users /\ slot[t].reported \in Users
      BY <1>2, <2>1 DEF At, ModTypeOK
    <3> QED BY <2>1, <3>1, ConnectionKept DEF ReportInv, SeveredBefore
  <2>2. CASE slot'[t] # slot[t]
    <3>1. t = s BY <2>2, HandleSlot DEF Become, ModTypeOK
    <3>2. Sever(s)
      <4>1. ASSUME Done(s) PROVE FALSE
        BY <1>2, <3>1, <4>1, IdleOK DEF Done, Become, ModTypeOK
      <4>2. ASSUME NEW l, Goto(s, l) PROVE l = "save"
        BY <1>2, <3>1, <4>2 DEF Goto, Become, ModTypeOK, Request
      <4>4. ASSUME NEW u \in Users, NEW v \in Users, StartReport(s, u, v) PROVE FALSE
        <5>1. slot'[s].pc = "institution" BY <4>4 DEF StartReport, Become, ModTypeOK, Idle
        <5> QED BY <1>2, <3>1, <5>1
      <4>5. ASSUME NEW r \in Reports, NEW scope \in Insts \cup {Super}, NEW block \in BOOLEAN,
                   StartSettle(s, r, scope, block)
            PROVE  FALSE
        <5>1. slot'[s].pc = "settle" BY <4>5 DEF StartSettle, Become, ModTypeOK, Idle
        <5> QED BY <1>2, <3>1, <5>1
      <4>6. ASSUME NEW r \in Reports, NEW scope \in Insts \cup {Super}, StartRemove(s, r, scope)
            PROVE  FALSE
        <5>1. slot'[s].pc = "remove" BY <4>6 DEF StartRemove, Become, ModTypeOK, Idle
        <5> QED BY <1>2, <3>1, <5>1
      <4>7. ASSUME Settle(s) PROVE FALSE
        <5>2. PICK r \in Reports : r = slot[s].report
          BY <4>7, SlotOK DEF Settle, At, RequestOK
        <5>3. Become(s, [Idle EXCEPT !.pc = "block", !.report = r,
                                     !.reported = report[r].reported])
          BY <4>1, <4>7, <5>2 DEF Settle
        <5>1. slot'[s].pc = "block" BY <5>3 DEF Become, ModTypeOK, Idle
        <5> QED BY <1>2, <3>1, <5>1
      <4> QED
        BY <4>1, <4>2, <4>4, <4>5, <4>6, <4>7
        DEF Handle, ResolveInstitution, SaveReport, BlockUser, Remove, Abort
    <3>3. PICK a \in Users, b \in Users : a = slot[s].reporter /\ b = slot[s].reported
      BY <3>2, SlotOK DEF Sever, At, RequestOK
    <3>4. connection'[a][b] = "blocked" BY <3>2, <3>3 DEF Sever, ModTypeOK
    <3>5. slot'[s].reporter = a /\ slot'[s].reported = b
      BY <3>2, <3>3 DEF Sever, Goto, Become, ModTypeOK, Request
    <3> QED BY <3>1, <3>4, <3>5
  <2> QED BY <2>1, <2>2
<1> QED BY <1>1, <1>2 DEF ReportsSevered, SeveredBefore, There, At

LEMMA HandleAdmitted ==
    ASSUME ModTypeOK, ReportInv, NEW s \in Slots, Handle(s), NEW t \in Slots
    PROVE  Admitted(t)'
<1> SUFFICES ASSUME slot'[t].pc \in {"settle", "remove"}, There(slot[t].report)'
             PROVE  LET u == users'[report'[slot'[t].report].reported]
                    IN  slot'[t].scope = Super \/ t \in moved' \/ (u.live /\ u.inst = slot'[t].scope)
  BY DEF Admitted
<1>1. ASSUME NEW v \in Users PROVE users'[v].live = users[v].live /\ users'[v].inst = users[v].inst
  BY HandleUsers DEF SameButStatus
<1>2. CASE slot'[t] = slot[t] /\ (t \in moved => t \in moved')
  <2> PICK r \in Reports : r = slot[t].report BY <1>2, SlotOK DEF RequestOK
  <2>1. report[r].state # "unused" BY <1>2 DEF ModTypeOK
  <2>2. /\ There(r) /\ report'[r].reported = report[r].reported
    BY <1>2, <2>1, ReportKept DEF SaveReport, Unused
  <2>3. report[r].reported \in Users BY <2>1 DEF ModTypeOK
  <2>4. LET u == users[report[r].reported]
        IN  slot[t].scope = Super \/ t \in moved \/ (u.live /\ u.inst = slot[t].scope)
    BY <1>2, <2>2 DEF ReportInv, Admitted
  <2> QED BY <1>1, <1>2, <2>2, <2>3, <2>4
<1>3. CASE ~(slot'[t] = slot[t] /\ (t \in moved => t \in moved'))
  <2>1. t = s BY <1>3, HandleSlot DEF Become, ModTypeOK
  <2>2. ASSUME Done(s) PROVE FALSE BY <2>1, <2>2, IdleOK DEF Done, Become, ModTypeOK
  <2>3. ASSUME NEW l, Goto(s, l) PROVE l \in {"settle", "remove"}
    BY <2>1, <2>3 DEF Goto, Become, ModTypeOK, Request
  <2>4. ASSUME NEW u \in Users, NEW v \in Users, StartReport(s, u, v) PROVE FALSE
    <3>1. slot'[s].pc = "institution" BY <2>4 DEF StartReport, Become, ModTypeOK, Idle
    <3> QED BY <2>1, <3>1
  <2>5. ASSUME Settle(s) PROVE FALSE
    <3>1. PICK r \in Reports : r = slot[s].report BY <2>5, SlotOK DEF Settle, At, RequestOK
    <3>2. Become(s, [Idle EXCEPT !.pc = "block", !.report = r, !.reported = report[r].reported])
      BY <2>2, <2>5, <3>1 DEF Settle
    <3>3. slot'[s].pc = "block" BY <3>2 DEF Become, ModTypeOK, Idle
    <3> QED BY <2>1, <3>3
  <2>6. ASSUME NEW r \in Reports, NEW scope \in Insts \cup {Super},
               \/ \E block \in BOOLEAN : StartSettle(s, r, scope, block)
               \/ StartRemove(s, r, scope)
        PROVE  LET u == users'[report'[slot'[s].report].reported]
               IN  slot'[s].scope = Super \/ (u.live /\ u.inst = slot'[s].scope)
    <3>1. There(r) /\ InScope(r, scope) /\ UNCHANGED <<users, report>>
      BY <2>6 DEF StartSettle, StartRemove
    <3>2. slot'[s].report = r /\ slot'[s].scope = scope
      <4>1. ASSUME NEW block \in BOOLEAN, StartSettle(s, r, scope, block)
            PROVE  slot'[s].report = r /\ slot'[s].scope = scope
        BY <4>1 DEF StartSettle, Become, ModTypeOK, Idle
      <4>2. ASSUME StartRemove(s, r, scope) PROVE slot'[s].report = r /\ slot'[s].scope = scope
        BY <4>2 DEF StartRemove, Become, ModTypeOK, Idle
      <4> QED BY <2>6, <4>1, <4>2
    <3> QED BY <3>1, <3>2 DEF InScope
  <2>7. CASE ResolveInstitution(s) \/ Sever(s)
    BY <2>3, <2>7 DEF ResolveInstitution, Sever
  <2>8. CASE (\E r \in Reports : SaveReport(s, r)) \/ BlockUser(s) \/ Remove(s) \/ Abort(s)
    BY <2>2, <2>8 DEF SaveReport, BlockUser, Remove, Abort
  <2> QED BY <2>1, <2>4, <2>5, <2>6, <2>7, <2>8 DEF Handle
<1> QED BY <1>2, <1>3

\* A step that does not come from a request leaves the reports, and what it changes of a user
\* is seen by the requests about that user.
Aside ==
    /\ UNCHANGED <<connection, report, slot>>
    /\ moved \subseteq moved'
    /\ \A u \in Users :
          \/ users'[u].live = users[u].live /\ users'[u].inst = users[u].inst
          \/ Move(u)

LEMMA AsideReports ==
    ASSUME ModTypeOK, ReportInv, Aside
    PROVE  ReportInv'
<1>1. ReportsSevered' /\ SeveredBefore'
  BY DEF Aside, ReportInv, ReportsSevered, SeveredBefore, There, At
<1>2. ASSUME NEW s \in Slots PROVE Admitted(s)'
  <2> SUFFICES ASSUME slot[s].pc \in {"settle", "remove"}, There(slot[s].report)
               PROVE  LET u == users'[report[slot[s].report].reported]
                      IN  slot[s].scope = Super \/ s \in moved' \/ (u.live /\ u.inst = slot[s].scope)
    BY DEF Admitted, Aside, There
  <2> PICK r \in Reports : r = slot[s].report BY SlotOK DEF RequestOK
  <2> PICK v \in Users : v = report[r].reported BY DEF There, ModTypeOK
  <2>1. slot[s].scope = Super \/ s \in moved \/ (users[v].live /\ users[v].inst = slot[s].scope)
    BY DEF ReportInv, Admitted
  <2>2. Move(v) => s \in moved' BY NoneAssumption DEF Move
  <2> QED BY <2>1, <2>2 DEF Aside
<1> QED BY <1>1, <1>2 DEF ReportInv

LEMMA ScriptAside ==
    ASSUME TypeOK, ScriptNext \/ OutsideNext
    PROVE  Aside
<1>1. CASE UNCHANGED <<users, modVars>> BY <1>1 DEF modVars, Aside
<1>2. ASSUME NEW u \in Users, MigrateUser(u) PROVE Aside
  BY <1>2, MigrateUsers DEF MigrateUser, modVars, Aside, SameUser, SameButStatus
<1>3. ASSUME SyncUser PROVE Aside
  <2> PICK u \in Users : u = script.user BY <1>3, SyncUsers
  <2>1. \A v \in Users \ {u} : SameUser(v) BY <1>3, SyncUsers
  <2>2. users'[u].live = users[u].live BY <1>3, SyncUsers
  <2>3. users'[u].inst = users[u].inst \/ Move(u) BY <1>3 DEF SyncUser
  <2>4. moved \subseteq moved' BY <1>3 DEF SyncUser, Move
  <2> QED BY <1>3, <2>1, <2>2, <2>3, <2>4 DEF SyncUser, Aside, SameUser
<1>4. ASSUME NEW u \in Users, Detach(u) \/ DeleteUser(u) PROVE Aside
  <2>1. \A v \in Users \ {u} : SameUser(v) BY <1>4, OutsideUsers
  <2>2. Move(u) /\ UNCHANGED <<connection, report, slot>> BY <1>4 DEF Detach, DeleteUser
  <2>3. moved \subseteq moved' BY <2>2 DEF Move
  <2> QED BY <2>1, <2>2, <2>3 DEF Aside, SameUser
<1> QED
  BY <1>1, <1>2, <1>3, <1>4
  DEF ScriptNext, OutsideNext, StartMigrate, StartSync, Start, FinishScript, Crash, FindAdmin,
      FailUser, MoveAdmin, RenumberAdmin

LEMMA ReportInvHolds == Spec => []ReportInv
<1>1. TypeOK /\ ReportInv /\ [Next]_vars => ReportInv'
  <2> SUFFICES ASSUME TypeOK, ReportInv, [Next]_vars PROVE ReportInv' OBVIOUS
  <2> USE DEF TypeOK
  <2>1. CASE UNCHANGED vars
    <3>1. UNCHANGED <<users, connection, report, slot, moved>> BY <2>1 DEF vars, modVars
    <3>2. Aside BY <3>1 DEF Aside
    <3> QED BY <3>2, AsideReports
  <2>2. ASSUME NEW s \in Slots, Handle(s) PROVE ReportInv'
    BY <2>2, HandleSevered, HandleAdmitted DEF ReportInv
  <2> QED BY <2>1, <2>2, ScriptAside, AsideReports DEF Next, ModNext
<1> QED BY <1>1, InitReports, BackOfficeTyped, PTL DEF Spec

\* Who stands in a report can no longer reach the reporter, and only who may deal with the
\* report changes it.
THEOREM ReportsAreSound == Spec => ReportsSound
<1>1. ReportInv => ReportsSevered BY DEF ReportInv
<1>2. TypeOK /\ ReportInv /\ [Next]_vars =>
         [\A r \in Reports :
             There(r) /\ report'[r] # report[r] =>
                 LET u == users[report[r].reported]
                 IN  \E s \in Slots : /\ slot'[s] # slot[s] /\ slot[s].report = r
                                      /\ \/ slot[s].scope = Super \/ s \in moved
                                         \/ u.live /\ u.inst = slot[s].scope
         ]_<<users, modVars>>
  <2> SUFFICES ASSUME TypeOK, ReportInv, Next, NEW r \in Reports, There(r), report'[r] # report[r]
               PROVE  LET u == users[report[r].reported]
                      IN  \E s \in Slots : /\ slot'[s] # slot[s] /\ slot[s].report = r
                                           /\ \/ slot[s].scope = Super \/ s \in moved
                                              \/ u.live /\ u.inst = slot[s].scope
    BY DEF vars, modVars
  <2> USE DEF TypeOK
  <2>1. PICK s \in Slots : Handle(s) BY ScriptAside DEF Next, ModNext, Aside
  <2>2. ~ \E x \in Reports : SaveReport(s, x)
    BY DEF SaveReport, There, Unused, ModTypeOK
  <2>3. Settle(s) \/ Remove(s)
    BY <2>1, <2>2 DEF Handle, StartReport, ResolveInstitution, Sever, StartSettle, StartRemove,
                      BlockUser, Abort
  <2>4. slot[s].report = r
    <3> PICK x \in Reports : x = slot[s].report BY <2>3, SlotOK DEF Settle, Remove, At, RequestOK
    <3>1. r = x BY <2>3 DEF Settle, Remove, ModTypeOK
    <3> QED BY <3>1
  <2>5. slot'[s] # slot[s]
    <3>1. slot[s].pc \in {"settle", "remove"} BY <2>3 DEF Settle, Remove, At
    <3>2. CASE Done(s) BY <3>1, <3>2, IdleOK DEF Done, Become, ModTypeOK
    <3>3. CASE Become(s, [Idle EXCEPT !.pc = "block", !.report = r, !.reported = report[r].reported])
      <4>1. slot'[s].pc = "block" BY <3>3 DEF Become, ModTypeOK, Idle
      <4> QED BY <3>1, <4>1
    <3> QED BY <2>3, <2>4, <3>2, <3>3 DEF Settle, Remove
  <2>6. slot[s].pc \in {"settle", "remove"} BY <2>3 DEF Settle, Remove, At
  <2>7. Admitted(s) BY DEF ReportInv
  <2> QED BY <2>4, <2>5, <2>6, <2>7 DEF Admitted
<1> QED BY <1>1, <1>2, BackOfficeTyped, ReportInvHolds, PTL DEF Spec, ReportsSound, ScopeHolds
=============================================================================
