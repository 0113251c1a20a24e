----------------------------- MODULE Moderation -----------------------------
(***************************************************************************)
(* ReviewReportService: reports about users, and what comes of them.       *)
(*                                                                         *)
(* A report severs the connection of the two users in the chat service     *)
(* before it is stored.  An administrator settles it later, and may block  *)
(* the user it is about; what the administrator may touch is decided from  *)
(* the institution of that user, read before anything is written.          *)
(***************************************************************************)
EXTENDS Integers, FiniteSets

CONSTANTS
    Users, Insts,
    Friends, \* pairs of a user and a peer that have a connection at first
    Slots,   \* requests the service handles at the same time
    Reports, \* bound: identifiers of reports
    NoInst, Super, \* in no institution; a request of the central administrators
    NoUser, NoReport

ASSUME FriendsAssumption == Friends \subseteq {p \in Users \X Users : p[1] # p[2]}
ASSUME NoneAssumption ==
    /\ NoInst \notin Insts /\ Super \notin Insts /\ Super # NoInst
    /\ NoUser \notin Users /\ NoReport \notin Reports

VARIABLES
    users,      \* the documents of users
    connection, \* of a user and its peer, kept by the chat service
    report,     \* the documents of reports
    slot,       \* the state of each request
    moved       \* history: requests whose report is on a user that changed since they were let in

modVars == <<connection, report, slot, moved>>

Legacy == {"completed", "unknown"} \* statuses of older versions
Statuses == {"pending", "active", "blocked", "inactive"} \cup Legacy
User == [live : BOOLEAN, status : Statuses, inst : Insts \cup {NoInst},
         email : BOOLEAN, verified : BOOLEAN]

\* Identifiers are not used twice.
Report == [state : {"unused", "open", "resolved", "removed"},
           reporter : Users \cup {NoUser}, reported : Users \cup {NoUser}]
Unused == [state |-> "unused", reporter |-> NoUser, reported |-> NoUser]

Labels == {"idle", "institution", "sever", "save", "settle", "block", "remove"}
Request == [pc : Labels, reporter : Users \cup {NoUser}, reported : Users \cup {NoUser},
            report : Reports \cup {NoReport}, scope : Insts \cup {NoInst, Super}, block : BOOLEAN]
Idle == [pc |-> "idle", reporter |-> NoUser, reported |-> NoUser, report |-> NoReport,
         scope |-> NoInst, block |-> FALSE]

ModTypeOK ==
    /\ users \in [Users -> User]
    /\ connection \in [Users -> [Users -> {"none", "open", "blocked"}]]
    /\ report \in [Reports -> Report]
    /\ slot \in [Slots -> Request]
    /\ \A r \in Reports : report[r].state # "unused" =>
          report[r].reporter \in Users /\ report[r].reported \in Users
    /\ \A s \in Slots :
          /\ slot[s].pc \in {"settle", "block", "remove"} =>
                slot[s].report \in Reports /\ report[slot[s].report].state # "unused"
          /\ slot[s].pc \in {"institution", "sever", "save", "block"} => slot[s].reported \in Users
          /\ slot[s].pc \in {"institution", "sever", "save"} => slot[s].reporter \in Users
    /\ moved \subseteq Slots

-----------------------------------------------------------------------------
ModInit ==
    /\ connection = [u \in Users |-> [v \in Users |-> IF <<u, v>> \in Friends THEN "open" ELSE "none"]]
    /\ report = [r \in Reports |-> Unused]
    /\ slot = [s \in Slots |-> Idle]
    /\ moved = {}

At(s, l) == slot[s].pc = l
There(r) == report[r].state \in {"open", "resolved"}
Become(s, q) ==
    /\ slot' = [slot EXCEPT ![s] = q]
    /\ moved' = IF q.pc = "idle" THEN moved \ {s} ELSE moved
Done(s) == Become(s, Idle)
Goto(s, l) == Become(s, [slot[s] EXCEPT !.pc = l])

-----------------------------------------------------------------------------
(* create *)

\* validateConnection finds the peer among the first connections it is given, blocked or
\* not; what it does not find it refuses, and no one reports itself.
StartReport(s, u, v) ==
    /\ At(s, "idle")
    /\ connection[u][v] # "none" /\ u # v
    /\ Become(s, [Idle EXCEPT !.pc = "institution", !.reporter = u, !.reported = v])
    /\ UNCHANGED <<users, connection, report>>

\* The institution that is stored with the report is read here.
ResolveInstitution(s) ==
    /\ At(s, "institution")
    /\ Goto(s, "sever")
    /\ UNCHANGED <<users, connection, report>>

\* The messages that go with the report are asked for next, and done without if need be.
Sever(s) ==
    /\ At(s, "sever")
    /\ connection' = [connection EXCEPT ![slot[s].reporter][slot[s].reported] = "blocked"]
    /\ Goto(s, "save")
    /\ UNCHANGED <<users, report>>

SaveReport(s, r) ==
    /\ At(s, "save") /\ report[r] = Unused
    /\ report' = [report EXCEPT ![r] = [state |-> "open", reporter |-> slot[s].reporter,
                                        reported |-> slot[s].reported]]
    /\ Done(s)
    /\ UNCHANGED <<users, connection>>

-----------------------------------------------------------------------------
(* updateStatus and delete *)

\* Institution administrators touch the reports on the users of their institution only.
\* Mutant: the scope of a user that is in no institution, or gone, is not looked at.
InScopeLoose(r, scope) ==
    LET u == users[report[r].reported]
    IN  scope = Super \/ ~u.live \/ u.inst \in {scope, NoInst}

InScope(r, scope) ==
    LET u == users[report[r].reported] IN scope = Super \/ (u.live /\ u.inst = scope)

StartSettle(s, r, scope, block) ==
    /\ At(s, "idle") /\ There(r) /\ InScope(r, scope)
    /\ Become(s, [Idle EXCEPT !.pc = "settle", !.report = r, !.scope = scope, !.block = block])
    /\ UNCHANGED <<users, connection, report>>

\* Resolved, or given another status; only the first may block the user.
\* Mutant: the user is that of the request and not that of the report.
SettleRequested(s) ==
    LET r == slot[s].report
    IN  /\ At(s, "settle")
        /\ \/ There(r) /\ \E state \in {"open", "resolved"} :
                 /\ report' = [report EXCEPT ![r].state = state]
                 /\ IF state = "resolved" /\ slot[s].block THEN Goto(s, "block") ELSE Done(s)
           \/ ~There(r) /\ Done(s) /\ UNCHANGED report
        /\ UNCHANGED <<users, connection>>

Settle(s) ==
    LET r == slot[s].report
    IN  /\ At(s, "settle")
        /\ \/ There(r) /\ \E state \in {"open", "resolved"} :
                 /\ report' = [report EXCEPT ![r].state = state]
                 /\ IF state = "resolved" /\ slot[s].block
                    THEN Become(s, [Idle EXCEPT !.pc = "block", !.report = r,
                                                !.reported = report[r].reported])
                    ELSE Done(s)
           \/ ~There(r) /\ Done(s) /\ UNCHANGED report
        /\ UNCHANGED <<users, connection>>

\* By user id alone: a user deleted meanwhile is blocked too.  isBlocked, which is set
\* beside the status and which nothing reads, is left out.
BlockUser(s) ==
    /\ At(s, "block")
    /\ users' = [users EXCEPT ![slot[s].reported].status = "blocked"]
    /\ Done(s)
    /\ UNCHANGED <<connection, report>>

StartRemove(s, r, scope) ==
    /\ At(s, "idle") /\ There(r) /\ InScope(r, scope)
    /\ Become(s, [Idle EXCEPT !.pc = "remove", !.report = r, !.scope = scope])
    /\ UNCHANGED <<users, connection, report>>

Remove(s) ==
    /\ At(s, "remove")
    /\ report' = [report EXCEPT ![slot[s].report].state = "removed"]
    /\ Done(s)
    /\ UNCHANGED <<users, connection>>

\* An awaited call is rejected: what was done before it stays.
Abort(s) == ~At(s, "idle") /\ Done(s) /\ UNCHANGED <<users, connection, report>>

Handle(s) ==
    \/ \E u, v \in Users : StartReport(s, u, v)
    \/ ResolveInstitution(s) \/ Sever(s)
    \/ \E r \in Reports : SaveReport(s, r)
    \/ \E r \in Reports, scope \in Insts \cup {Super}, block \in BOOLEAN : StartSettle(s, r, scope, block)
    \/ \E r \in Reports, scope \in Insts \cup {Super} : StartRemove(s, r, scope)
    \/ Settle(s) \/ BlockUser(s) \/ Remove(s) \/ Abort(s)

ModNext == \E s \in Slots : Handle(s)

\* A write to user u by somebody else, seen by the requests that have looked at it.
Move(u) ==
    moved' = moved \cup {s \in Slots : /\ slot[s].report # NoReport /\ There(slot[s].report)
                                       /\ report[slot[s].report].reported = u}

-----------------------------------------------------------------------------
(* Properties *)

\* Whoever stands in a report can no longer reach the reporter, whichever call failed on
\* the way. (create severs the connection first and stores the report last; the reverse
\* does not hold: a report that cannot be stored leaves the connection severed.)
ReportsSevered ==
    \A r \in Reports : There(r) => connection[report[r].reporter][report[r].reported] = "blocked"

\* An institution administrator changes or removes a report only while its user is in the
\* institution, or has left it during the request.
\* (loadAndAuthorize decides before the write; assertReviewReportScope.)
ScopeHolds ==
    [][\A r \in Reports :
          There(r) /\ report'[r] # report[r] =>
              LET u == users[report[r].reported]
              IN  \E s \in Slots : /\ slot'[s] # slot[s] /\ slot[s].report = r
                                   /\ \/ slot[s].scope = Super \/ s \in moved
                                      \/ u.live /\ u.inst = slot[s].scope
      ]_<<users, modVars>>

\* A report counts: it has severed the connection, and only who may deal with it does.
ReportsSound == []ReportsSevered /\ ScopeHolds
=============================================================================
