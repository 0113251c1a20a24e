----------------------------- MODULE Maintenance -----------------------------
(***************************************************************************)
(* The scripts an operator runs on the live database, one at a time, next  *)
(* to the service:                                                         *)
(*   migrate-user-status-and-remove-isactive.ts and                        *)
(*   sync-institution-id-to-users.ts.                                      *)
(* Both read all users once and then write them from what they have read.  *)
(* Either may stop anywhere and be run again.                              *)
(***************************************************************************)
EXTENDS Moderation

CONSTANTS
    OldUsers,    \* what the users, the institutions of the administrators with their e-mails,
    OldAdmins,   \* and the phone numbers of these administrators may be at first
    OldPhones,
    MaxOutside   \* bound: changes made by others

\* The number of the administrator with a user's e-mail, against the user's: an administrator
\* need not have one.
PhoneStates == {"same", "other", "missing"}

ASSUME BoundsAssumption ==
    /\ MaxOutside \in Nat
    /\ OldPhones \subseteq [Users -> PhoneStates]
    /\ OldAdmins \subseteq [Users -> Insts \cup {NoInst}]
    /\ OldUsers \subseteq [Users -> {u \in User : /\ u.live /\ u.email /\ ~u.verified
                                                /\ u.status # "inactive"}]

VARIABLES
    admin,   \* the institution of the administrator with a user's e-mail, if there is one
    phone,   \* the phone number of that administrator
    script,  \* what runs, and what it has read and not yet written
    outside, \* changes made by others so far
    stale    \* history: users changed by others since the script read them

scriptVars == <<admin, phone, script, outside, stale>>
vars == <<users, modVars, scriptVars>>

Seen == [status : Statuses, inst : Insts \cup {NoInst}, verified : BOOLEAN]
\* failed: some write failed, or the run was cut short.
Script == [name : {"none", "migrate", "sync"}, pc : {"idle", "users", "write", "done"},
           todo : SUBSET Users, user : Users \cup {NoUser}, inst : Insts \cup {NoInst},
           match : BOOLEAN, seen : [Users -> Seen], failed : BOOLEAN]

ScriptTypeOK ==
    /\ admin \in [Users -> Insts \cup {NoInst}] /\ phone \in [Users -> PhoneStates]
    /\ script \in Script
    /\ script.pc = "write" => script.user \in Users
    /\ outside \in 0 .. MaxOutside
    /\ stale \subseteq Users

TypeOK == ModTypeOK /\ ScriptTypeOK

Unseen == [status |-> "pending", inst |-> NoInst, verified |-> FALSE]
NoScript == [name |-> "none", pc |-> "idle", todo |-> {}, user |-> NoUser, inst |-> NoInst,
             match |-> FALSE, seen |-> [u \in Users |-> Unseen], failed |-> FALSE]

Init ==
    /\ users \in OldUsers
    /\ ModInit
    /\ admin \in OldAdmins /\ phone \in OldPhones
    /\ script = NoScript
    /\ outside = 0
    /\ stale = {}

Running(n, l) == script.name = n /\ script.pc = l
Start(n, S, fields) ==
    /\ script.pc \in {"idle", "done"}
    /\ script' = [NoScript EXCEPT !.name = n, !.pc = "users", !.todo = S,
                                  !.seen = [u \in Users |-> IF u \in S THEN fields[u] ELSE Unseen]]
    /\ stale' = {}
    /\ UNCHANGED <<users, modVars, admin, phone, outside>>

\* A user is done with; what was read of it is dropped.
Forget(q, u) == [q EXCEPT !.todo = @ \ {u}, !.seen[u] = Unseen, !.user = NoUser, !.inst = NoInst,
                          !.match = FALSE]

-----------------------------------------------------------------------------
(* migrate-user-status-and-remove-isactive.ts *)

\* mapToUserStatus; "completed" stands for the three that become active, and "unknown"
\* for all it does not know.
\* Mutant: only the legacy statuses are mapped, the others are not known.
MapLegacy(status) == IF status = "completed" THEN "active" ELSE "pending"

\* Mutant: what is not known is left as it is.
MapKnown(status) == IF status = "completed" THEN "active" ELSE status

MapToUserStatus(status) ==
    CASE status \in {"completed", "active"} -> "active"
      [] status = "blocked" -> "blocked"
      [] OTHER -> "pending"

StartMigrate ==
    Start("migrate", {u \in Users : users[u].live},
          [u \in Users |-> [Unseen EXCEPT !.status = users[u].status]])

\* The users of a batch are written side by side, in any order, by user id alone.
MigrateUser(u) ==
    LET old == script.seen[u].status
    IN  /\ Running("migrate", "users") /\ u \in script.todo
        /\ users' = IF MapToUserStatus(old) = old THEN users
                    ELSE [users EXCEPT ![u].status = MapToUserStatus(old)]
        /\ script' = Forget(script, u)
        /\ UNCHANGED <<modVars, admin, phone, outside, stale>>

-----------------------------------------------------------------------------
(* sync-institution-id-to-users.ts *)

StartSync ==
    Start("sync", {u \in Users : users[u].live /\ users[u].email},
          [u \in Users |-> [Unseen EXCEPT !.inst = users[u].inst, !.verified = users[u].verified]])

\* Numbers match unless both are known and differ.
PhoneMatch(u) == phone[u] # "other"

\* Whether the script writes the user, given the institution of the administrator.
\* Mutant: a user that is in the institution needs no write.
NeedsInstitution(u, i) == script.seen[u].inst # i

Needs(u, i) ==
    \/ script.seen[u].inst # i
    \/ PhoneMatch(u) /\ ~script.seen[u].verified

\* The administrator with the e-mail that was read for the user; without one, or without an
\* institution, the user is skipped.
FindAdmin(u) ==
    /\ Running("sync", "users") /\ u \in script.todo
    /\ script' = IF admin[u] # NoInst /\ Needs(u, admin[u])
                 THEN [script EXCEPT !.pc = "write", !.user = u, !.inst = admin[u],
                                     !.match = PhoneMatch(u)]
                 ELSE Forget(script, u)
    /\ UNCHANGED <<users, modVars, admin, phone, outside, stale>>

\* Mutant: verified whatever the phone numbers are.
SyncUserVerified ==
    LET u == script.user
    IN  /\ Running("sync", "write")
        /\ users' = IF users[u].live
                    THEN [users EXCEPT ![u].inst = script.inst, ![u].verified = TRUE]
                    ELSE users
        /\ script' = [Forget(script, u) EXCEPT !.pc = "users"]
        /\ UNCHANGED <<modVars, admin, phone, outside, stale>>

\* Only what differs from what was read is set: the institution, and that it is verified.
SyncUser ==
    LET u == script.user
        i == IF script.seen[u].inst = script.inst THEN users[u].inst ELSE script.inst
    IN  /\ Running("sync", "write")
        /\ users' = IF users[u].live
                    THEN [users EXCEPT ![u].inst = i, ![u].verified = @ \/ script.match]
                    ELSE users
        /\ IF users'[u].inst = users[u].inst THEN UNCHANGED moved ELSE Move(u)
        /\ script' = [Forget(script, u) EXCEPT !.pc = "users"]
        /\ UNCHANGED <<connection, report, slot, admin, phone, outside, stale>>

-----------------------------------------------------------------------------
\* A call for one user fails: it is counted, and the script goes on with the next.
FailUser(u) ==
    /\ script.pc \in {"users", "write"} /\ u \in script.todo
    /\ script.pc = "write" => u = script.user
    /\ script' = [Forget(script, u) EXCEPT !.pc = "users", !.failed = TRUE]
    /\ UNCHANGED <<users, modVars, admin, phone, outside, stale>>

FinishScript ==
    /\ script.pc = "users" /\ script.todo = {}
    /\ script' = [script EXCEPT !.pc = "done"]
    /\ UNCHANGED <<users, modVars, admin, phone, outside, stale>>

\* The process is stopped; what it has written stays.
Crash ==
    /\ script.pc \in {"users", "write"}
    /\ script' = NoScript
    /\ stale' = {}
    /\ UNCHANGED <<users, modVars, admin, phone, outside>>

-----------------------------------------------------------------------------
(* Changes by others: users leave an institution or are deleted, administrators move *)

Outside(u) == outside < MaxOutside /\ outside' = outside + 1 /\ stale' = stale \cup {u}

\* removeUserFromInstitution
Detach(u) ==
    /\ users[u].live /\ users[u].inst # NoInst
    /\ users' = [users EXCEPT ![u].inst = NoInst, ![u].email = FALSE, ![u].verified = FALSE]
    /\ Outside(u) /\ Move(u)
    /\ UNCHANGED <<connection, report, slot, admin, phone, script>>

\* deleteUser
DeleteUser(u) ==
    /\ users[u].live
    /\ users' = [users EXCEPT ![u].live = FALSE, ![u].status = "inactive"]
    /\ Outside(u) /\ Move(u)
    /\ UNCHANGED <<connection, report, slot, admin, phone, script>>

MoveAdmin(u, i) ==
    /\ admin[u] # i
    /\ admin' = [admin EXCEPT ![u] = i]
    /\ Outside(u)
    /\ UNCHANGED <<users, modVars, phone, script>>

\* updateAdminUser: a number can be changed, not taken away.
RenumberAdmin(u, p) ==
    /\ admin[u] # NoInst /\ phone[u] # p /\ p # "missing"
    /\ phone' = [phone EXCEPT ![u] = p]
    /\ Outside(u)
    /\ UNCHANGED <<users, modVars, admin, script>>

=============================================================================
