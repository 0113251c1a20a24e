------------------------------ MODULE BackOffice ------------------------------
(***************************************************************************)
(* Administrators settling reports while an operator runs the maintenance  *)
(* scripts on the same users.                                              *)
(***************************************************************************)
EXTENDS Maintenance

ScriptNext ==
    \/ StartMigrate \/ StartSync \/ SyncUser \/ FinishScript \/ Crash
    \/ \E u \in Users : MigrateUser(u) \/ FindAdmin(u) \/ FailUser(u)

OutsideNext ==
    \E u \in Users :
        \/ Detach(u) \/ DeleteUser(u)
        \/ \E i \in Insts \cup {NoInst} : MoveAdmin(u, i)
        \/ \E p \in PhoneStates : RenumberAdmin(u, p)

Next ==
    \/ ModNext /\ UNCHANGED scriptVars
    \/ ScriptNext
    \/ OutsideNext

Spec == Init /\ [][Next]_vars

-----------------------------------------------------------------------------
(* Properties *)

\* A user that was blocked stays blocked unless the migration had read it before, with a
\* status that it maps: what a report decides is then undone.
\* (updateStatus against the snapshot of the migration, whose header promises
\* 'blocked' -> 'blocked'.)
BlockedStay ==
    [][\A u \in Users :
          users[u].status = "blocked" /\ users'[u].status \notin {"blocked", "inactive"} =>
              u \in script.todo /\ script.seen[u].status \in Legacy]_vars

\* A migration that ran to its end without a failure leaves no user with a status of an
\* older version, however many runs were cut short before and whatever reports were settled
\* meanwhile.
MigrationComplete ==
    Running("migrate", "done") /\ ~script.failed =>
        \A u \in Users : users[u].live => users[u].status \notin Legacy

\* A synchronisation that ran to its end without a failure leaves nothing to be done: who
\* has the e-mail of an administrator is in its institution, and verified unless their phone
\* numbers differ; users that others changed meanwhile are left out.
SyncComplete ==
    Running("sync", "done") /\ ~script.failed =>
        \A u \in Users \ stale :
            users[u].live /\ users[u].email /\ admin[u] # NoInst =>
                users[u].inst = admin[u] /\ (PhoneMatch(u) => users[u].verified)

\* So both scripts leave nothing behind.
ScriptsComplete == MigrationComplete /\ SyncComplete

\* A user becomes verified, or is put into an institution, on the word of an administrator
\* whose e-mail it has and whose phone number, for the former, is not known to be another,
\* unless one of the two changed after the script had read the user.
\* (phoneMatch is true where a number is missing, though the header of the script speaks of
\* numbers that match.)
SyncVouched ==
    [][\A u \in Users \ stale :
          /\ users'[u].verified /\ ~users[u].verified => users[u].email /\ PhoneMatch(u)
          /\ users'[u].inst # users[u].inst /\ users'[u].inst # NoInst =>
                users[u].email /\ users'[u].inst = admin[u]]_vars

=============================================================================
