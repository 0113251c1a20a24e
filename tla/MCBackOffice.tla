----------------------------- MODULE MCBackOffice -----------------------------
(* BackOffice with symmetric requests; the second user is a peer of the first. *)
EXTENDS BackOffice, TLC

CONSTANTS u1, u2, i1

MCFriends == {<<u1, u2>>}

\* A user as an older version has left it.
Old(status, inst) ==
    [live |-> TRUE, status |-> status, inst |-> inst, email |-> TRUE, verified |-> FALSE]
MCOldUsers ==
    {[u \in Users |-> IF u = u1 THEN Old("unknown", NoInst) ELSE Old(status, i1)] :
        status \in {"completed", "blocked"}}
MCOldAdmins == {[u \in Users |-> i1]}
MCOldPhones == {[u \in Users |-> IF u = u1 THEN "other" ELSE "missing"]}

Symmetry == Permutations(Slots)
=============================================================================
