------------------------------ MODULE MCUserBulk ------------------------------
(* UserBulk with symmetric slots, addresses, numbers and institutions. *)
EXTENDS UserBulk, TLC

\* Bound: while user names are about, one request is handled at a time, beside the others
\* that write users.
Unnamed ==
    /\ \A u \in Users : users[u].name = NoName
    /\ \A s \in Slots : \A n \in Left(s) : slot[s].rows[n].name = NoName
OneRequest == \A s, t \in Slots : s = t \/ At(s, "idle") \/ At(t, "idle")
NamesAlone == Unnamed \/ OneRequest

Symmetry ==
    Permutations(Slots) \cup Permutations(Emails)
        \cup Permutations(Phones) \cup Permutations(Insts)
=============================================================================
