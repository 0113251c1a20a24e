--------------------------- MODULE MCAdministration ---------------------------
EXTENDS Administration, TLC

\* One domain: the institutions and the addresses all meet.
OneDomain == [e \in Emails |-> CHOOSE d \in Domains : TRUE]

Symmetry ==
    Permutations(Slots) \cup Permutations(Admins) \cup Permutations(Emails)
        \cup Permutations(Names) \cup Permutations(Insts)
=============================================================================
