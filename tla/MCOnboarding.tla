---------------------------- MODULE MCOnboarding ----------------------------
EXTENDS Onboarding, TLC, Sequences, SequencesExt

CONSTANT Rivals \* users that only compete for a user name

\* Each address belongs to an institution of its own, while there are any.
InstitutionOf ==
    LET es == SetToSeq(Emails)  is == SetToSeq(Institutions)
    IN  [e \in Emails |-> {is[k] : k \in {l \in 1..Len(is) : l <= Len(es) /\ es[l] = e}}]

\* Bound: a rival gets no further than its user name, and is never in an institution.
RivalsStayPending ==
    \A u \in Rivals :
        /\ doc[u].status = "pending" /\ doc[u].email = NoEmail /\ doc[u].institution = NoInst
        /\ \A s \in Slots : Uid(s) = u => slot[s].op \in {"verifyOtp", "setUsername", "profile"}

Symmetry ==
    Permutations(Slots) \cup Permutations(Users \ Rivals) \cup Permutations(Names \ {Blank})
=============================================================================
