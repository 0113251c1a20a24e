-------------------------- MODULE MCOnboardingLive --------------------------
EXTENDS OnboardingLive, Sequences, SequencesExt

\* As many users as addresses: each client has its own.
OwnAddress ==
    LET us == SetToSeq(Users)  es == SetToSeq(Emails)
    IN  [u \in Users |-> es[CHOOSE k \in 1..Len(us) : us[k] = u]]
OneInstitution == [e \in Emails |-> Institutions]
=============================================================================
