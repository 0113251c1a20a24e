------------------------------ MODULE MCSignup ------------------------------
EXTENDS SignupOverlap, TLC

Symmetry == Permutations(Slots) \cup Permutations(Phones) \cup Permutations(Ids)
=============================================================================
