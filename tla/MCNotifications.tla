--------------------------- MODULE MCNotifications ---------------------------
EXTENDS Notifications, TLC

Symmetry ==
    Permutations(Slots) \cup Permutations(Users) \cup Permutations(Tokens)
        \cup Permutations(Types) \cup Permutations(Messages) \cup Permutations(Notes)
=============================================================================
