------------------------------ MODULE MCSession ------------------------------
(* Session with symmetric requests and devices. *)
EXTENDS Session, TLC

Symmetry == Permutations(Slots) \cup Permutations(Devices)
=============================================================================
