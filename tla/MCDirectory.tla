----------------------------- MODULE MCDirectory -----------------------------
(* Directory with a requester, three users that are known, and one that joins. *)
EXTENDS Directory, TLC

CONSTANTS u1, u2, u3, u4

By(a, t, m) == [actor |-> a, target |-> t, meta |-> m, status |-> "pending", friend |-> TRUE]
\* A request that asks for something else.
Of(a, t) == [By(a, t, NoUser) EXCEPT !.friend = FALSE]
\* The newest is u1.
MCKnown == [u \in Users |-> CASE u = u3 -> 1 [] u = u2 -> 2 [] u = Me -> 3 [] u = u1 -> 4 [] OTHER -> 0]
MCRelated == {By(u3, Me, NoUser)}
MCAsks == {By(Me, u1, u1), By(Me, NoUser, u2), By(u2, NoUser, Me), Of(Me, u2)}
=============================================================================
