------------------------------ MODULE Admission ------------------------------
(***************************************************************************)
(* What a check that reads a count, and a write that comes some awaits     *)
(* later, promise when nothing ties them together.  A requester is         *)
(* admitted while the total is below what is allowed, and adds one to the  *)
(* total afterwards; others do the same in between.  The service relies on *)
(* this pattern twice: checkSignupRestrictions for the number of users and *)
(* ensurePhoneAvailable for the users of one phone number.                 *)
(***************************************************************************)
EXTENDS Integers, FiniteSets

CONSTANT Requesters

\* What the bound needs of the requesters.
SomeRequesters == IsFiniteSet(Requesters) /\ Requesters # {}

VARIABLES
    total,    \* how many there are
    enforced, \* whether the check is made at all
    allowed,  \* how many there may be
    base,     \* history: the total when the rule last changed
    holders   \* requesters that nothing will stop from adding one

admissionVars == <<total, enforced, allowed, base, holders>>

Init ==
    /\ total = 0
    /\ enforced \in BOOLEAN
    /\ allowed \in Nat
    /\ base = 0
    /\ holders = {}

Admit(r) ==
    /\ r \notin holders
    /\ enforced => total < allowed
    /\ holders' = holders \cup {r}
    /\ UNCHANGED <<total, enforced, allowed, base>>

Add(r) ==
    /\ r \in holders
    /\ total' = total + 1
    /\ holders' = holders \ {r}
    /\ UNCHANGED <<enforced, allowed, base>>

GiveUp(r) ==
    /\ r \in holders
    /\ holders' = holders \ {r}
    /\ UNCHANGED <<total, enforced, allowed, base>>

Remove ==
    /\ total > 0
    /\ total' = total - 1
    /\ UNCHANGED <<enforced, allowed, base, holders>>

\* Requesters that are under way keep the rule they have read.
ChangeRule ==
    /\ enforced' \in BOOLEAN
    /\ allowed' \in Nat
    /\ base' = total
    /\ holders' \in SUBSET Requesters
    /\ UNCHANGED total

Next ==
    \/ \E r \in Requesters : Admit(r) \/ Add(r) \/ GiveUp(r)
    \/ Remove
    \/ ChangeRule

Spec == Init /\ [][Next]_admissionVars

-----------------------------------------------------------------------------
Larger(a, b) == IF a >= b THEN a ELSE b

TypeOK ==
    /\ total \in Nat
    /\ enforced \in BOOLEAN
    /\ allowed \in Nat
    /\ base \in Nat
    /\ holders \subseteq Requesters

\* The overshoot is less than the number of requesters, counted from what was
\* allowed or from what there was when the rule changed, whichever is more.
OvershootBounded ==
    enforced => total <= Larger(allowed - 1, base) + Cardinality(Requesters)

\* Inductive: what is there and what is on its way stay within the bound.
Promised ==
    enforced => total + Cardinality(holders)
                  <= Larger(allowed - 1, base) + Cardinality(Requesters)
=============================================================================
