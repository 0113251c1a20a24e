----------------------------- MODULE Compensation -----------------------------
(***************************************************************************)
(* What an operation that writes to several stores, and undoes its writes  *)
(* when a later one fails, promises about each thing it makes: the thing   *)
(* is pending until the operation is over; then it is kept, and nothing    *)
(* undoes it any more, or it is undone, or it is left behind because the   *)
(* undoing failed as well.  createAdminUser promises this of the           *)
(* administrator, createOnboardingAdminUser of the institution too.        *)
(***************************************************************************)
CONSTANT Items

VARIABLE phase

Phases == {"none", "pending", "kept", "undone", "left"}

TypeOK == phase \in [Items -> Phases]

Init == phase = [i \in Items |-> "none"]

Make(i) == phase[i] = "none" /\ phase' = [phase EXCEPT ![i] = "pending"]

Finish(i, how) == phase[i] = "pending" /\ phase' = [phase EXCEPT ![i] = how]

Next ==
    \E i \in Items :
        Make(i) \/ Finish(i, "kept") \/ Finish(i, "undone") \/ Finish(i, "left")

Spec == Init /\ [][Next]_phase

-----------------------------------------------------------------------------
\* What is over is over: kept things stay, and nothing that was undone comes back.
OverForGood ==
    [][\A i \in Items : phase[i] \in {"kept", "undone", "left"} => phase'[i] = phase[i]]_phase
=============================================================================
