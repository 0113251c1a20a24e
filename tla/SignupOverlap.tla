---------------------------- MODULE SignupOverlap ----------------------------
(* Signup with a look back: the phone numbers that two requests have been      *)
(* handled for at the same time.                                               *)
EXTENDS Signup

VARIABLE overlapped \* history: those phone numbers

overlapVars == <<vars, overlapped>>

HandledFor(p) == {s \in Slots : ~At(s, "idle") /\ slot[s].phone = p}
Overlapping == {p \in Phones : \E s, t \in HandledFor(p) : s # t}

OverlapInit == Init /\ overlapped = {}
OverlapNext == Next /\ overlapped' = overlapped \cup Overlapping'
OverlapSpec == OverlapInit /\ [][OverlapNext]_overlapVars

\* As long as the requests for a phone number are handled one at a time, whatever fails
\* and whatever the others do, it has at most one live user, and one that can
\* be sent an OTP: the number has its Cognito account.
OneAtATime ==
    \A p \in Phones \ overlapped :
        Cardinality(LiveWith(p)) <= 1 /\ (LiveWith(p) # {} => p \in accounts)
=============================================================================
