--------------------------- MODULE OnboardingLive ---------------------------
(***************************************************************************)
(* Liveness of the onboarding: a client that repeats its steps gets its    *)
(* user activated, whatever calls failed on the way and however its        *)
(* requests overlapped.                                                    *)
(***************************************************************************)
EXTENDS Onboarding

CONSTANTS
    AddressOf,   \* the address each user's client verifies
    MaxFailures  \* bound: how many calls fail in a behaviour

VARIABLE failures \* calls that have failed

liveVars == <<vars, failures>>

CallFails(s) ==
    /\ failures < MaxFailures
    /\ Abort(s)
    /\ failures' = failures + 1

\* A client stays with its address, and enters the codes it is sent.
ClientStep ==
    /\ Step
    /\ \A s \in Slots :
        /\ ~EnterDefaultCode(s)
        /\ slot'[s].op = "verifyEmail" => slot'[s].email = AddressOf[slot'[s].uid]
    /\ UNCHANGED failures

LiveNext == ClientStep \/ \E s \in Slots : CallFails(s)

\* The event loop resumes a handler whose call has answered; a client asks again
\* for what it has not got, and for a name that check-available-username allows.
Fairness ==
    /\ \A s \in Slots : WF_liveVars(Handle(s) /\ ClientStep)
    /\ \A u \in Users :
        /\ SF_liveVars(ClientStep /\ \E s \in Slots : StartVerifyOtp(s, u))
        /\ SF_liveVars(ClientStep /\ \E s \in Slots, n \in Names :
                            ~NameTaken(u, n) /\ StartSetUsername(s, u, n))
        /\ SF_liveVars(ClientStep /\ \E s \in Slots : StartVerifyEmail(s, u, AddressOf[u]))
        /\ SF_liveVars(ClientStep /\ \E s \in Slots, i \in Institutions :
                            StartConfirmEmail(s, u, AddressOf[u], i))

LiveSpec == Init /\ failures = 0 /\ [][LiveNext]_liveVars /\ Fairness

\* Every user whose client keeps going becomes active: no half-done step leaves
\* it where the next attempt is turned away for good.
Onboards == \A u \in Users : <>(doc[u].status = "active")
=============================================================================
