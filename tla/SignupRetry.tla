----------------------------- MODULE SignupRetry -----------------------------
(***************************************************************************)
(* Liveness of the sign-up: what a client that keeps asking can count on   *)
(* when calls fail now and then.  An attempt that fails between the        *)
(* Cognito SignUp and the insert leaves an account without a user; the     *)
(* branches on UsernameExistsException are there to recover from that.     *)
(***************************************************************************)
EXTENDS Signup

CONSTANT MaxFailures \* bound: how many calls fail in a behaviour

VARIABLE failures    \* calls that have failed

retryVars == <<vars, failures>>

RetryInit == Init /\ failures = 0

CallFails(s) ==
    /\ failures < MaxFailures
    /\ Abort(s)
    /\ failures' = failures + 1

RetryNext ==
    \/ Step /\ UNCHANGED failures
    \/ \E s \in Slots : CallFails(s)

\* The event loop resumes a handler whose awaited call has answered, and the
\* client of a phone number asks again when it has no answer.
Fairness ==
    \A s \in Slots :
        /\ WF_retryVars(Handle(s) /\ UNCHANGED failures)
        /\ \A p \in Phones : SF_retryVars(StartUnified(s, p) /\ UNCHANGED failures)

RetrySpec == RetryInit /\ [][RetryNext]_retryVars /\ Fairness

\* While the limit leaves room, every phone number whose client keeps asking
\* gets its user: no account an earlier attempt orphaned, and no account a
\* managed creation deletes and fails to sign up again, stands in its way.
Registers == \A p \in Phones : []<>(LiveWith(p) # {})
=============================================================================
