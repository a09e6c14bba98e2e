---------------------------- MODULE AccountsClaims ----------------------------
(* What the comments of internal/auth say of enrolment. *)
EXTENDS MCAccounts

\* auth/enrol.go:53: the token is consumed "once enrolment actually succeeds, so
\* a failed attempt (e.g. the passkey ceremony itself failing) can be retried with
\* the same token until it expires".  A user that is stored without a passkey
\* makes every further attempt fail, and there is no other way in.
EnrolmentRetried ==
    /\ \A r \in Requests : request[r] = Idle
    /\ enrolHash # None /\ Timely(clock)
    => Valid(enrolHash) \/ passkeys # {}
===============================================================================
