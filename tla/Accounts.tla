------------------------------- MODULE Accounts -------------------------------
(***************************************************************************)
(* The owner's account: sessions and step-up (internal/auth/session.go),   *)
(* the challenges of passkey ceremonies (webauthn.go), the first enrolment *)
(* (enrol.go, handlers_enrol.go) and the security settings                 *)
(* (handlers_security.go), under requests that overlap, writes that fail   *)
(* and a process that dies.  How often sign-in may be attempted is in      *)
(* module SignIn, what else the guarded requests do in WebActions.         *)
(*                                                                         *)
(* Session tokens, challenge ids and enrolment tokens are random: here     *)
(* each is the position of a row that is never used again.                 *)
(***************************************************************************)
EXTENDS Integers, Sequences, FiniteSets

CONSTANTS
    None,
    Passkeys,         \* the passkeys that the owner's devices can make
    Requests,         \* requests that can be in progress at the same time
    IdleTimeout,      \* auth.session_idle
    AbsoluteTimeout,  \* auth.session_absolute
    StepUpDuration,   \* how long a step-up lasts, 5 minutes in the code
    ChallengeTTL,     \* challengeTTL
    EnrolTTL,         \* EnrolTokenTTL
    Patience,         \* longest from a step-up's check to what it admits, and
                      \* from an assertion to the instant it counts from
    Enrolled,         \* passkeys of an owner who is there at the start
    MaxRows,          \* sessions, challenges and enrolment tokens ever made
    MaxRequests,      \* requests that arrive in one behaviour
    MaxTime,          \* the last instant
    MaxFaults         \* crashes and failing writes in one behaviour

ASSUME AccountsAssumption ==
    /\ Enrolled \subseteq Passkeys
    /\ {IdleTimeout, AbsoluteTimeout, StepUpDuration, ChallengeTTL, EnrolTTL} \subseteq Nat \ {0}
    /\ {Patience, MaxRequests, MaxTime, MaxFaults} \subseteq Nat /\ MaxRows \in Nat \ {0}
    /\ None \notin Nat

VARIABLES
    clock,
    owner,       \* the row of the users table is there
    totp,        \* with the secret of an authenticator app
    passkeys,    \* the credentials table
    sessions,    \* the sessions table, None where a row was deleted
    challenges,  \* ChallengeStore, None where an entry was taken
    enrolHash,   \* enrol_token_hash of the state table
    enrolExpires,\* enrol_expires_at
    request,     \* the requests in progress
    \* Observers.
    asserted,    \* per session when a passkey was last asserted in it
    born,        \* when each enrolment token was made
    enrolments,  \* passkeys registered by enrolment
    raced,       \* two removals of passkeys, or two `labpower enrol`, overlapped
    arrived,     \* requests that have arrived
    faults       \* crashes and failing writes so far

account == <<owner, totp, passkeys>>
enrolment == <<enrolHash, enrolExpires>>
observers == <<asserted, born, enrolments, raced, arrived, faults>>
vars == <<clock, account, sessions, challenges, enrolment, request, observers>>

Times == 0..MaxTime
Ids == 1..MaxRows
Session == [created : Times, seen : Times, stepup : 0..MaxTime + StepUpDuration \cup {None}]

\* What is asked of a session, and what of these needs a fresh step-up.
Guarded == {"act", "add", "remove", "totp"}
Plain == {"logout", "revoke", "ask", "stepup"}

Idle ==
    [step |-> "idle", kind |-> None, token |-> None, session |-> None, now |-> 0,
     passkey |-> None, overtaken |-> FALSE]

\* The local variables of a request: what it was asked, in which session and as
\* which session was read, when it last looked at the clock, with which
\* enrolment token and which passkey.
Steps ==
    {"idle", "session", "expire", "touch", "check", "raise", "store", "delete", "first", "second",
     "expiry", "user", "credential", "consume", "forget"} \cup Guarded \cup Plain
Locals ==
    [step : Steps, kind : Guarded \cup Plain \cup {None}, token : Ids \cup {None},
     session : Session \cup {None}, now : Times, passkey : Passkeys \cup {None},
     overtaken : BOOLEAN]

\* The types of the tables, the challenges, the requests and the observers.
AccountOK == owner \in BOOLEAN /\ totp \in BOOLEAN /\ passkeys \subseteq Passkeys
SessionsOK ==
    /\ sessions \in Seq(Session \cup {None}) /\ Len(sessions) <= MaxRows
    /\ asserted \in Seq(Times \cup {None}) /\ Len(asserted) = Len(sessions)
ChallengesOK == challenges \in Seq([purpose : {"login", "owner"}, expires : Nat] \cup {None})
EnrolmentOK ==
    /\ born \in Seq(Times) /\ Len(born) <= MaxRows
    /\ enrolHash \in DOMAIN born \cup {None} /\ enrolExpires \in Nat \cup {None}
RequestsOK == request \in [Requests -> Locals]
ObserversOK ==
    /\ clock \in Times /\ raced \in BOOLEAN /\ enrolments \in Nat
    /\ arrived \in 0..MaxRequests /\ faults \in 0..MaxFaults
TypeOK ==
    AccountOK /\ SessionsOK /\ ChallengesOK /\ EnrolmentOK /\ RequestsOK /\ ObserversOK

-----------------------------------------------------------------------------
(* The tables and the challenges.  A definition named Mutant_... is a       *)
(* mistake the code could contain, with the definition it would replace     *)
(* after it.                                                                *)

\* Sessions.Create: a session that was just used, and is not stepped up.
NewSession(now) == [created |-> now, seen |-> now, stepup |-> None]

\* CreateSession, with a new token.
Created(now) == Append(sessions, NewSession(now))

\* GetSession finds a row.
Known(token) == token \in DOMAIN sessions /\ sessions[token] # None

\* DeleteSession: no row is no error.
Deleted(token) == [sessions EXCEPT ![token] = None]

Mutant_Touched(token, session, now) == [sessions EXCEPT ![token] = [session EXCEPT !.seen = now]]

\* TouchSession: an UPDATE, of no row if there is none.
Touched(token, session, now) ==
    IF Known(token) THEN [sessions EXCEPT ![token].seen = now] ELSE sessions

\* SetSessionStepUp, likewise.
Raised(token, until) ==
    IF Known(token) THEN [sessions EXCEPT ![token].stepup = until] ELSE sessions

\* Validate
Expired(session, now) ==
    now - session.seen > IdleTimeout \/ now - session.created > AbsoluteTimeout

Mutant_HasStepUp(session, now) == session.stepup # None

\* HasStepUp
HasStepUp(session, now) == session.stepup # None /\ session.stepup > now

\* ChallengeStore.Put, under a new id.
Put(purpose) ==
    /\ Len(challenges) < MaxRows
    /\ challenges' = Append(challenges, [purpose |-> purpose, expires |-> clock + ChallengeTTL])

\* ChallengeStore.Take removes the entry, whether or not it is too old.
Taken(id) == [challenges EXCEPT ![id] = None]

\* The ceremony can be finished: the challenge was made for this purpose.
Answerable(id, purpose, now) ==
    /\ challenges[id] # None /\ now <= challenges[id].expires
    /\ challenges[id].purpose = purpose

\* A ceremony that succeeds: its challenge is gone.
Answer(id, purpose, now) ==
    /\ Answerable(id, purpose, now)
    /\ challenges' = Taken(id)

\* One that fails: its challenge is gone all the same.
Waste == \E id \in DOMAIN challenges : challenges[id] # None /\ challenges' = Taken(id)

Enter(r, locals) == request[r] = Idle /\ request' = [request EXCEPT ![r] = locals]
Go(r, step) == request' = [request EXCEPT ![r].step = step]
Leave(r) == request' = [request EXCEPT ![r] = Idle]
At(r, step) == request[r].step = step
Arrive == arrived < MaxRequests /\ arrived' = arrived + 1

-----------------------------------------------------------------------------
(* Signing in *)

\* handleLoginPasskeyBegin
AskSignIn ==
    /\ Arrive /\ Put("login")
    /\ UNCHANGED <<clock, account, sessions, enrolment, request, asserted, born, enrolments, raced, faults>>

\* handleLoginPasskeyFinish, with one of the owner's passkeys or in vain.
SignIn(r) ==
    /\ Arrive
    /\ \/ /\ \E id \in DOMAIN challenges : owner /\ passkeys # {} /\ Answer(id, "login", clock)
          /\ Enter(r, [Idle EXCEPT !.step = "session", !.now = clock])
       \/ Waste /\ UNCHANGED request
    /\ UNCHANGED <<clock, account, sessions, enrolment, asserted, born, enrolments, raced, faults>>

\* handleLoginTOTP, with the right code.
SignInByCode(r) ==
    /\ Arrive
    /\ owner /\ totp
    /\ Enter(r, [Idle EXCEPT !.step = "session", !.now = clock])
    /\ UNCHANGED <<clock, account, sessions, challenges, enrolment, asserted, born, enrolments, raced, faults>>

\* finishLogin
CreateSession(r) ==
    /\ At(r, "session") /\ Len(sessions) < MaxRows
    /\ sessions' = Created(clock) /\ asserted' = Append(asserted, None)
    /\ Leave(r)
    /\ UNCHANGED <<clock, account, challenges, enrolment, born, enrolments, raced, arrived, faults>>

-----------------------------------------------------------------------------
(* requireSession *)

\* Validate's read.  A session that is too old is deleted, any other touched.
InSession(r) ==
    /\ Arrive
    /\ \E token \in DOMAIN sessions, kind \in Guarded \cup Plain :
          /\ Known(token)
          /\ Enter(r, [Idle EXCEPT !.token = token, !.session = sessions[token], !.kind = kind,
                                   !.now = clock,
                                   !.step = IF Expired(sessions[token], clock) THEN "expire" ELSE "touch"])
    /\ UNCHANGED <<clock, account, sessions, challenges, enrolment, asserted, born, enrolments, raced, faults>>

Expire(r) ==
    /\ At(r, "expire")
    /\ sessions' = Deleted(request[r].token)
    /\ Leave(r)
    /\ UNCHANGED <<clock, account, challenges, enrolment, observers>>

Touch(r) ==
    /\ At(r, "touch")
    /\ sessions' = Touched(request[r].token, request[r].session, request[r].now)
    /\ Go(r, IF request[r].kind \in Guarded THEN "check" ELSE request[r].kind)
    /\ UNCHANGED <<clock, account, challenges, enrolment, observers>>

\* handleLogout, which deletes the session itself.
Logout(r) ==
    /\ At(r, "logout")
    /\ sessions' = Deleted(request[r].token)
    /\ Leave(r)
    /\ UNCHANGED <<clock, account, challenges, enrolment, observers>>

\* handleSessionRevoke, of any session that is listed.
Revoke(r) ==
    /\ At(r, "revoke")
    /\ \E token \in DOMAIN sessions : Known(token) /\ sessions' = Deleted(token)
    /\ Leave(r)
    /\ UNCHANGED <<clock, account, challenges, enrolment, observers>>

\* handleStepUpBegin, and handlePasskeyAddBegin, which is guarded: nothing keeps
\* the challenge of one from being answered in the other's ceremony.
Ask(r) ==
    /\ At(r, "ask") /\ owner
    /\ Put("owner")
    /\ Leave(r)
    /\ UNCHANGED <<clock, account, sessions, enrolment, asserted, born, enrolments, raced, arrived, faults>>

\* handleStepUpFinish: the passkey is asserted.
StepUp(r) ==
    /\ At(r, "stepup") /\ owner /\ passkeys # {}
    /\ \E id \in DOMAIN challenges : Answer(id, "owner", clock)
    /\ request' = [request EXCEPT ![r].step = "raise", ![r].now = clock]
    /\ asserted' = [asserted EXCEPT ![request[r].token] = clock]
    /\ UNCHANGED <<clock, account, sessions, enrolment, born, enrolments, raced, arrived, faults>>

\* The session is raised, counting from some instant since.
Raise(r) ==
    /\ At(r, "raise")
    /\ \E now \in request[r].now..clock :
          sessions' = Raised(request[r].token, now + StepUpDuration)
    /\ Leave(r)
    /\ UNCHANGED <<clock, account, challenges, enrolment, observers>>

\* A request that is answered with an error and changes nothing: no such
\* session, an old challenge, a wrong passkey, no step-up.
Refuse(r) ==
    /\ request[r].step \in {"check"} \cup Guarded \cup Plain
    /\ Leave(r)
    /\ \/ request[r].step \in {"stepup", "add"} /\ Waste
       \/ UNCHANGED challenges
    /\ UNCHANGED <<clock, account, sessions, enrolment, asserted, born, enrolments, raced, arrived, faults>>

-----------------------------------------------------------------------------
(* What is guarded: requireStepUp judges the session as it was read, and    *)
(* the handler then waits for its body and its reads, until it writes.      *)

\* requireStepUp
Admit(r) ==
    /\ At(r, "check") /\ HasStepUp(request[r].session, clock)
    /\ request' = [request EXCEPT ![r].step = request[r].kind, ![r].now = clock]
    /\ UNCHANGED <<clock, account, sessions, challenges, enrolment, observers>>

\* The write of a power action: module WebActions has what they do.
Act(r) ==
    /\ At(r, "act")
    /\ Leave(r)
    /\ UNCHANGED <<clock, account, sessions, challenges, enrolment, observers>>

\* registrationOptions exclude the passkeys that are there.
Registrable == Passkeys \ passkeys

\* handlePasskeyAddFinish: a passkey that is not among the owner's.
AddPasskey(r) ==
    /\ At(r, "add") /\ owner
    /\ \E id \in DOMAIN challenges : Answer(id, "owner", clock)
    /\ \E p \in Registrable :
          request' = [request EXCEPT ![r].step = "store", ![r].passkey = p]
    /\ UNCHANGED <<clock, account, sessions, enrolment, asserted, born, enrolments, raced, arrived, faults>>

StorePasskey(r) ==
    /\ At(r, "store")
    /\ passkeys' = passkeys \cup {request[r].passkey}
    /\ Leave(r)
    /\ UNCHANGED <<clock, owner, totp, sessions, challenges, enrolment, observers>>

Mutant_Removable(p) == p \in passkeys

\* handlePasskeyDelete: one of the owner's passkeys, but not the last.
Removable(p) == p \in passkeys /\ Cardinality(passkeys) # 1

ChoosePasskey(r) ==
    /\ At(r, "remove")
    /\ \E p \in Passkeys :
          Removable(p) /\ request' = [request EXCEPT ![r].step = "delete", ![r].passkey = p]
    /\ UNCHANGED <<clock, account, sessions, challenges, enrolment, observers>>

DeletePasskey(r) ==
    /\ At(r, "delete")
    /\ passkeys' = passkeys \ {request[r].passkey}
    /\ raced' = (raced \/ \E q \in Requests \ {r} : At(q, "delete"))
    /\ Leave(r)
    /\ UNCHANGED <<clock, owner, totp, sessions, challenges, enrolment, asserted, born, enrolments, arrived, faults>>

\* handleTOTPConfirm, with the right code; a second app replaces the first.
ConfirmTOTP(r) ==
    /\ At(r, "totp") /\ owner
    /\ totp' = TRUE
    /\ Leave(r)
    /\ UNCHANGED <<clock, owner, passkeys, sessions, challenges, enrolment, observers>>

\* handleTOTPDisable
DisableTOTP(r) ==
    /\ At(r, "totp") /\ owner
    /\ totp' = FALSE
    /\ Leave(r)
    /\ UNCHANGED <<clock, owner, passkeys, sessions, challenges, enrolment, observers>>

-----------------------------------------------------------------------------
(* Enrolment *)

\* `labpower enrol`: refused once there is an owner, and then two writes.
GenerateEnrolToken(r) ==
    /\ Arrive
    /\ ~owner /\ Len(born) < MaxRows
    /\ born' = Append(born, clock)
    /\ Enter(r, [Idle EXCEPT !.step = "first", !.token = Len(born'), !.now = clock])
    /\ UNCHANGED <<clock, account, sessions, challenges, enrolment, asserted, enrolments, raced, faults>>

Mutant_Writes == <<"expires", "hash">>
Writes == <<"hash", "expires">>

WritesNow(r, key) == \E i \in 1..2 : At(r, <<"first", "second">>[i]) /\ Writes[i] = key

\* Each of the writes; an enrolment that reads in between is overtaken.
WriteToken(r, key) ==
    /\ WritesNow(r, key)
    /\ IF key = "hash"
       THEN enrolHash' = request[r].token /\ UNCHANGED enrolExpires
       ELSE enrolExpires' = request[r].now + EnrolTTL /\ UNCHANGED enrolHash
    /\ request' = [q \in Requests |->
                      IF q # r THEN [request[q] EXCEPT !.overtaken = @ \/ At(q, "expiry")]
                      ELSE IF At(r, "first") THEN [request[r] EXCEPT !.step = "second"] ELSE Idle]
    /\ raced' = (raced \/ \E q \in Requests \ {r} : At(q, "first") \/ At(q, "second"))
    /\ UNCHANGED <<clock, account, sessions, challenges, asserted, born, enrolments, arrived, faults>>

\* ValidateEnrolToken reads the owner and the hash, and then the expiry.
Valid(token) == ~owner /\ enrolHash = token
Timely(now) == enrolExpires # None /\ now <= enrolExpires

\* handleEnrolPasskeyBegin
AskEnrol ==
    /\ Arrive
    /\ \E token \in DOMAIN born : Valid(token) /\ Timely(clock)
    /\ Put("owner")
    /\ UNCHANGED <<clock, account, sessions, enrolment, request, asserted, born, enrolments, raced, faults>>

\* handleEnrolPasskeyFinish
Enrol(r) ==
    /\ Arrive
    /\ \E token \in DOMAIN born :
          Valid(token) /\ Enter(r, [Idle EXCEPT !.step = "expiry", !.token = token, !.now = clock])
    /\ UNCHANGED <<clock, account, sessions, challenges, enrolment, asserted, born, enrolments, raced, faults>>

FinishRegistration(r) ==
    /\ At(r, "expiry")
    /\ \/ /\ Timely(request[r].now)
          /\ \E id \in DOMAIN challenges : Answer(id, "owner", request[r].now)
          /\ \E p \in Passkeys : request' = [request EXCEPT ![r].step = "user", ![r].passkey = p]
       \/ Timely(request[r].now) /\ Waste /\ Leave(r)
       \/ ~Timely(request[r].now) /\ Leave(r) /\ UNCHANGED challenges
    /\ UNCHANGED <<clock, account, sessions, enrolment, asserted, born, enrolments, raced, arrived, faults>>

Mutant_Insertable == TRUE

\* The users table takes the owner once.
Insertable == ~owner

CreateUser(r) ==
    /\ At(r, "user")
    /\ IF Insertable THEN owner' = TRUE /\ Go(r, "credential") ELSE Leave(r) /\ UNCHANGED owner
    /\ UNCHANGED <<clock, totp, passkeys, sessions, challenges, enrolment, observers>>

CreateCredential(r) ==
    /\ At(r, "credential")
    /\ passkeys' = passkeys \cup {request[r].passkey}
    /\ enrolments' = enrolments + 1
    /\ Go(r, "consume")
    /\ UNCHANGED <<clock, owner, totp, sessions, challenges, enrolment, asserted, born, raced, arrived, faults>>

\* ConsumeEnrolToken, of which errors are only logged.
ConsumeToken(r) ==
    /\ At(r, "consume")
    /\ enrolHash' = None
    /\ Go(r, "forget")
    /\ UNCHANGED <<clock, account, sessions, challenges, enrolExpires, observers>>

ForgetExpiry(r) ==
    /\ At(r, "forget")
    /\ enrolExpires' = None
    /\ Go(r, "session")
    /\ UNCHANGED <<clock, account, sessions, challenges, enrolHash, observers>>

-----------------------------------------------------------------------------
(* Failures, the process and the clock *)

\* A write fails: the request is answered with an error, as is that of an
\* expired session which could not be deleted, or goes on where that is only
\* logged.
WriteFails(r) ==
    /\ faults < MaxFaults /\ faults' = faults + 1
    /\ \/ request[r].step \in
             {"expire", "touch", "logout", "revoke", "session", "raise", "act", "store",
              "delete", "totp", "first", "second", "user", "credential"} /\ Leave(r)
       \/ request[r].step \in {"consume", "forget"} /\ Go(r, "session")
    /\ UNCHANGED <<clock, account, sessions, challenges, enrolment, asserted, born, enrolments, raced, arrived>>

\* The challenges are in memory.
Crash ==
    /\ faults < MaxFaults /\ faults' = faults + 1
    /\ challenges' = [id \in DOMAIN challenges |-> None]
    /\ request' = [r \in Requests |-> Idle]
    /\ UNCHANGED <<clock, account, sessions, enrolment, asserted, born, enrolments, raced, arrived>>

\* A request that is on its way from an assertion or a check to its write.
Hurried(r) == request[r].step \in Guarded \cup {"raise", "store", "delete"}

Advance ==
    /\ clock < MaxTime /\ clock' = clock + 1
    /\ \A r \in Requests : Hurried(r) => clock < request[r].now + Patience
    /\ UNCHANGED <<account, sessions, challenges, enrolment, request, observers>>

\* Nobody is enrolled, with an enrolment token or without one, or the owner has
\* just stepped up in a first session.
Init ==
    /\ clock = 0 /\ totp = FALSE /\ challenges = <<>>
    /\ \/ owner = FALSE /\ passkeys = {} /\ sessions = <<>> /\ asserted = <<>>
       \/ /\ Enrolled # {} /\ owner = TRUE /\ passkeys = Enrolled
          /\ sessions = <<[created |-> 0, seen |-> 0, stepup |-> StepUpDuration]>>
          /\ asserted = <<0>>
    /\ \/ enrolHash = None /\ enrolExpires = None /\ born = <<>>
       \/ ~owner /\ enrolHash = 1 /\ enrolExpires = EnrolTTL /\ born = <<0>>
    /\ request = [r \in Requests |-> Idle]
    /\ enrolments = 0
    /\ raced = FALSE /\ arrived = 0 /\ faults = 0

Next ==
    \/ AskSignIn \/ AskEnrol \/ Crash \/ Advance
    \/ \E r \in Requests :
          \/ SignIn(r) \/ SignInByCode(r) \/ CreateSession(r)
          \/ InSession(r) \/ Expire(r) \/ Touch(r) \/ Logout(r) \/ Revoke(r) \/ Refuse(r)
          \/ Ask(r) \/ StepUp(r) \/ Raise(r)
          \/ Admit(r) \/ Act(r) \/ AddPasskey(r) \/ StorePasskey(r) \/ ChoosePasskey(r) \/ DeletePasskey(r)
          \/ ConfirmTOTP(r) \/ DisableTOTP(r)
          \/ GenerateEnrolToken(r) \/ \E key \in {"hash", "expires"} : WriteToken(r, key)
          \/ Enrol(r) \/ FinishRegistration(r) \/ CreateUser(r) \/ CreateCredential(r)
          \/ ConsumeToken(r) \/ ForgetExpiry(r)
          \/ WriteFails(r)

Spec == Init /\ [][Next]_vars

-----------------------------------------------------------------------------
(* Properties *)

\* A session that was revoked, logged out of or found expired never comes back,
\* whatever requests were validated in it before and still have to write.
GoneForGood ==
    [][\A token \in DOMAIN sessions : sessions[token] = None => sessions'[token] = None]_vars

\* What is guarded only takes effect within StepUpDuration of an assertion of a
\* passkey in the very same session, give or take how long the assertion's own
\* request and the guarded one may take: however late the session is raised after
\* the assertion, read before it is checked, or checked before the write.
FreshStepUp ==
    [][\A r \in Requests :
          Act(r) \/ StorePasskey(r) \/ DeletePasskey(r) \/ ConfirmTOTP(r) \/ DisableTOTP(r) =>
              LET last == asserted[request[r].token]
              IN  last # None /\ clock < last + StepUpDuration + 2 * Patience]_vars

\* Only one enrolment ever registers a passkey, even if several are under way
\* with the same token.
EnrolledOnce == enrolments <= 1

\* The owner is only created with a token that was made no longer ago than
\* EnrolTTL when the request arrived, even if making another token failed
\* half-way; unless another token was written while the request read this one, or
\* two of them were written at the same time.
EnrolTimely ==
    [][\A r \in Requests :
          CreateUser(r) /\ owner' # owner =>
              raced \/ request[r].overtaken \/ request[r].now <= born[request[r].token] + EnrolTTL]_vars

\* An owner always has a passkey to sign in with, from the enrolment on, as long
\* as no two requests race (raced) and nothing fails in between.
OwnerCanSignIn ==
    owner => \/ passkeys # {} \/ raced \/ faults > 0
             \/ \E r \in Requests : At(r, "credential")
===============================================================================
