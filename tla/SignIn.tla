-------------------------------- MODULE SignIn --------------------------------
(***************************************************************************)
(* Attempts to sign in and to step up (internal/web/handlers_auth.go) and  *)
(* the middleware that limits their rate (middleware.go): attempts run at  *)
(* the same time, each is let through or refused when it arrives and is    *)
(* counted as a success or a failure when it ends.  Failures that come in  *)
(* bursts, and sign-ins from a new address, are told to the owner.  Who    *)
(* may sign in with what is in module Accounts.                            *)
(***************************************************************************)
EXTENDS RateLimiter, FiniteSets, Sequences

CONSTANTS
    None,
    Addresses,    \* client addresses
    Attempts,     \* attempts that can be in progress at the same time
    Kinds,        \* what is attempted, among those of AllKinds
    Window,       \* failBurstWindow
    Threshold,    \* failBurstThreshold
    Patience,     \* how long a request takes at most
    Slip,         \* and how long from reading the clock to Allow
    Second,       \* the store keeps instants in whole seconds
    MaxAttempts,  \* attempts that arrive in one behaviour
    MaxTime,      \* the last instant
    MaxFaults     \* crashes and failing writes in one behaviour

\* To begin with a passkey (or to enrol one), to finish with it or to give a
\* code, to begin a step-up, to finish it.
AllKinds == {"begin", "login", "stepup_begin", "stepup"}

ASSUME SignInAssumption ==
    /\ Kinds \subseteq AllKinds
    /\ {Window, Threshold, Patience, Second} \subseteq Nat \ {0} /\ Slip \in 0..Patience
    /\ 2 * Patience + Second <= Window /\ Window % Second = 0
    /\ {MaxAttempts, MaxTime, MaxFaults} \subseteq Nat
    /\ None \notin Nat

VARIABLES
    clock,
    login,      \* LoginLimiter's entries
    stepup,     \* StepUpLimiter's entries
    fails,      \* when the login_fail events of the table were recorded
    known,      \* the addresses with a login_ok event
    notifiedAt, \* auth.fail_burst_notified_at of the state table
    attempt,    \* the attempts in progress
    \* Observers.
    history,    \* per limiter and address what happened since the last success
    alerts,     \* alerts of a burst: when, and whether the attempt was overtaken
    arrived,    \* attempts that have arrived
    faults      \* crashes and failing writes so far

store == <<fails, known, notifiedAt>>
limiters == <<login, stepup>>
observers == <<history, alerts, arrived, faults>>
vars == <<clock, limiters, store, attempt, observers>>

Steps ==
    {"allow", "serve", "record", "count", "check", "remember", "alert", "session", "seen", "log", "tell",
     "rejected", "success", "failure"}
Idle == [step |-> "idle"]
Times == 0..MaxTime
Active ==
    [step : Steps, kind : Kinds, from : Addresses, at : Times, now : Times, new : BOOLEAN,
     overtaken : BOOLEAN]

Groups == {"login", "stepup"}
Events == [let : Seq(Times), failed : Seq([at : Times, arrived : Times, recorded : Times])]
Blank == [let |-> <<>>, failed |-> <<>>]

\* The types of the tables, of the limiters and of the attempts in progress.
StoreOK == fails \in Seq(Times) /\ known \subseteq Addresses /\ notifiedAt \in Times \cup {None}
AttemptsOK == attempt \in [Attempts -> Active \cup {Idle}]
ObserversOK ==
    /\ history \in [Groups \X Addresses -> Events]
    /\ alerts \in Seq([at : Times, overtaken : BOOLEAN])
    /\ arrived \in 0..MaxAttempts /\ faults \in 0..MaxFaults
LimitersOK == {login, stepup} \subseteq [Addresses -> Entry \cup {NoEntry}]
TypeOK == clock \in Times /\ StoreOK /\ AttemptsOK /\ ObserversOK /\ LimitersOK

-----------------------------------------------------------------------------
(* The limiter of an attempt, and what its observers see of it.  A          *)
(* definition named Mutant_... is a mistake the code could contain, with    *)
(* the definition it would replace after it.                                *)

Group(kind) == IF kind \in {"stepup_begin", "stepup"} THEN "stepup" ELSE "login"

Limiter(kind) == IF Group(kind) = "stepup" THEN stepup ELSE login

SetLimiter(kind, from, entry) ==
    IF Group(kind) = "stepup"
    THEN stepup' = [stepup EXCEPT ![from] = entry] /\ UNCHANGED login
    ELSE login' = [login EXCEPT ![from] = entry] /\ UNCHANGED stepup

See(kind, from, h) == history' = [history EXCEPT ![<<Group(kind), from>>] = h]
Seen(kind, from) == history[<<Group(kind), from>>]

\* A call of Failure with the instant `now`.
CountFailure(a, now) ==
    /\ SetLimiter(a.kind, a.from, AfterFailure(Limiter(a.kind)[a.from], now))
    /\ See(a.kind, a.from,
           [Seen(a.kind, a.from) EXCEPT !.failed = Append(@, [at |-> now, arrived |-> a.at, recorded |-> clock])])

\* A call of Success.
CountSuccess(a) ==
    /\ SetLimiter(a.kind, a.from, AfterSuccess(Limiter(a.kind)[a.from]))
    /\ See(a.kind, a.from, Blank)

Go(a, step) == attempt' = [attempt EXCEPT ![a].step = step]
At(a, step) == attempt[a].step = step

\* An instant as the store keeps it.
Stored(t) == (t \div Second) * Second

\* A write of which the handler ignores the error, or does not.
MayFail == faults < MaxFaults /\ faults' = faults + 1

-----------------------------------------------------------------------------
(* rateLimited *)

\* The clock is read.
Arrive(a) ==
    /\ attempt[a] = Idle /\ arrived < MaxAttempts /\ arrived' = arrived + 1
    /\ \E kind \in Kinds, from \in Addresses :
          attempt' = [attempt EXCEPT ![a] =
              [step |-> "allow", kind |-> kind, from |-> from, at |-> clock, now |-> clock,
               new |-> FALSE, overtaken |-> FALSE]]
    /\ UNCHANGED <<clock, limiters, store, history, alerts, faults>>

\* Allow with the instant read, maybe after a request that has read a later one.
Admit(a) ==
    /\ At(a, "allow")
    /\ LET at == attempt[a].at
           kind == attempt[a].kind
           from == attempt[a].from
           e == Limiter(kind)[from]
       IN  /\ SetLimiter(kind, from, AfterAllow(e, at))
           /\ IF Allowed(e, at)
              THEN Go(a, "serve") /\ See(kind, from, [Seen(kind, from) EXCEPT !.let = Append(@, at)])
              ELSE attempt' = [attempt EXCEPT ![a] = Idle] /\ UNCHANGED history
    /\ UNCHANGED <<clock, store, alerts, arrived, faults>>

Success(a) ==
    /\ At(a, "success")
    /\ CountSuccess(attempt[a])
    /\ attempt' = [attempt EXCEPT ![a] = Idle]
    /\ UNCHANGED <<clock, store, alerts, arrived, faults>>

Failure(a) ==
    /\ At(a, "failure")
    /\ CountFailure(attempt[a], attempt[a].at)
    /\ attempt' = [attempt EXCEPT ![a] = Idle]
    /\ UNCHANGED <<clock, store, alerts, arrived, faults>>

-----------------------------------------------------------------------------
(* The handlers *)

\* What comes of the request: nothing to judge, an expired challenge or a
\* request that makes no sense, a wrong passkey or code, a right one.
Serve(a) ==
    /\ At(a, "serve")
    /\ \/ attempt[a].kind \in {"begin", "stepup_begin"} /\ Go(a, "success")
       \/ Go(a, "failure")
       \/ attempt[a].kind = "login" /\ \E step \in {"record", "session"} : Go(a, step)
       \/ attempt[a].kind = "stepup" /\ Go(a, "rejected")
    /\ UNCHANGED <<clock, limiters, store, observers>>

\* handleStepUpFinish counts a wrong passkey itself, and the middleware again.
Rejected(a) ==
    /\ At(a, "rejected")
    /\ CountFailure(attempt[a], clock)
    /\ Go(a, "failure")
    /\ UNCHANGED <<clock, store, alerts, arrived, faults>>

\* It counts a right one itself, and what becomes of the write is counted again.
Accepted(a) ==
    /\ At(a, "serve") /\ attempt[a].kind = "stepup"
    /\ CountSuccess(attempt[a])
    /\ \/ Go(a, "success") /\ UNCHANGED faults
       \/ MayFail /\ Go(a, "failure")
    /\ UNCHANGED <<clock, store, alerts, arrived>>

\* recordLoginFailure: an event, whether or not the store takes it.
Record(a) ==
    /\ At(a, "record")
    /\ attempt' = [attempt EXCEPT ![a].step = "count", ![a].now = clock]
    /\ \/ fails' = Append(fails, Stored(clock)) /\ UNCHANGED faults
       \/ MayFail /\ UNCHANGED fails
    /\ UNCHANGED <<clock, limiters, known, notifiedAt, history, alerts, arrived>>

Mutant_Recent(now) == {i \in DOMAIN fails : fails[i] > Stored(now - Window) /\ fails[i] < Stored(now)}

\* CountEventsSince
Recent(now) == {i \in DOMAIN fails : fails[i] >= Stored(now - Window)}

Count(a) ==
    /\ At(a, "count")
    /\ Go(a, IF Cardinality(Recent(attempt[a].now)) < Threshold THEN "failure" ELSE "check")
    /\ UNCHANGED <<clock, limiters, store, observers>>

Mutant_ToldLately(now) == FALSE
ToldLately(now) == notifiedAt # None /\ now - notifiedAt < Window

Check(a) ==
    /\ At(a, "check")
    /\ Go(a, IF ToldLately(attempt[a].now) THEN "failure" ELSE "remember")
    /\ UNCHANGED <<clock, limiters, store, observers>>

\* The key is written before the owner is told, whether or not it can be.
\* An attempt that has looked at it already is overtaken.
Remember(a) ==
    /\ At(a, "remember")
    /\ attempt' = [b \in Attempts |->
                      IF b = a THEN [attempt[a] EXCEPT !.step = "alert"]
                      ELSE IF At(b, "remember") THEN [attempt[b] EXCEPT !.overtaken = TRUE]
                      ELSE attempt[b]]
    /\ \/ notifiedAt' = Stored(attempt[a].now) /\ UNCHANGED faults
       \/ MayFail /\ UNCHANGED notifiedAt
    /\ UNCHANGED <<clock, limiters, fails, known, history, alerts, arrived>>

Alert(a) ==
    /\ At(a, "alert")
    /\ alerts' = Append(alerts, [at |-> attempt[a].now, overtaken |-> attempt[a].overtaken])
    /\ Go(a, "failure")
    /\ UNCHANGED <<clock, limiters, store, history, arrived, faults>>

\* finishLogin: the session, and what the limiter is told at once.
StartSession(a) ==
    /\ At(a, "session")
    /\ \/ CountSuccess(attempt[a]) /\ Go(a, "seen") /\ UNCHANGED faults
       \/ MayFail /\ Go(a, "failure") /\ UNCHANGED <<limiters, history>>
    /\ UNCHANGED <<clock, store, alerts, arrived>>

\* HasEvent says no.
NewAddress(from) == from \notin known

LookUp(a) ==
    /\ At(a, "seen")
    /\ attempt' = [attempt EXCEPT ![a].step = "log", ![a].new = NewAddress(attempt[a].from)]
    /\ UNCHANGED <<clock, limiters, store, observers>>

Log(a) ==
    /\ At(a, "log")
    /\ Go(a, IF attempt[a].new THEN "tell" ELSE "success")
    /\ \/ known' = known \cup {attempt[a].from} /\ UNCHANGED faults
       \/ MayFail /\ UNCHANGED known
    /\ UNCHANGED <<clock, limiters, fails, notifiedAt, history, alerts, arrived>>

Tell(a) ==
    /\ At(a, "tell")
    /\ Go(a, "success")
    /\ UNCHANGED <<clock, limiters, store, observers>>

-----------------------------------------------------------------------------
(* The process and the clock *)

\* The limiters are in memory.
Crash ==
    /\ MayFail
    /\ login' = [k \in Addresses |-> NoEntry] /\ stepup' = [k \in Addresses |-> NoEntry]
    /\ attempt' = [a \in Attempts |-> Idle]
    /\ history' = [k \in Groups \X Addresses |-> Blank]
    /\ UNCHANGED <<clock, store, alerts, arrived>>

\* The timeouts of the server and of the notifier are far below a Window.
Advance ==
    /\ clock < MaxTime /\ clock' = clock + 1
    /\ \A a \in Attempts :
          /\ attempt[a] # Idle => clock < attempt[a].at + Patience
          /\ At(a, "allow") => clock < attempt[a].at + Slip
    /\ UNCHANGED <<limiters, store, attempt, observers>>

Init ==
    /\ clock = 0
    /\ login = [k \in Addresses |-> NoEntry] /\ stepup = [k \in Addresses |-> NoEntry]
    /\ fails = <<>> /\ known = {} /\ notifiedAt = None
    /\ attempt = [a \in Attempts |-> Idle]
    /\ history = [k \in Groups \X Addresses |-> Blank]
    /\ alerts = <<>> /\ arrived = 0 /\ faults = 0

Next ==
    \/ \E a \in Attempts :
          \/ Arrive(a) \/ Admit(a) \/ Serve(a) \/ Rejected(a) \/ Accepted(a) \/ Success(a) \/ Failure(a)
          \/ Record(a) \/ Count(a) \/ Check(a) \/ Remember(a) \/ Alert(a)
          \/ StartSession(a) \/ LookUp(a) \/ Log(a) \/ Tell(a)
    \/ Crash \/ Advance

Spec == Init /\ [][Next]_vars

-----------------------------------------------------------------------------
(* Properties *)

\* Between two successes that the limiter is told of, the waits between
\* failures double: an attempt that fails after n others have, and that had not
\* arrived when the last of them was counted, was made a lockout of n doublings
\* or more after it, whatever overlapped before.  A request that only asks for a
\* challenge is such a success, and so ends the row (README, section 4).
WaitsGrow ==
    \A k \in DOMAIN history :
        LET failed == history[k].failed
        IN  \A i \in 2..Len(failed) :
               failed[i].arrived > failed[i - 1].recorded =>
                   failed[i].at - failed[i - 1].at >= Least(LockoutMax, LockoutBase * 2 ^ (i - 2))

\* Those let through that had read the clock before the one let through last.
Backs(let, i, j) == {m \in i + 1..j : let[m] < let[m - 1]}

\* Between two such successes, the attempts let through from an address within
\* any stretch of time are those of a full bucket and of what that time adds,
\* failures and lockouts notwithstanding; every instant that comes to the bucket
\* after a later one lets it count the time between them again.
RateKept ==
    \A k \in DOMAIN history :
        LET let == history[k].let
        IN  \A i, j \in DOMAIN let :
               i <= j => (j - i + 1) * Refill
                            <= Full + (let[j] - let[i]) + Slip * Cardinality(Backs(let, i, j))

\* The owner is alerted once in a window at most, give or take what a request
\* takes and what the second of the last alert has lost, but for attempts of
\* which one looks at the time of the last alert just before another sets it,
\* and for a store that fails.
AlertOnce ==
    faults = 0 =>
        \A i, j \in DOMAIN alerts :
            i < j => \/ alerts[i].overtaken \/ alerts[j].overtaken
                     \/ alerts[j].at - alerts[i].at > Window - Patience - Second

\* And the owner is alerted: when nothing is in progress and nothing broke, every
\* burst of the failures recorded has an alert in the window before its end, or
\* one for a failure that came while the last of them was still being counted.
BurstAlerted ==
    faults = 0 /\ (\A a \in Attempts : attempt[a] = Idle) =>
        \A i \in DOMAIN fails :
            Cardinality({j \in 1..i : fails[j] >= fails[i] - Window}) >= Threshold =>
                \E n \in DOMAIN alerts :
                    alerts[n].at < fails[i] + Second + Patience /\ fails[i] - alerts[n].at < Window
===============================================================================
