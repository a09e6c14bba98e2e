----------------------------- MODULE SignInProofs -----------------------------
(***************************************************************************)
(* Proofs about SignIn and RateLimiter for every configuration: all rates, *)
(* lockouts and thresholds, any number of addresses and of attempts in     *)
(* progress, crashes and failing writes.                                   *)
(***************************************************************************)
EXTENDS SignIn, FiniteSetTheorems, SequenceTheorems, TLAPS

-----------------------------------------------------------------------------
(* Type correctness, but for when a lockout ends. *)

LEMMA Sizes ==
    /\ Refill \in Nat \ {0} /\ Burst \in Nat \ {0} /\ Full \in Nat
    /\ LockoutBase \in Nat /\ LockoutMax \in Nat /\ MaxShift \in Nat
    /\ Window \in Nat /\ Threshold \in Nat /\ Patience \in Nat /\ Slip \in Nat /\ Slip <= Patience
    /\ Second \in Nat \ {0} /\ 2 * Patience + Second <= Window /\ Window % Second = 0
    /\ MaxAttempts \in Nat /\ MaxTime \in Nat /\ MaxFaults \in Nat
    /\ None \notin Nat /\ Kinds \subseteq AllKinds
  BY LimiterAssumption, SignInAssumption DEF LimiterAssumption, SignInAssumption, Full

\* What an instant loses when it is stored.
LEMMA StoredTime ==
    \A t \in Nat : Stored(t) \in Nat /\ Stored(t) <= t /\ t < Stored(t) + Second
<1>1. \A t \in Nat : Stored(t) <= t /\ t < Stored(t) + Second
  BY Sizes DEF Stored
<1>2. \A t \in Nat : (t \div Second) \in Nat /\ (t \div Second) * Second \in Nat
  BY Sizes
<1> QED
  BY <1>1, <1>2 DEF Stored

\* A window is a number of seconds.
LEMMA StoredBack == \A t \in Nat : Stored(t - Window) <= Stored(t) - Window
<1> DEFINE k == Window \div Second
<1>1. k \in Int /\ Window = k * Second
  BY Sizes
<1> HIDE DEF k
<1> SUFFICES ASSUME NEW t \in Nat PROVE Stored(t - Window) <= Stored(t) - Window
  OBVIOUS
<1>2. (t - Window) \div Second = (t \div Second) - k
  BY <1>1, Sizes
<1>3. \A m, n, q \in Int : (m - n) * q = m * q - n * q
  OBVIOUS
<1>4. ((t \div Second) - k) * Second = (t \div Second) * Second - k * Second
  BY <1>1, <1>3, Sizes
<1>5. (t \div Second) * Second \in Int
  BY Sizes
<1> QED
  BY <1>1, <1>2, <1>4, <1>5, Sizes DEF Stored

Typed == clock \in Times /\ StoreOK /\ AttemptsOK /\ ObserversOK

LEMMA Untouched ==
    /\ StoreOK /\ UNCHANGED <<fails, known, notifiedAt>> => StoreOK'
    /\ AttemptsOK /\ UNCHANGED attempt => AttemptsOK'
    /\ ObserversOK /\ UNCHANGED <<history, alerts, arrived, faults>> => ObserversOK'
  BY DEF StoreOK, AttemptsOK, ObserversOK

LEMMA IdleStep == Idle.step = "idle" /\ Idle \notin Active
<1>1. \A l \in Active : l.step # "idle"
  BY DEF Active, Steps
<1> QED
  BY <1>1 DEF Idle

\* An attempt in progress that goes on.
LEMMA Moves ==
    ASSUME AttemptsOK, NEW a \in Attempts, attempt[a].step \in Steps
    PROVE  /\ attempt[a] \in Active /\ attempt[a].step # "idle"
           /\ \A s \in Steps : [attempt[a] EXCEPT !.step = s] \in Active
           /\ \A s \in Steps : Go(a, s) => AttemptsOK'
<1>1. "idle" \notin Steps
  BY DEF Steps
<1>2. attempt[a] \in Active
  BY <1>1, IdleStep DEF AttemptsOK
<1>3. \A s \in Steps : [attempt[a] EXCEPT !.step = s] \in Active
  BY <1>2 DEF Active
<1>4. \A s \in Steps : Go(a, s) => AttemptsOK'
  BY <1>3 DEF Go, AttemptsOK
<1> QED
  BY <1>1, <1>2, <1>3, <1>4

LEMMA InitTyped == Init => Typed
<1> SUFFICES ASSUME Init PROVE Typed
  OBVIOUS
<1>1. 0 \in Times /\ 0 \in 0..MaxAttempts /\ 0 \in 0..MaxFaults
  BY Sizes DEF Times
<1>2. StoreOK
  BY DEF Init, StoreOK
<1>3. AttemptsOK
  BY DEF Init, AttemptsOK
<1>4. Blank \in Events
  BY DEF Blank, Events
<1>5. ObserversOK
  BY <1>1, <1>4 DEF Init, ObserversOK
<1> QED
  BY <1>1, <1>2, <1>3, <1>5 DEF Init, Typed

\* An event is added to those of a key.
LEMMA EventAdded ==
    ASSUME NEW e \in Events
    PROVE  /\ e.let \in Seq(Times) /\ e.failed \in Seq([at : Times, arrived : Times, recorded : Times])
           /\ \A f \in [at : Times, arrived : Times, recorded : Times] :
                 [e EXCEPT !.failed = Append(e.failed, f)] \in Events
           /\ \A t \in Times : [e EXCEPT !.let = Append(e.let, t)] \in Events
<1>1. e.let \in Seq(Times) /\ e.failed \in Seq([at : Times, arrived : Times, recorded : Times])
  BY DEF Events
<1>2. \A f \in [at : Times, arrived : Times, recorded : Times] :
         Append(e.failed, f) \in Seq([at : Times, arrived : Times, recorded : Times])
  BY <1>1, AppendProperties
<1>3. \A t \in Times : Append(e.let, t) \in Seq(Times)
  BY <1>1, AppendProperties
<1> QED
  BY <1>1, <1>2, <1>3 DEF Events

\* The observers of the limiters.
LEMMA SeenType ==
    ASSUME Typed, NEW kind \in AllKinds, NEW from \in Addresses
    PROVE  /\ <<Group(kind), from>> \in Groups \X Addresses /\ Seen(kind, from) \in Events
           /\ \A h \in Events : See(kind, from, h) => history' \in [Groups \X Addresses -> Events]
<1>1. <<Group(kind), from>> \in Groups \X Addresses
  BY DEF Group, Groups
<1> QED
  BY <1>1 DEF Typed, ObserversOK, Seen, See

LEMMA CountsType ==
    ASSUME Typed, NEW a \in Attempts, attempt[a] \in Active
    PROVE  /\ \A now \in Times : CountFailure(attempt[a], now) => history' \in [Groups \X Addresses -> Events]
           /\ CountSuccess(attempt[a]) => history' \in [Groups \X Addresses -> Events]
<1>1. attempt[a].kind \in AllKinds /\ attempt[a].from \in Addresses /\ attempt[a].at \in Times
  BY Sizes DEF Active
<1>2. Blank \in Events
  BY DEF Blank, Events
<1>3. \A now \in Times : [at |-> now, arrived |-> attempt[a].at, recorded |-> clock] \in [at : Times, arrived : Times, recorded : Times]
  BY <1>1 DEF Typed
<1>4. Seen(attempt[a].kind, attempt[a].from) \in Events
  BY <1>1, SeenType
<1>5. \A f \in [at : Times, arrived : Times, recorded : Times] :
         [Seen(attempt[a].kind, attempt[a].from) EXCEPT !.failed = Append(@, f)] \in Events
  BY <1>4, EventAdded
<1> QED
  BY <1>1, <1>2, <1>3, <1>5, SeenType DEF CountFailure, CountSuccess

LEMMA ArriveTyped == ASSUME Typed, NEW a \in Attempts, Arrive(a) PROVE Typed'
<1>1. PICK kind \in Kinds, from \in Addresses :
         attempt' = [attempt EXCEPT ![a] =
             [step |-> "allow", kind |-> kind, from |-> from, at |-> clock, now |-> clock,
              new |-> FALSE, overtaken |-> FALSE]]
  BY DEF Arrive
<1>2. kind \in AllKinds /\ clock \in Times
  BY Sizes DEF Typed
<1>3. AttemptsOK'
  <2>1. [step |-> "allow", kind |-> kind, from |-> from, at |-> clock,
         now |-> clock, new |-> FALSE, overtaken |-> FALSE] \in Active
    BY <1>2 DEF Active, Steps
  <2> QED
    BY <1>1, <2>1 DEF Typed, AttemptsOK
<1>4. arrived' \in 0..MaxAttempts
  <2>1. arrived' = arrived + 1 /\ arrived < MaxAttempts
    BY DEF Arrive
  <2>2. arrived \in 0..MaxAttempts /\ MaxAttempts \in Nat
    BY Sizes DEF Typed, ObserversOK
  <2> QED
    BY <2>1, <2>2
<1> QED
  BY <1>3, <1>4, Untouched DEF Arrive, Typed, store, ObserversOK

\* What becomes of an attempt when the limiter is asked, and of what is seen of it.
LetThrough(a) == Allowed(Limiter(attempt[a].kind)[attempt[a].from], attempt[a].at)
WithLet(a) ==
    [Seen(attempt[a].kind, attempt[a].from) EXCEPT
        !.let = Append(Seen(attempt[a].kind, attempt[a].from).let, attempt[a].at)]

LEMMA AdmitSteps ==
    ASSUME NEW a \in Attempts, Admit(a)
    PROVE  /\ attempt[a].step = "allow" /\ UNCHANGED <<clock, store, alerts, arrived, faults>>
           /\ SetLimiter(attempt[a].kind, attempt[a].from,
                         AfterAllow(Limiter(attempt[a].kind)[attempt[a].from], attempt[a].at))
           /\ LetThrough(a) => Go(a, "serve") /\ See(attempt[a].kind, attempt[a].from, WithLet(a))
           /\ ~LetThrough(a) => attempt' = [attempt EXCEPT ![a] = Idle] /\ UNCHANGED history
  BY DEF Admit, At, LetThrough, WithLet

LEMMA AdmitTyped == ASSUME Typed, NEW a \in Attempts, Admit(a) PROVE Typed'
<1>1. attempt[a].step = "allow" /\ "allow" \in Steps /\ "serve" \in Steps
  BY AdmitSteps DEF Steps
<1>2. attempt[a] \in Active
  BY <1>1, Moves DEF Typed
<1>3. attempt[a].kind \in AllKinds /\ attempt[a].from \in Addresses /\ attempt[a].at \in Times
  BY <1>2, Sizes DEF Active
<1>4. AttemptsOK'
  <2>1. Go(a, "serve") => AttemptsOK'
    BY <1>1, Moves DEF Typed
  <2>2. attempt' = [attempt EXCEPT ![a] = Idle] => AttemptsOK'
    BY DEF Typed, AttemptsOK
  <2> QED
    BY <2>1, <2>2, AdmitSteps
<1>5. WithLet(a) \in Events
  BY <1>3, SeenType, EventAdded DEF WithLet
<1>6. history' \in [Groups \X Addresses -> Events]
  <2>1. See(attempt[a].kind, attempt[a].from, WithLet(a)) => history' \in [Groups \X Addresses -> Events]
    BY <1>3, <1>5, SeenType
  <2>2. UNCHANGED history => history' \in [Groups \X Addresses -> Events]
    BY DEF Typed, ObserversOK
  <2> QED
    BY <2>1, <2>2, AdmitSteps
<1> QED
  BY <1>4, <1>6, AdmitSteps, Untouched DEF Typed, store, ObserversOK

\* A failing write, if that is what happens.
LEMMA FaultType ==
    ASSUME ObserversOK
    PROVE  /\ MayFail => faults' \in 0..MaxFaults
           /\ UNCHANGED faults => faults' \in 0..MaxFaults
  BY Sizes DEF ObserversOK, MayFail

LEMMA FinishTyped ==
    ASSUME Typed, NEW a \in Attempts,
           Serve(a) \/ Rejected(a) \/ Accepted(a) \/ Success(a) \/ Failure(a) \/ StartSession(a)
    PROVE  Typed'
<1> USE Untouched, FaultType DEF Typed, store, observers
<1>1. attempt[a].step \in Steps
  BY DEF Serve, Rejected, Accepted, Success, Failure, StartSession, At, Steps
<1>2. attempt[a] \in Active /\ attempt[a].at \in Times
  BY <1>1, Moves DEF Active
<1>3. CASE Serve(a)
  <2>1. AttemptsOK'
    BY <1>1, <1>3, Moves DEF Serve, Steps
  <2> QED
    BY <1>3, <2>1 DEF Serve
<1>4. CASE Rejected(a)
  <2>1. AttemptsOK'
    BY <1>1, <1>4, Moves DEF Rejected, Steps
  <2> QED
    BY <1>2, <1>4, <2>1, CountsType DEF Rejected, ObserversOK
<1>5. CASE Success(a)
  <2>1. AttemptsOK'
    BY <1>5 DEF Success, AttemptsOK
  <2> QED
    BY <1>2, <1>5, <2>1, CountsType DEF Success, ObserversOK
<1>6. CASE Failure(a)
  <2>1. AttemptsOK'
    BY <1>6 DEF Failure, AttemptsOK
  <2> QED
    BY <1>2, <1>6, <2>1, CountsType DEF Failure, ObserversOK
<1>7. CASE StartSession(a)
  <2>1. AttemptsOK'
    BY <1>1, <1>7, Moves DEF StartSession, Steps
  <2> QED
    BY <1>2, <1>7, <2>1, CountsType DEF StartSession, ObserversOK
<1>8. CASE Accepted(a)
  <2>1. AttemptsOK'
    BY <1>1, <1>8, Moves DEF Accepted, Steps
  <2> QED
    BY <1>2, <1>8, <2>1, CountsType DEF Accepted, ObserversOK
<1> QED
  BY <1>3, <1>4, <1>5, <1>6, <1>7, <1>8

LEMMA StoredTimes == \A t \in Times : Stored(t) \in Times
  BY StoredTime, Sizes DEF Times

LEMMA AlertTyped ==
    ASSUME Typed, NEW a \in Attempts,
           Record(a) \/ Count(a) \/ Check(a) \/ Remember(a) \/ Alert(a)
    PROVE  Typed'
<1> USE Untouched, FaultType DEF Typed, store, limiters, observers
<1>1. attempt[a].step \in Steps
  BY DEF Record, Count, Check, Remember, Alert, At, Steps
<1>2. attempt[a] \in Active /\ attempt[a].now \in Times /\ attempt[a].overtaken \in BOOLEAN
  BY <1>1, Moves DEF Active
<1>3. CASE Record(a)
  <2>1. [attempt[a] EXCEPT !.step = "count", !.now = clock] \in Active
    BY <1>2 DEF Active, Steps
  <2>2. attempt' = [attempt EXCEPT ![a] = [attempt[a] EXCEPT !.step = "count", !.now = clock]]
    BY <1>2, <1>3 DEF Record, Active, AttemptsOK
  <2>3. AttemptsOK'
    BY <2>1, <2>2 DEF AttemptsOK
  <2>4. fails' \in Seq(Times)
    <3>1. Stored(clock) \in Times
      BY StoredTimes
    <3> QED
      BY <1>3, <3>1, AppendProperties DEF Record, StoreOK
  <2> QED
    BY <1>3, <2>3, <2>4 DEF Record, StoreOK, ObserversOK
<1>4. CASE Count(a) \/ Check(a)
  <2>1. AttemptsOK'
    BY <1>1, <1>4, Moves DEF Count, Check, Steps
  <2> QED
    BY <1>4, <2>1 DEF Count, Check
<1>5. CASE Remember(a)
  <2>1. [attempt[a] EXCEPT !.step = "alert"] \in Active
    BY <1>2 DEF Active, Steps
  <2>2. \A b \in Attempts : At(b, "remember") => [attempt[b] EXCEPT !.overtaken = TRUE] \in Active
    <3>1. \A b \in Attempts : At(b, "remember") => attempt[b] \in Active
      BY Moves DEF At, Steps
    <3> QED
      BY <3>1 DEF Active
  <2>3. AttemptsOK'
    BY <1>5, <2>1, <2>2 DEF Remember, AttemptsOK
  <2>4. StoreOK'
    <3>1. Stored(attempt[a].now) \in Times
      BY <1>2, StoredTimes
    <3> QED
      BY <1>5, <3>1 DEF Remember, StoreOK
  <2> QED
    BY <1>5, <2>3, <2>4 DEF Remember, ObserversOK
<1>6. CASE Alert(a)
  <2>1. AttemptsOK'
    BY <1>1, <1>6, Moves DEF Alert, Steps
  <2>2. [at |-> attempt[a].now, overtaken |-> attempt[a].overtaken] \in [at : Times, overtaken : BOOLEAN]
    BY <1>2
  <2>3. alerts' \in Seq([at : Times, overtaken : BOOLEAN])
    BY <1>6, <2>2, AppendProperties DEF Alert, ObserversOK
  <2> QED
    BY <1>6, <2>1, <2>3 DEF Alert, ObserversOK
<1> QED
  BY <1>3, <1>4, <1>5, <1>6

LEMMA OtherTyped ==
    ASSUME Typed, Crash \/ Advance \/ \E a \in Attempts : LookUp(a) \/ Log(a) \/ Tell(a)
    PROVE  Typed'
<1> USE Untouched, FaultType DEF Typed, store, limiters, observers
<1>1. CASE Crash
  <2>1. AttemptsOK'
    BY <1>1 DEF Crash, AttemptsOK
  <2>2. history' \in [Groups \X Addresses -> Events]
    BY <1>1 DEF Crash, Blank, Events
  <2> QED
    BY <1>1, <2>1, <2>2 DEF Crash, ObserversOK
<1>2. CASE Advance
  BY <1>2, Sizes DEF Advance, Times
<1>3. ASSUME NEW a \in Attempts, LookUp(a) \/ Log(a) \/ Tell(a) PROVE Typed'
  <2>1. attempt[a].step \in Steps
    BY <1>3 DEF LookUp, Log, Tell, At, Steps
  <2>2. attempt[a] \in Active /\ attempt[a].from \in Addresses
    BY <2>1, Moves DEF Active
  <2>3. CASE LookUp(a)
    <3>1. [attempt[a] EXCEPT !.step = "log", !.new = NewAddress(attempt[a].from)] \in Active
      BY <2>2 DEF Active, Steps, NewAddress
    <3>2. attempt' = [attempt EXCEPT ![a] = [attempt[a] EXCEPT !.step = "log", !.new = NewAddress(attempt[a].from)]]
      BY <2>2, <2>3 DEF LookUp, Active, AttemptsOK
    <3>3. AttemptsOK'
      BY <3>1, <3>2 DEF AttemptsOK
    <3> QED
      BY <2>3, <3>3 DEF LookUp
  <2>4. CASE Log(a)
    <3>1. AttemptsOK'
      BY <2>1, <2>4, Moves DEF Log, Steps
    <3>2. known' \subseteq Addresses
      BY <2>2, <2>4 DEF Log, StoreOK
    <3> QED
      BY <2>4, <3>1, <3>2 DEF Log, StoreOK, ObserversOK
  <2>5. CASE Tell(a)
    <3>1. AttemptsOK'
      BY <2>1, <2>5, Moves DEF Tell, Steps
    <3> QED
      BY <2>5, <3>1 DEF Tell
  <2> QED
    BY <1>3, <2>3, <2>4, <2>5
<1> QED
  BY <1>1, <1>2, <1>3

LEMMA TypedStep == ASSUME Typed, Next PROVE Typed'
  BY ArriveTyped, AdmitTyped, FinishTyped, AlertTyped, OtherTyped DEF Next

LEMMA AlwaysTyped == Spec => []Typed
<1>1. Typed /\ UNCHANGED vars => Typed'
  BY Untouched DEF Typed, vars, store, observers
<1>2. Typed /\ [Next]_vars => Typed'
  BY <1>1, TypedStep
<1> QED
  BY InitTyped, <1>2, PTL DEF Spec

-----------------------------------------------------------------------------
(* An attempt in progress is no older than Patience.                         *)

Paced ==
    \A a \in Attempts : attempt[a].step \in Steps =>
        attempt[a].at <= attempt[a].now /\ attempt[a].now <= clock /\ clock <= attempt[a].at + Patience

\* And one that the limiter has still to be asked about is no older than Slip.
Prompt == \A a \in Attempts : attempt[a].step = "allow" => clock <= attempt[a].at + Slip

\* What a step makes of an attempt.
Arrives(b) ==
    /\ attempt[b] = Idle /\ attempt'[b].step = "allow" /\ attempt'[b].at = clock /\ attempt'[b].now = clock
    /\ attempt'[b].kind \in Kinds
GoesOn(b) ==
    /\ attempt[b].step \in Steps /\ attempt'[b].at = attempt[b].at /\ attempt'[b].step # "allow"
    /\ attempt'[b].now = attempt[b].now \/ (attempt'[b].now = clock /\ At(b, "record"))
    /\ attempt'[b].kind = attempt[b].kind /\ attempt'[b].from = attempt[b].from

LEMMA Follow ==
    ASSUME Typed, Next, NEW b \in Attempts
    PROVE  attempt'[b] = Idle \/ attempt'[b] = attempt[b] \/ (Arrives(b) /\ UNCHANGED clock) \/ (GoesOn(b) /\ UNCHANGED clock)
<1>1. attempt[b] \in Active \cup {Idle} /\ (attempt[b].step \in Steps => attempt[b] \in Active)
  BY Moves DEF Typed, AttemptsOK
<1>2. ASSUME NEW a \in Attempts, Arrive(a)
      PROVE  attempt'[b] = attempt[b] \/ (Arrives(b) /\ UNCHANGED clock)
  BY <1>2 DEF Arrive, Arrives, Typed, AttemptsOK
<1>3. ASSUME NEW a \in Attempts, NEW s \in Steps \ {"allow"}, Go(a, s), attempt[a].step \in Steps, UNCHANGED clock
      PROVE  attempt'[b] = attempt[b] \/ (GoesOn(b) /\ UNCHANGED clock)
  BY <1>1, <1>3 DEF Go, GoesOn, Typed, AttemptsOK, Active
<1>4. ASSUME NEW a \in Attempts,
             \/ Serve(a) \/ Rejected(a) \/ Accepted(a) \/ Count(a) \/ Check(a) \/ Alert(a)
             \/ StartSession(a) \/ Log(a) \/ Tell(a)
      PROVE  (\E s \in Steps \ {"allow"} : Go(a, s)) /\ attempt[a].step \in Steps /\ UNCHANGED clock
  BY <1>4 DEF Serve, Rejected, Accepted, Count, Check, Alert, StartSession, Log, Tell, At, Steps
<1>5. ASSUME NEW a \in Attempts, Success(a) \/ Failure(a)
      PROVE  attempt'[b] = attempt[b] \/ attempt'[b] = Idle
  BY <1>5 DEF Success, Failure, Typed, AttemptsOK
<1>6. ASSUME NEW a \in Attempts, Record(a)
      PROVE  attempt'[b] = attempt[b] \/ (GoesOn(b) /\ UNCHANGED clock)
  BY <1>1, <1>6 DEF Record, GoesOn, Typed, AttemptsOK, At, Steps, Active
<1>7. ASSUME NEW a \in Attempts, LookUp(a)
      PROVE  attempt'[b] = attempt[b] \/ (GoesOn(b) /\ UNCHANGED clock)
  BY <1>1, <1>7 DEF LookUp, GoesOn, Typed, AttemptsOK, At, Steps, Active
<1>8. ASSUME NEW a \in Attempts, Remember(a)
      PROVE  attempt'[b] = attempt[b] \/ (GoesOn(b) /\ UNCHANGED clock)
  BY <1>1, <1>8 DEF Remember, GoesOn, At, Steps, Active
<1>9. CASE Crash \/ Advance
  BY <1>9 DEF Crash, Advance
<1>10. ASSUME NEW a \in Attempts, Admit(a)
       PROVE  attempt'[b] = attempt[b] \/ attempt'[b] = Idle \/ (GoesOn(b) /\ UNCHANGED clock)
  <2>1. attempt[a].step \in Steps /\ "serve" \in Steps \ {"allow"} /\ UNCHANGED clock
    BY <1>10, AdmitSteps DEF Steps
  <2>2. CASE Go(a, "serve")
    BY <1>3, <2>1, <2>2
  <2>3. CASE attempt' = [attempt EXCEPT ![a] = Idle]
    BY <2>3 DEF Typed, AttemptsOK
  <2> QED
    BY <1>10, <2>2, <2>3, AdmitSteps
<1> QED
  BY <1>2, <1>3, <1>4, <1>5, <1>6, <1>7, <1>8, <1>9, <1>10 DEF Next

LEMMA WaitFollow ==
    ASSUME Typed, Next, NEW b \in Attempts, attempt[b].step \in {"idle", "allow"},
           ~\E a \in Attempts : Arrive(a) \/ Admit(a)
    PROVE  attempt'[b] = attempt[b] \/ attempt'[b] = Idle
<1>1. CASE Crash \/ Advance
  BY <1>1 DEF Crash, Advance
<1>2. ASSUME NEW a \in Attempts, Remember(a) PROVE attempt'[b] = attempt[b]
  BY <1>2 DEF Remember, At
<1>3. ASSUME NEW a \in Attempts,
             \/ Serve(a) \/ Rejected(a) \/ Accepted(a) \/ Success(a) \/ Failure(a) \/ Record(a) \/ Count(a)
             \/ Check(a) \/ Alert(a) \/ StartSession(a) \/ LookUp(a) \/ Log(a) \/ Tell(a)
      PROVE  attempt'[b] = attempt[b]
  <2>1. a # b
    BY <1>3 DEF Serve, Rejected, Accepted, Success, Failure, Record, Count, Check, Alert,
                StartSession, LookUp, Log, Tell, At
  <2> QED
    BY <1>3, <2>1 DEF Serve, Rejected, Accepted, Success, Failure, Record, Count, Check, Alert,
                StartSession, LookUp, Log, Tell, Go, Typed, AttemptsOK
<1> QED
  BY <1>1, <1>2, <1>3 DEF Next

LEMMA PacedStep == ASSUME Typed, Paced, Next PROVE Paced'
<1> SUFFICES ASSUME NEW b \in Attempts, attempt'[b].step \in Steps
             PROVE  attempt'[b].at <= attempt'[b].now /\ attempt'[b].now <= clock' /\ clock' <= attempt'[b].at + Patience
  BY DEF Paced
<1>1. attempt'[b] # Idle
  BY IdleStep DEF Steps
<1>2. clock \in Nat /\ (attempt[b].step \in Steps => attempt[b].at \in Nat /\ attempt[b].now \in Nat)
  BY Moves DEF Typed, Times, Active
<1>3. CASE Advance
  BY <1>1, <1>2, <1>3, Sizes DEF Advance, Paced
<1>4. CASE ~Advance
  <2>1. UNCHANGED clock
    BY <1>4 DEF Next, Arrive, Admit, Serve, Rejected, Accepted, Success, Failure, Record, Count, Check, Remember, Alert,
                StartSession, LookUp, Log, Tell, Crash
  <2>2. CASE Arrives(b)
    BY <1>2, <2>1, <2>2, Sizes DEF Arrives
  <2>3. CASE GoesOn(b)
    BY <1>2, <2>1, <2>3, Sizes DEF GoesOn, Paced
  <2>4. CASE attempt'[b] = attempt[b]
    BY <1>2, <2>1, <2>4 DEF Paced
  <2> QED
    BY <1>1, <2>2, <2>3, <2>4, Follow
<1> QED
  BY <1>3, <1>4

LEMMA PromptStep == ASSUME Typed, Prompt, Next PROVE Prompt'
<1> SUFFICES ASSUME NEW b \in Attempts, attempt'[b].step = "allow"
             PROVE  clock' <= attempt'[b].at + Slip
  BY DEF Prompt
<1>1. attempt'[b] # Idle /\ "allow" \in Steps /\ clock \in Nat
  BY IdleStep DEF Steps, Typed, Times
<1>2. CASE Advance
  <2>1. attempt[b].step = "allow" /\ clock' = clock + 1 /\ clock < attempt[b].at + Slip /\ attempt' = attempt
    BY <1>2 DEF Advance, At
  <2>2. attempt[b] \in Active
    BY <1>1, <2>1, Moves DEF Typed
  <2>3. attempt[b].at \in Nat
    BY <2>2 DEF Active, Times
  <2> QED
    BY <1>1, <2>1, <2>3, Sizes
<1>3. CASE ~Advance
  <2>1. UNCHANGED clock
    BY <1>3 DEF Next, Arrive, Admit, Serve, Rejected, Accepted, Success, Failure, Record, Count, Check, Remember,
                Alert, StartSession, LookUp, Log, Tell, Crash
  <2>2. CASE Arrives(b)
    BY <1>1, <2>1, <2>2, Sizes DEF Arrives
  <2>3. CASE attempt'[b] = attempt[b]
    BY <2>1, <2>3 DEF Prompt
  <2> QED
    BY <1>1, <2>2, <2>3, Follow DEF GoesOn
<1> QED
  BY <1>2, <1>3

-----------------------------------------------------------------------------
(* The bucket of a key: what it holds, and what was let through since it was *)
(* full.                                                                     *)

Bucket(e) == e \in [credit : 0..Full, taken : Nat, failures : Nat, lockedTil : {e.lockedTil}]

\* How often an instant went back.
Turns(let, i, j) == Cardinality(Backs(let, i, j))

\* What was let through since any of the attempts, that one included, and what
\* is left fit in a full bucket and what was added until the last of them.
MeteredBy(e, let, now) ==
    IF e = NoEntry THEN let = <<>>
    ELSE /\ Bucket(e) /\ e.taken <= now
         /\ let # <<>> => let[Len(let)] = e.taken
         /\ \A i \in DOMAIN let :
               (Len(let) - i + 1) * Refill + e.credit
                   <= Full + (e.taken - let[i]) + Slip * Turns(let, i, Len(let))

\* RateKept of one key.
KeptRate(let) ==
    \A i, j \in DOMAIN let :
        i <= j => (j - i + 1) * Refill <= Full + (let[j] - let[i]) + Slip * Turns(let, i, j)

LEMMA NoBucket == \A e : Bucket(e) => e # NoEntry
  BY DEF Bucket, NoEntry

LEMMA FoundBucket ==
    ASSUME NEW e, NEW let \in Seq(Nat), NEW at \in Nat, NEW now \in Nat, at <= now, MeteredBy(e, let, now)
    PROVE  Bucket(Found(e, at)) /\ MeteredBy(Found(e, at), let, now)
<1>1. CASE e = NoEntry
  <2>1. Bucket(Found(e, at)) /\ Found(e, at).taken = at
    BY <1>1, Sizes DEF Found, Bucket
  <2> QED
    BY <1>1, <2>1, NoBucket DEF MeteredBy
<1>2. CASE e # NoEntry
  BY <1>2 DEF Found, MeteredBy
<1> QED
  BY <1>1, <1>2

LEMMA CreditBound ==
    ASSUME NEW f, Bucket(f), NEW at \in Nat
    PROVE  Credit(f, at) \in 0..Full /\ Credit(f, at) <= f.credit + Most(0, at - f.taken)
  BY Sizes DEF Bucket, Credit, Least, Most

\* One more instant, and how often the instants go back with it.
LEMMA TurnsMore ==
    ASSUME NEW let \in Seq(Nat), NEW at \in Nat, NEW more, more = Append(let, at)
    PROVE  /\ \A i, j \in DOMAIN let : Turns(more, i, j) = Turns(let, i, j) /\ Turns(let, i, j) \in Nat
           /\ Turns(more, Len(let) + 1, Len(let) + 1) = 0
           /\ \A i \in DOMAIN let :
                 Turns(more, i, Len(let) + 1) = Turns(let, i, Len(let)) + (IF at < let[Len(let)] THEN 1 ELSE 0)
<1> DEFINE n == Len(let)
<1>1. /\ DOMAIN let = 1..n /\ n \in Nat /\ more[n + 1] = at
      /\ \A i \in 1..n : more[i] = let[i] /\ let[i] \in Nat
  OBVIOUS
<1> HIDE DEF n
<1>2. \A i, j \in Nat : IsFiniteSet(Backs(let, i, j)) /\ Turns(let, i, j) \in Nat
  <2> SUFFICES ASSUME NEW i \in Nat, NEW j \in Nat PROVE IsFiniteSet(Backs(let, i, j)) /\ Turns(let, i, j) \in Nat
    OBVIOUS
  <2>1. IsFiniteSet(i + 1..j)
    BY FS_Interval
  <2>2. IsFiniteSet(Backs(let, i, j))
    BY <2>1, FS_Subset DEF Backs
  <2> QED
    BY <2>2, FS_CardinalityType DEF Turns
<1>3. ASSUME NEW i \in 1..n, NEW j \in 1..n PROVE Backs(more, i, j) = Backs(let, i, j)
  <2>1. \A m \in i + 1..j : more[m] = let[m] /\ more[m - 1] = let[m - 1]
    BY <1>1
  <2> QED
    BY <2>1 DEF Backs
<1>4. Turns(more, n + 1, n + 1) = 0
  <2>1. Backs(more, n + 1, n + 1) = {}
    BY <1>1 DEF Backs
  <2> QED
    BY <2>1, FS_EmptySet DEF Turns
<1>5. ASSUME NEW i \in 1..n
      PROVE  Turns(more, i, n + 1) = Turns(let, i, n) + (IF at < let[n] THEN 1 ELSE 0)
  <2>1. Backs(more, i, n + 1) = Backs(more, i, n) \cup (IF more[n + 1] < more[n] THEN {n + 1} ELSE {})
    <3>1. i \in Nat /\ n \in Nat /\ i <= n
      BY <1>1
    <3>2. (n + 1) - 1 = n /\ \A m \in Int : m \in (i + 1)..(n + 1) <=> m \in (i + 1)..n \/ m = n + 1
      BY <3>1
    <3>3. n + 1 \in Int /\ \A m : m \in (i + 1)..(n + 1) \/ m \in (i + 1)..n => m \in Int
      BY <3>1
    <3> QED
      BY <3>2, <3>3 DEF Backs
  <2>2. Backs(more, i, n) = Backs(let, i, n) /\ more[n] = let[n] /\ n + 1 \notin Backs(let, i, n)
    <3>1. n \in 1..n
      BY <1>1
    <3>2. n + 1 \notin i + 1..n
      BY <1>1
    <3> QED
      BY <1>1, <1>3, <3>1, <3>2 DEF Backs
  <2>3. IsFiniteSet(Backs(let, i, n)) /\ Turns(let, i, n) \in Nat
    <3>1. i \in Nat /\ n \in Nat
      BY <1>1
    <3> QED
      BY <1>2, <3>1
  <2>4. CASE at < let[n]
    <3>1. Backs(more, i, n + 1) = Backs(let, i, n) \cup {n + 1}
      BY <1>1, <2>1, <2>2, <2>4
    <3>2. Cardinality(Backs(let, i, n) \cup {n + 1}) = Cardinality(Backs(let, i, n)) + 1
      BY <2>2, <2>3, FS_AddElement
    <3> QED
      BY <2>4, <3>1, <3>2 DEF Turns
  <2>5. CASE ~(at < let[n])
    <3>1. Backs(more, i, n + 1) = Backs(let, i, n)
      BY <1>1, <2>1, <2>2, <2>5
    <3> QED
      BY <2>3, <2>5, <3>1 DEF Turns
  <2> QED
    BY <2>4, <2>5
<1>6. ASSUME NEW i \in 1..n, NEW j \in 1..n
      PROVE  Turns(more, i, j) = Turns(let, i, j) /\ Turns(let, i, j) \in Nat
  <2>1. i \in Nat /\ j \in Nat
    BY <1>1
  <2> QED
    BY <1>2, <1>3, <2>1 DEF Turns
<1> QED
  BY <1>1, <1>4, <1>5, <1>6 DEF n

\* The arithmetic of a token: m are those let through since `from`, c is what
\* was left at `taken`, d what is there at `now`, s and t how often the instants
\* went back until then.
LEMMA OneToken ==
    ASSUME NEW m \in Int, NEW from \in Int, NEW taken \in Int, NEW now \in Int,
           NEW c \in Int, NEW d \in Int, NEW s \in Nat, NEW t \in Nat,
           m * Refill + c <= Full + (taken - from) + Slip * s,
           d <= c + Most(0, now - taken), taken <= now + Slip,
           t = s + (IF now < taken THEN 1 ELSE 0)
    PROVE  (m + 1) * Refill + (d - Refill) <= Full + (now - from) + Slip * t
<1>1. m * Refill \in Int /\ (m + 1) * Refill = m * Refill + Refill
  BY Sizes
<1>2. Slip * s \in Int /\ Slip * (s + 1) = Slip * s + Slip
  BY Sizes
<1> DEFINE p == m * Refill
           q == (m + 1) * Refill
           x == Slip * s
           y == Slip * t
<1>3. p \in Int /\ q = p + Refill /\ p + c <= Full + (taken - from) + x /\ x \in Int
  BY <1>1, <1>2
<1>4. y = x + (IF now < taken THEN Slip ELSE 0)
  <2>1. CASE now < taken
    <3>1. t = s + 1
      BY <2>1
    <3> QED
      BY <1>2, <2>1, <3>1
  <2>2. CASE ~(now < taken)
    <3>1. t = s
      BY <2>2
    <3> QED
      BY <1>2, <2>2, <3>1
  <2> QED
    BY <2>1, <2>2
<1> HIDE DEF p, q, x, y
<1>5. q + (d - Refill) <= Full + (now - from) + y
  <2>1. CASE now < taken
    <3>1. d <= c /\ y = x + Slip
      BY <1>4, <2>1 DEF Most
    <3> QED
      BY <1>3, <3>1, Sizes
  <2>2. CASE ~(now < taken)
    <3>1. d <= c + (now - taken) /\ y = x
      BY <1>3, <1>4, <2>2 DEF Most
    <3> QED
      BY <1>3, <3>1, Sizes
  <2> QED
    BY <2>1, <2>2
<1> QED
  BY <1>5 DEF q, y

\* An attempt that is let through takes a token of what is there.
LEMMA MeterAllowed ==
    ASSUME NEW e, NEW let \in Seq(Nat), NEW at \in Nat, NEW now \in Nat, at <= now, now <= at + Slip,
           MeteredBy(e, let, now), KeptRate(let), Allowed(e, at)
    PROVE  MeteredBy(AfterAllow(e, at), Append(let, at), now) /\ KeptRate(Append(let, at))
<1> DEFINE f == Found(e, at)
           g == [f EXCEPT !.credit = Credit(f, at) - Refill, !.taken = at]
           more == Append(let, at)
<1>1. Bucket(f) /\ f # NoEntry /\ f.taken <= now /\ (let # <<>> => let[Len(let)] = f.taken)
  BY FoundBucket, NoBucket DEF MeteredBy
<1>2. \A i \in DOMAIN let :
         (Len(let) - i + 1) * Refill + f.credit <= Full + (f.taken - let[i]) + Slip * Turns(let, i, Len(let))
  BY <1>1, FoundBucket DEF MeteredBy
<1>3. AfterAllow(e, at) = g /\ Credit(f, at) >= Refill
  BY DEF AfterAllow, Allowed
<1> HIDE DEF f
<1>4. Credit(f, at) \in 0..Full /\ Credit(f, at) <= f.credit + Most(0, at - f.taken)
  BY <1>1, CreditBound
<1>5. f.credit \in 0..Full /\ f.taken \in Nat /\ f.taken <= at + Slip
  <2>1. f.credit \in 0..Full /\ f.taken \in Nat
    BY <1>1 DEF Bucket
  <2> QED
    BY <1>1, <2>1, Sizes
<1>6. /\ g.taken = at /\ g.credit = Credit(f, at) - Refill /\ g.lockedTil = f.lockedTil
      /\ g \in [credit : {Credit(f, at) - Refill}, taken : {at}, failures : Nat, lockedTil : {f.lockedTil}]
  BY <1>1 DEF Bucket
<1> DEFINE c == Credit(f, at)
           d == g.credit
<1>7. c \in 0..Full /\ c >= Refill /\ d = c - Refill /\ c <= f.credit + Most(0, at - f.taken)
  BY <1>3, <1>4, <1>6
<1>8. d \in 0..Full /\ d + Refill <= Full
  <2> HIDE DEF c, d
  <2> QED
    BY <1>7, Sizes
<1>9. Bucket(g) /\ g # NoEntry
  <2>1. Bucket(g)
    BY <1>6, <1>8 DEF Bucket
  <2> QED
    BY <2>1, NoBucket
<1> HIDE DEF g, c
<1>10. /\ more \in Seq(Nat) /\ Len(more) = Len(let) + 1 /\ Len(let) \in Nat
       /\ DOMAIN more = DOMAIN let \cup {Len(let) + 1} /\ more[Len(let) + 1] = at
       /\ \A i \in DOMAIN let : more[i] = let[i] /\ let[i] \in Nat /\ i \in 1..Len(let)
  OBVIOUS
<1> DEFINE n == Len(let) + 1
<1>15. \A i \in DOMAIN let : i \in Int /\ let[i] \in Int /\ Len(let) \in Int
  BY <1>10
<1>16. \A i \in DOMAIN let : n - i + 1 \in Int /\ n - i + 1 = (Len(let) - i + 1) + 1 /\ Len(let) - i + 1 \in Int
  BY <1>15
<1>11. /\ \A i, j \in DOMAIN let : Turns(more, i, j) = Turns(let, i, j)
       /\ Turns(more, n, n) = 0
       /\ \A i \in DOMAIN let :
             /\ Turns(more, i, n) = Turns(let, i, Len(let)) + (IF at < f.taken THEN 1 ELSE 0)
             /\ Turns(more, i, n) \in Nat /\ Turns(let, i, Len(let)) \in Nat
  <2>1. \A i \in DOMAIN let : Len(let) \in DOMAIN let /\ let[Len(let)] = f.taken
    <3>1. \A i \in DOMAIN let : let # <<>> /\ Len(let) \in DOMAIN let
      OBVIOUS
    <3> QED
      BY <1>1, <3>1
  <2>2. /\ \A i, j \in DOMAIN let : Turns(more, i, j) = Turns(let, i, j) /\ Turns(let, i, j) \in Nat
        /\ Turns(more, n, n) = 0
        /\ \A i \in DOMAIN let :
              Turns(more, i, n) = Turns(let, i, Len(let)) + (IF at < let[Len(let)] THEN 1 ELSE 0)
    BY TurnsMore
  <2> HIDE DEF n, more
  <2> QED
    BY <2>1, <2>2
<1> HIDE DEF more
<1>12. \A i \in DOMAIN more :
          more[i] \in Nat /\ (n - i + 1) * Refill + d <= Full + (at - more[i]) + Slip * Turns(more, i, n)
  <2>1. ASSUME NEW i \in DOMAIN let
        PROVE  (n - i + 1) * Refill + d <= Full + (at - let[i]) + Slip * Turns(more, i, n)
    <3> DEFINE m == Len(let) - i + 1
               s == Turns(let, i, Len(let))
               t == Turns(more, i, n)
    <3>1. m \in Int /\ n - i + 1 = m + 1 /\ let[i] \in Int
      BY <1>15, <1>16
    <3>2. m * Refill + f.credit <= Full + (f.taken - let[i]) + Slip * s
      BY <1>2
    <3>3. s \in Nat /\ t \in Nat /\ t = s + (IF at < f.taken THEN 1 ELSE 0)
      BY <1>11
    <3>4. c \in Int /\ f.credit \in Int /\ f.taken \in Int /\ at \in Int
      BY <1>5, <1>7, Sizes
    <3> HIDE DEF m, n, s, t
    <3>5. (m + 1) * Refill + (c - Refill) <= Full + (at - let[i]) + Slip * t
      BY <1>5, <1>7, <3>1, <3>2, <3>3, <3>4, OneToken
    <3> QED
      BY <1>7, <3>1, <3>5 DEF t
  <2>2. (n - n + 1) * Refill + d <= Full + (at - at) + Slip * Turns(more, n, n)
    <3>1. n - n + 1 = 1 /\ 1 * Refill = Refill
      BY <1>10, Sizes
    <3>2. at - at = 0 /\ Slip * Turns(more, n, n) = 0
      BY <1>11, Sizes
    <3> HIDE DEF n, d
    <3> QED
      BY <1>8, <3>1, <3>2, Sizes
  <2>3. \A i \in DOMAIN more : i \in DOMAIN let \/ (i = n /\ more[i] = at)
    BY <1>10
  <2>4. \A i \in DOMAIN let : more[i] = let[i] /\ more[i] \in Nat
    BY <1>10
  <2> HIDE DEF n, d
  <2> QED
    BY <2>1, <2>2, <2>3, <2>4
<1>13. MeteredBy(g, more, now)
  <2>1. Len(more) = n /\ more[Len(more)] = g.taken /\ g.taken <= now
    BY <1>6, <1>10
  <2> HIDE DEF n
  <2> QED
    BY <1>6, <1>9, <1>12, <2>1 DEF MeteredBy
<1>14. KeptRate(more)
  <2> SUFFICES ASSUME NEW i \in DOMAIN more, NEW j \in DOMAIN more, i <= j
               PROVE  (j - i + 1) * Refill <= Full + (more[j] - more[i]) + Slip * Turns(more, i, j)
    BY DEF KeptRate
  <2>1. CASE j \in DOMAIN let
    <3>1. i \in DOMAIN let
      BY <1>10, <2>1
    <3>2. Turns(more, i, j) = Turns(let, i, j) /\ more[i] = let[i] /\ more[j] = let[j]
      BY <1>10, <1>11, <2>1, <3>1
    <3> QED
      BY <2>1, <3>1, <3>2 DEF KeptRate
  <2>2. CASE j = n
    <3>1. (n - i + 1) * Refill \in Int /\ more[i] \in Nat
      <4>1. n - i + 1 \in Int
        <5>1. i \in DOMAIN let \/ i = n
          BY <1>10
        <5>2. n - n + 1 \in Int
          BY <1>10
        <5> QED
          BY <1>16, <5>1, <5>2
      <4>2. \A k \in Int : k * Refill \in Int
        BY Sizes
      <4> QED
        BY <1>12, <4>1, <4>2
    <3>2. (n - i + 1) * Refill + d <= Full + (at - more[i]) + Slip * Turns(more, i, n) /\ more[j] = at
      BY <1>10, <1>12, <2>2
    <3>3. Slip * Turns(more, i, n) \in Int
      <4>1. i \in DOMAIN let \/ i = n
        BY <1>10
      <4>2. Turns(more, i, n) \in Nat
        BY <1>11, <4>1
      <4>3. \A k \in Nat : Slip * k \in Int
        BY Sizes
      <4> QED
        BY <4>2, <4>3
    <3> DEFINE p == (n - i + 1) * Refill
               x == Slip * Turns(more, i, n)
    <3>4. p + d <= Full + (at - more[i]) + x /\ p \in Int /\ x \in Int
      BY <3>1, <3>2, <3>3
    <3> HIDE DEF p, n, d, x
    <3>5. p <= Full + (at - more[i]) + x
      BY <1>8, <3>1, <3>4, Sizes
    <3> QED
      BY <2>2, <3>2, <3>5 DEF p, x
  <2> QED
    BY <1>10, <2>1, <2>2
<1> QED
  BY <1>3, <1>13, <1>14 DEF more

\* Failures and lockouts leave the bucket alone, and so does time.
LEMMA MeterFailure ==
    ASSUME NEW e, NEW let \in Seq(Nat), NEW now \in Nat, NEW at \in Nat, at <= now, MeteredBy(e, let, now)
    PROVE  MeteredBy(AfterFailure(e, at), let, now)
<1> DEFINE f == Found(e, at)
           g == AfterFailure(e, at)
<1>1. Bucket(f) /\ f.taken <= now
  <2>1. CASE e = NoEntry
    BY <2>1, Sizes DEF Found, Bucket
  <2>2. CASE e # NoEntry
    BY <2>2 DEF Found, MeteredBy
  <2> QED
    BY <2>1, <2>2
<1>2. /\ let # <<>> => let[Len(let)] = f.taken
      /\ \A i \in DOMAIN let :
            (Len(let) - i + 1) * Refill + f.credit <= Full + (f.taken - let[i]) + Slip * Turns(let, i, Len(let))
  BY DEF MeteredBy, Found
<1>3. g = [f EXCEPT !.failures = f.failures + 1, !.lockedTil = at + Lockout(f.failures + 1)]
  BY DEF AfterFailure
<1> HIDE DEF f, g
<1>4. f.failures + 1 \in Nat
  BY <1>1 DEF Bucket
<1>5. g.credit = f.credit /\ g.taken = f.taken /\ g.lockedTil = at + Lockout(f.failures + 1)
  BY <1>1, <1>3 DEF Bucket
<1>6. Bucket(g)
  BY <1>1, <1>3, <1>4, <1>5 DEF Bucket
<1> QED
  BY <1>1, <1>2, <1>5, <1>6, NoBucket DEF MeteredBy, g

LEMMA MeterLater ==
    ASSUME NEW e, NEW let, NEW now \in Nat, NEW later \in Nat, now <= later, MeteredBy(e, let, now)
    PROVE  MeteredBy(e, let, later)
  BY DEF MeteredBy, Bucket

\* What is refused takes nothing.
LEMMA MeterRefused ==
    ASSUME NEW e, NEW let \in Seq(Nat), NEW at \in Nat, NEW now \in Nat, at <= now,
           MeteredBy(e, let, now), ~Allowed(e, at)
    PROVE  MeteredBy(AfterAllow(e, at), let, now)
  BY FoundBucket DEF AfterAllow

LEMMA MeterBlank == \A now : MeteredBy(NoEntry, <<>>, now) /\ KeptRate(<<>>)
  BY DEF MeteredBy, KeptRate

-----------------------------------------------------------------------------
(* The bucket of every address agrees with what was let through.            *)

LimiterOf(k) == IF k[1] = "stepup" THEN stepup[k[2]] ELSE login[k[2]]
Keyed == login = [k \in Addresses |-> login[k]] /\ stepup = [k \in Addresses |-> stepup[k]]
Metered == \A k \in Groups \X Addresses : MeteredBy(LimiterOf(k), history[k].let, clock) /\ KeptRate(history[k].let)
MeterInv == Typed /\ Paced /\ Prompt /\ Keyed /\ Metered

\* A limiter is asked or told about one key.
LEMMA OneKey ==
    ASSUME Typed, Keyed, NEW kind \in AllKinds, NEW from \in Addresses, NEW entry,
           SetLimiter(kind, from, entry)
    PROVE  LET key == <<Group(kind), from>>
           IN  /\ Keyed' /\ key \in Groups \X Addresses /\ Limiter(kind)[from] = LimiterOf(key)
               /\ LimiterOf(key)' = entry
               /\ \A k \in Groups \X Addresses : k # key => LimiterOf(k)' = LimiterOf(k)
               /\ \A h : See(kind, from, h) =>
                     /\ history'[key] = h
                     /\ \A k \in Groups \X Addresses : k # key => history'[k] = history[k]
<1> DEFINE key == <<Group(kind), from>>
<1>1. Keyed'
  BY DEF Keyed, SetLimiter
<1>2. key \in Groups \X Addresses /\ key[1] = Group(kind) /\ key[2] = from
  BY DEF Group, Groups
<1>3. Limiter(kind)[from] = LimiterOf(key)
  BY DEF Limiter, LimiterOf, Group
<1>4. LimiterOf(key)' = entry
  BY DEF LimiterOf, Group, SetLimiter, Keyed
<1>5. ASSUME NEW k \in Groups \X Addresses, k # key
      PROVE  LimiterOf(k)' = LimiterOf(k)
  <2>1. k[1] \in Groups /\ k[2] \in Addresses /\ k = <<k[1], k[2]>>
    OBVIOUS
  <2>2. k[1] # Group(kind) \/ k[2] # from
    BY <1>5, <2>1
  <2> QED
    BY <2>1, <2>2 DEF LimiterOf, Group, Groups, SetLimiter, Keyed
<1>6. ASSUME NEW h, See(kind, from, h)
      PROVE  history'[key] = h /\ \A k \in Groups \X Addresses : k # key => history'[k] = history[k]
  BY <1>2, <1>6 DEF See, Typed, ObserversOK
<1> QED
  BY <1>1, <1>2, <1>3, <1>4, <1>5, <1>6

\* So it is enough to look at that key.
LEMMA MeterKey ==
    ASSUME MeterInv, NEW kind \in AllKinds, NEW from \in Addresses, NEW entry, NEW h,
           SetLimiter(kind, from, entry), See(kind, from, h) \/ (UNCHANGED history /\ h = Seen(kind, from)),
           UNCHANGED clock, MeteredBy(entry, h.let, clock), KeptRate(h.let)
    PROVE  Keyed' /\ Metered'
<1> DEFINE key == <<Group(kind), from>>
<1>1. Keyed' /\ LimiterOf(key)' = entry /\ \A k \in Groups \X Addresses : k # key => LimiterOf(k)' = LimiterOf(k)
  BY OneKey DEF MeterInv
<1>2. history'[key] = h /\ \A k \in Groups \X Addresses : k # key => history'[k] = history[k]
  BY OneKey DEF MeterInv, Seen
<1> QED
  BY <1>1, <1>2 DEF MeterInv, Metered

LEMMA MeterUntouched ==
    ASSUME MeterInv, UNCHANGED <<limiters, history, clock>>
    PROVE  Keyed' /\ Metered'
  BY DEF MeterInv, Keyed, Metered, LimiterOf, limiters

\* What is known of the key of an attempt.
LEMMA KeyOf ==
    ASSUME MeterInv, NEW kind \in AllKinds, NEW from \in Addresses
    PROVE  /\ clock \in Nat /\ Seen(kind, from) \in Events /\ Seen(kind, from).let \in Seq(Nat)
           /\ MeteredBy(Limiter(kind)[from], Seen(kind, from).let, clock) /\ KeptRate(Seen(kind, from).let)
<1>1. Typed /\ Times \subseteq Nat
  BY DEF MeterInv, Times
<1>2. Seen(kind, from) \in Events /\ clock \in Nat
  <2>1. Seen(kind, from) \in Events
    BY <1>1, SeenType
  <2> QED
    BY <1>1, <2>1 DEF Typed
<1>3. \A l \in Seq(Times) : l \in Seq(Nat)
  BY <1>1, SeqMonotonic
<1>4. LET key == <<Group(kind), from>> IN key \in Groups \X Addresses /\ Limiter(kind)[from] = LimiterOf(key)
  BY DEF Group, Groups, Limiter, LimiterOf
<1> QED
  BY <1>2, <1>3, <1>4 DEF Events, MeterInv, Metered, Seen

\* What is known of an attempt that the limiter is asked about.
LEMMA Asked ==
    ASSUME Typed, Paced, Prompt, NEW a \in Attempts, Admit(a)
    PROVE  /\ attempt[a] \in Active /\ attempt[a].kind \in AllKinds /\ attempt[a].from \in Addresses
           /\ attempt[a].at \in Nat /\ clock \in Nat /\ attempt[a].at <= clock /\ clock <= attempt[a].at + Slip
<1>1. attempt[a].step = "allow" /\ "allow" \in Steps
  BY AdmitSteps DEF Steps
<1>2. attempt[a] \in Active
  BY <1>1, Moves DEF Typed
<1>3. attempt[a].at \in Nat /\ attempt[a].now \in Nat /\ clock \in Nat
  BY <1>2 DEF Active, Times, Typed
<1> QED
  <2>1. attempt[a].at <= clock /\ clock <= attempt[a].at + Slip
    BY <1>1, <1>3, Sizes DEF Paced, Prompt
  <2>2. attempt[a].kind \in AllKinds /\ attempt[a].from \in Addresses
    BY <1>2, Sizes DEF Active
  <2> QED
    BY <1>2, <1>3, <2>1, <2>2

LEMMA MeterAdmit == ASSUME MeterInv, NEW a \in Attempts, Admit(a) PROVE Keyed' /\ Metered'
<1> DEFINE kind == attempt[a].kind
           from == attempt[a].from
           at == attempt[a].at
           e == Limiter(kind)[from]
           let == Seen(kind, from).let
<1>1. kind \in AllKinds /\ from \in Addresses /\ UNCHANGED clock
      /\ at \in Nat /\ clock \in Nat /\ at <= clock /\ clock <= at + Slip
  BY Asked, AdmitSteps DEF MeterInv
<1>2. SetLimiter(kind, from, AfterAllow(e, at))
  BY AdmitSteps
<1>3. Seen(kind, from) \in Events /\ let \in Seq(Nat) /\ MeteredBy(e, let, clock) /\ KeptRate(let)
  BY <1>1, KeyOf
<1>4. CASE LetThrough(a)
  <2>1. Allowed(e, at) /\ See(kind, from, WithLet(a))
    BY <1>4, AdmitSteps DEF LetThrough
  <2>2. WithLet(a).let = Append(let, at)
    BY <1>3 DEF WithLet, Events
  <2> HIDE DEF kind, from, at, e, let
  <2>3. MeteredBy(AfterAllow(e, at), Append(let, at), clock) /\ KeptRate(Append(let, at))
    BY <1>1, <1>3, <2>1, MeterAllowed
  <2>4. MeteredBy(AfterAllow(e, at), WithLet(a).let, clock) /\ KeptRate(WithLet(a).let)
    BY <2>2, <2>3
  <2> QED
    BY <1>1, <1>2, <2>1, <2>4, MeterKey
<1>5. CASE ~LetThrough(a)
  <2>1. ~Allowed(e, at) /\ UNCHANGED history
    BY <1>5, AdmitSteps DEF LetThrough
  <2>2. MeteredBy(AfterAllow(e, at), let, clock) /\ KeptRate(let)
    BY <1>1, <1>3, <2>1, MeterRefused
  <2> HIDE DEF kind, from, at, e
  <2> QED
    BY <1>1, <1>2, <2>1, <2>2, MeterKey
<1> QED
  BY <1>4, <1>5

LEMMA MeterCount ==
    ASSUME MeterInv, NEW a \in Attempts, attempt[a].step \in Steps, UNCHANGED clock,
           \/ CountSuccess(attempt[a])
           \/ \E now \in {clock, attempt[a].at} : CountFailure(attempt[a], now)
    PROVE  Keyed' /\ Metered'
<1> DEFINE kind == attempt[a].kind
           from == attempt[a].from
           e == Limiter(kind)[from]
<1>1. attempt[a] \in Active
  BY Moves DEF MeterInv, Typed
<1>2. kind \in AllKinds /\ from \in Addresses /\ attempt[a].at \in Nat /\ attempt[a].now \in Nat
  BY <1>1, Sizes DEF Active, Times
<1>3. clock \in Nat /\ attempt[a].at <= clock
  BY <1>2, KeyOf DEF MeterInv, Paced
<1> HIDE DEF kind, from
<1>4. CASE CountSuccess(attempt[a])
  <2>1. SetLimiter(kind, from, NoEntry) /\ See(kind, from, Blank)
    BY <1>4 DEF CountSuccess, AfterSuccess, kind, from
  <2>2. Blank.let = <<>>
    BY DEF Blank
  <2>3. MeteredBy(NoEntry, Blank.let, clock) /\ KeptRate(Blank.let)
    BY <2>2, MeterBlank
  <2> QED
    BY <1>2, <2>1, <2>3, MeterKey
<1>5. CASE \E now \in {clock, attempt[a].at} : CountFailure(attempt[a], now)
  <2>1. PICK now \in {clock, attempt[a].at} : CountFailure(attempt[a], now)
    BY <1>5
  <2> DEFINE h == [Seen(kind, from) EXCEPT !.failed =
                      Append(@, [at |-> now, arrived |-> attempt[a].at, recorded |-> clock])]
  <2>2. SetLimiter(kind, from, AfterFailure(e, now)) /\ See(kind, from, h)
    BY <2>1 DEF CountFailure, kind, from
  <2>3. Seen(kind, from) \in Events
    BY <1>2, KeyOf
  <2>4. h.let = Seen(kind, from).let
    BY <2>3 DEF Events
  <2>5. MeteredBy(AfterFailure(e, now), h.let, clock) /\ KeptRate(h.let)
    BY <1>2, <1>3, <2>4, KeyOf, MeterFailure
  <2> QED
    BY <1>2, <2>2, <2>5, MeterKey
<1> QED
  BY <1>4, <1>5

LEMMA MeterStep == ASSUME MeterInv, Next PROVE MeterInv'
<1>1. Typed' /\ Paced' /\ Prompt'
  BY TypedStep, PacedStep, PromptStep DEF MeterInv
<1>2. ASSUME NEW a \in Attempts, Rejected(a) \/ Accepted(a) \/ Success(a) \/ Failure(a) \/ StartSession(a)
      PROVE  Keyed' /\ Metered'
  <2>1. attempt[a].step \in Steps /\ UNCHANGED clock
    BY <1>2 DEF Rejected, Accepted, Success, Failure, StartSession, At, Steps
  <2>2. \/ CountSuccess(attempt[a])
        \/ \E now \in {clock, attempt[a].at} : CountFailure(attempt[a], now)
        \/ UNCHANGED <<limiters, history>>
    BY <1>2 DEF Rejected, Accepted, Success, Failure, StartSession
  <2> QED
    BY <2>1, <2>2, MeterCount, MeterUntouched
<1>3. ASSUME NEW a \in Attempts,
             \/ Arrive(a) \/ Serve(a) \/ Record(a) \/ Count(a) \/ Check(a) \/ Remember(a) \/ Alert(a)
             \/ LookUp(a) \/ Log(a) \/ Tell(a)
      PROVE  Keyed' /\ Metered'
  <2>1. UNCHANGED <<limiters, history, clock>>
    BY <1>3 DEF Arrive, Serve, Record, Count, Check, Remember, Alert, LookUp, Log, Tell, observers
  <2> QED
    BY <2>1, MeterUntouched
<1>4. ASSUME Crash PROVE Keyed' /\ Metered'
  <2>1. Keyed' /\ \A k \in Groups \X Addresses : LimiterOf(k)' = NoEntry /\ history'[k].let = <<>>
    BY <1>4 DEF Crash, Keyed, LimiterOf, Blank
  <2>2. MeteredBy(NoEntry, <<>>, clock') /\ KeptRate(<<>>)
    BY MeterBlank
  <2>3. \A k \in Groups \X Addresses : MeteredBy(LimiterOf(k)', history'[k].let, clock') /\ KeptRate(history'[k].let)
    BY <2>1, <2>2
  <2> QED
    BY <2>1, <2>3 DEF Metered
<1>5. ASSUME Advance PROVE Keyed' /\ Metered'
  <2>1. clock \in Nat /\ clock' \in Nat /\ clock <= clock' /\ UNCHANGED <<limiters, history>>
    BY <1>1, <1>5 DEF Advance, MeterInv, Typed, Times, observers
  <2>2. Keyed' /\ \A k \in Groups \X Addresses : LimiterOf(k)' = LimiterOf(k) /\ history'[k] = history[k]
    BY <2>1 DEF MeterInv, Keyed, LimiterOf, limiters
  <2>3. \A k \in Groups \X Addresses :
           MeteredBy(LimiterOf(k), history[k].let, clock') /\ KeptRate(history[k].let)
    BY <2>1, MeterLater DEF MeterInv, Metered
  <2> QED
    BY <2>2, <2>3 DEF Metered
<1>6. Keyed' /\ Metered'
  BY <1>2, <1>3, <1>4, <1>5, MeterAdmit DEF Next
<1> QED
  BY <1>1, <1>6 DEF MeterInv

LEMMA MeterInit == Init => MeterInv
<1> SUFFICES ASSUME Init PROVE MeterInv
  OBVIOUS
<1>1. Paced
  BY IdleStep DEF Init, Paced, Steps
<1>3. Prompt
  BY IdleStep DEF Init, Prompt
<1>2. Keyed /\ \A k \in Groups \X Addresses : LimiterOf(k) = NoEntry /\ history[k].let = <<>>
  BY DEF Init, Keyed, LimiterOf, Blank
<1> QED
  BY <1>1, <1>2, <1>3, InitTyped, MeterBlank DEF MeterInv, Metered

LEMMA AlwaysMetered == Spec => []MeterInv
<1>1. MeterInv /\ UNCHANGED vars => MeterInv'
  <2> SUFFICES ASSUME MeterInv, UNCHANGED vars PROVE MeterInv'
    OBVIOUS
  <2>1. Keyed' /\ Metered'
    BY MeterUntouched DEF vars, observers
  <2> QED
    BY <2>1, Untouched DEF MeterInv, Typed, Paced, Prompt, vars, store, observers
<1>2. MeterInv /\ [Next]_vars => MeterInv'
  BY <1>1, MeterStep
<1> QED
  BY MeterInit, <1>2, PTL DEF Spec

\* Until one of them succeeds, the attempts let through from an address in any
\* stretch of time are those of a full bucket and of what that time adds: no
\* order of failures, lockouts and requests in progress gives more (Allow and
\* Failure of internal/auth/ratelimit.go).
THEOREM RatesAreKept == Spec => []RateKept
<1>1. MeterInv => RateKept
  <2> SUFFICES ASSUME MeterInv PROVE RateKept
    OBVIOUS
  <2>1. DOMAIN history = Groups \X Addresses
    BY DEF MeterInv, Typed, ObserversOK
  <2> QED
    BY <2>1 DEF MeterInv, Metered, RateKept, KeptRate, Turns
<1> QED
  BY <1>1, AlwaysMetered, PTL

-----------------------------------------------------------------------------
(* The owner is told once, and is told: what holds as long as nothing broke. *)

\* The attempts about to tell, and the instants for which the owner was told or
\* is about to be.
Pending == {a \in Attempts : At(a, "alert")}
Told == {alerts[i].at : i \in DOMAIN alerts} \cup {attempt[a].now : a \in Pending}

\* An alert is a window after another, or one of the two was overtaken.
WellAfter(x, y) == x.overtaken \/ y.overtaken \/ y.at - x.at > Window - Patience - Second
AsAlert(a) == [at |-> attempt[a].now, overtaken |-> attempt[a].overtaken]

\* The key is never much older than an alert; an attempt about to set it knows
\* of every alert or has been overtaken.
KeyRecent == \A x \in Told : notifiedAt # None /\ notifiedAt > x - Patience - Second /\ x <= clock
KeyTold == notifiedAt # None => \E x \in Told : notifiedAt = Stored(x)
RememberApart ==
    \A b \in Attempts : At(b, "remember") =>
        \A x \in Told : /\ attempt[b].now >= x - Patience
                        /\ attempt[b].overtaken \/ attempt[b].now > x + Window - Patience - Second
PendingApart == \A a, b \in Pending : a # b => attempt[a].overtaken \/ attempt[b].overtaken
AlertsApart == \A i \in DOMAIN alerts, a \in Pending : WellAfter(alerts[i], AsAlert(a))
InOrder == \A i, j \in DOMAIN alerts : i < j => WellAfter(alerts[i], alerts[j])

\* Every burst has its alert or an attempt that is going to see to it.
BurstAt(i) == Cardinality({j \in 1..i : fails[j] >= fails[i] - Window}) >= Threshold
Covered(i) == \E x \in Told : x < fails[i] + Second + Patience /\ fails[i] - x < Window
SeenTo(i) ==
    \E a \in Attempts : attempt[a].step \in {"count", "check", "remember"} /\ Stored(attempt[a].now) = fails[i]
Followed == \A i \in DOMAIN fails : BurstAt(i) => Covered(i) \/ SeenTo(i)

ToldApart == KeyRecent /\ KeyTold /\ RememberApart /\ PendingApart /\ AlertsApart /\ InOrder
TellInv == Typed /\ Paced /\ (faults = 0 => ToldApart /\ Followed)

LEMMA InSeq ==
    ASSUME NEW S, NEW s \in Seq(S)
    PROVE  DOMAIN s = 1..Len(s) /\ Len(s) \in Nat /\ \A i \in DOMAIN s : s[i] \in S /\ i \in Nat
  OBVIOUS

LEMMA LastOfSeq == ASSUME NEW S, NEW s \in Seq(S), s # <<>> PROVE s[Len(s)] \in S
  OBVIOUS

\* The instants are times, those of attempts in progress close to the clock.
LEMMA TellTimes ==
    ASSUME Typed, Paced
    PROVE  /\ clock \in Nat /\ Told \subseteq Times /\ (notifiedAt # None => notifiedAt \in Nat)
           /\ \A a \in Attempts : attempt[a].step \in Steps =>
                 attempt[a].now \in Nat /\ attempt[a].now <= clock /\ clock <= attempt[a].now + Patience
           /\ \A i \in DOMAIN alerts : alerts[i].at \in Nat
<1>1. Times \subseteq Nat
  BY DEF Times
<1>2. ASSUME NEW a \in Attempts, attempt[a].step \in Steps
      PROVE  attempt[a].now \in Times /\ attempt[a].now <= clock /\ clock <= attempt[a].now + Patience
  <2>1. attempt[a] \in Active
    BY <1>2, Moves DEF Typed
  <2>2. attempt[a].at \in Nat /\ attempt[a].now \in Times /\ clock \in Nat /\ attempt[a].now \in Nat
    BY <1>1, <2>1 DEF Active, Typed
  <2> QED
    BY <1>2, <2>2, Sizes DEF Paced
<1>3. \A i \in DOMAIN alerts : alerts[i].at \in Times
  <2>1. alerts \in Seq([at : Times, overtaken : BOOLEAN])
    BY DEF Typed, ObserversOK
  <2>2. \A i \in DOMAIN alerts : alerts[i] \in [at : Times, overtaken : BOOLEAN]
    BY <2>1, InSeq
  <2> QED
    BY <2>2
<1>4. Told \subseteq Times
  BY <1>2, <1>3 DEF Told, Pending, At, Steps
<1> QED
  BY <1>1, <1>2, <1>3, <1>4 DEF Typed, StoreOK

\* Nothing breaks: the steps that matter, and the others.
Calm ==
    /\ UNCHANGED <<notifiedAt, alerts>> /\ clock <= clock'
    /\ \A b \in Attempts :
          /\ At(b, "remember")' => At(b, "remember") /\ attempt'[b] = attempt[b]
          /\ At(b, "alert")' => At(b, "alert")
          /\ attempt[b].step \in {"check", "remember", "alert"} => attempt'[b] = attempt[b]
          /\ At(b, "count") => attempt'[b].step \in {"count", "check", "failure"} /\ attempt'[b].now = attempt[b].now
    /\ \/ UNCHANGED fails /\ \A b \in Attempts : At(b, "count") => attempt'[b] = attempt[b]
       \/ UNCHANGED fails /\ \E a \in Attempts : Count(a) /\ \A b \in Attempts : b # a => attempt'[b] = attempt[b]
       \/ /\ fails' = Append(fails, Stored(clock))
          /\ \E a \in Attempts :
                /\ attempt'[a].step = "count" /\ attempt'[a].now = clock /\ At(a, "record")
                /\ \A b \in Attempts : b # a => attempt'[b] = attempt[b]

LEMMA TellSteps ==
    ASSUME Typed, Next, faults' = 0
    PROVE  faults = 0 /\ (Calm \/ \E a \in Attempts : Check(a) \/ Remember(a) \/ Alert(a))
<1>1. faults \in Nat /\ clock \in Nat
  BY Sizes DEF Typed, ObserversOK, Times
<1>2. ~MayFail
  BY <1>1 DEF MayFail
<1>3. faults = 0
  BY <1>1, <1>2 DEF Next, Arrive, Admit, Serve, Rejected, Accepted, Success, Failure, Record, Count, Check, Remember, Alert,
       StartSession, LookUp, Log, Tell, Crash, Advance, observers
<1>4. Idle.step = "idle"
  BY IdleStep
<1>5. ASSUME NEW a \in Attempts, Arrive(a) PROVE Calm
  BY <1>1, <1>4, <1>5 DEF Arrive, Calm, Typed, AttemptsOK, At, store
<1>6. ASSUME NEW a \in Attempts, NEW s \in Steps \ {"count", "check", "remember", "alert"}, Go(a, s),
             attempt[a].step \in Steps \ {"count", "check", "remember", "alert"},
             UNCHANGED <<clock, fails, notifiedAt, alerts>>
      PROVE  Calm
  BY <1>1, <1>6 DEF Go, Calm, Typed, AttemptsOK, At
<1>7. ASSUME NEW a \in Attempts,
             Serve(a) \/ Rejected(a) \/ Accepted(a) \/ StartSession(a) \/ Log(a) \/ Tell(a)
      PROVE  Calm
  <2>1. PICK s \in Steps \ {"count", "check", "remember", "alert"} : Go(a, s)
    BY <1>7 DEF Serve, Rejected, Accepted, StartSession, Log, Tell, Steps
  <2>2. attempt[a].step \in Steps \ {"count", "check", "remember", "alert"} /\ UNCHANGED <<clock, fails, notifiedAt, alerts>>
    BY <1>7 DEF Serve, Rejected, Accepted, StartSession, Log, Tell, Steps, At, store, observers
  <2> QED
    BY <1>6, <2>1, <2>2
<1>8. ASSUME NEW a \in Attempts, Success(a) \/ Failure(a) PROVE Calm
  BY <1>1, <1>4, <1>8 DEF Success, Failure, Calm, Typed, AttemptsOK, At, store
<1>9. ASSUME NEW a \in Attempts, LookUp(a) PROVE Calm
  <2>1. attempt[a].step = "seen"
    BY <1>9 DEF LookUp, At
  <2>2. attempt[a] \in Active
    BY <2>1, Moves DEF Typed, Steps
  <2>3. attempt'[a].step = "log" /\ \A b \in Attempts : b # a => attempt'[b] = attempt[b]
    BY <1>9, <2>2 DEF LookUp, Typed, AttemptsOK, Active
  <2>4. UNCHANGED <<clock, fails, notifiedAt, alerts>>
    BY <1>9 DEF LookUp, store, observers
  <2>5. \A b \in Attempts : attempt'[b] = attempt[b] \/ (attempt'[b].step = "log" /\ attempt[b].step = "seen")
    BY <2>1, <2>3
  <2> QED
    BY <1>1, <2>4, <2>5 DEF Calm, At
<1>10. ASSUME NEW a \in Attempts, Record(a) PROVE Calm
  BY <1>1, <1>2, <1>10 DEF Record, Calm, Typed, AttemptsOK, At
<1>11. ASSUME NEW a \in Attempts, Count(a) PROVE Calm
  <2>1. attempt[a].step = "count"
    BY <1>11 DEF Count, At
  <2>2. attempt[a] \in Active
    BY <2>1, Moves DEF Typed, Steps
  <2>3. PICK s \in {"failure", "check"} : Go(a, s)
    BY <1>11 DEF Count
  <2>4. /\ attempt'[a].step \in {"failure", "check"} /\ attempt'[a].now = attempt[a].now
        /\ \A b \in Attempts : b # a => attempt'[b] = attempt[b]
    BY <2>2, <2>3 DEF Go, Typed, AttemptsOK, Active
  <2>5. UNCHANGED <<clock, fails, notifiedAt, alerts>>
    BY <1>11 DEF Count, store, observers
  <2>6. \A b \in Attempts : attempt'[b] = attempt[b] \/ b = a
    BY <2>4
  <2> QED
    BY <1>1, <1>11, <2>1, <2>4, <2>5, <2>6 DEF Calm, At
<1>12. ASSUME Advance PROVE Calm
  BY <1>1, <1>12 DEF Advance, Calm, At, store, observers
<1>13. ASSUME NEW a \in Attempts, Admit(a) PROVE Calm
  <2>1. attempt[a].step = "allow" /\ "allow" \in Steps \ {"count", "check", "remember", "alert"}
        /\ "serve" \in Steps \ {"count", "check", "remember", "alert"} /\ UNCHANGED <<clock, fails, notifiedAt, alerts>>
    BY <1>13, AdmitSteps DEF Steps, store
  <2>2. CASE Go(a, "serve")
    BY <1>6, <2>1, <2>2
  <2>3. CASE attempt' = [attempt EXCEPT ![a] = Idle]
    BY <1>1, <1>4, <2>1, <2>3 DEF Calm, Typed, AttemptsOK, At
  <2> QED
    BY <1>13, <2>2, <2>3, AdmitSteps
<1> QED
  BY <1>2, <1>3, <1>5, <1>7, <1>8, <1>9, <1>10, <1>11, <1>12, <1>13 DEF Next, Crash

LEMMA CalmApart ==
    ASSUME Typed, Paced, Calm, ToldApart, Typed'
    PROVE  ToldApart' /\ Told' = Told
<1>1. Pending' = Pending /\ \A a \in Pending : attempt'[a] = attempt[a]
  BY DEF Calm, Pending, At
<1>2. Told' = Told
  BY <1>1 DEF Calm, Told
<1>3. KeyRecent'
  <2>1. \A x \in Told : x \in Nat
    BY TellTimes DEF Times
  <2>2. clock \in Nat /\ clock' \in Nat /\ clock <= clock' /\ UNCHANGED notifiedAt
    BY DEF Calm, Typed, Times
  <2> QED
    BY <1>2, <2>1, <2>2 DEF KeyRecent, ToldApart
<1>4. KeyTold' /\ RememberApart' /\ PendingApart'
  BY <1>1, <1>2 DEF Calm, KeyTold, RememberApart, PendingApart, ToldApart, At
<1>5. AlertsApart' /\ InOrder'
  BY <1>1 DEF Calm, AlertsApart, InOrder, ToldApart, AsAlert
<1> QED
  BY <1>2, <1>3, <1>4, <1>5 DEF ToldApart

\* Only an attempt that knows of no recent alert goes on to set the key.
LEMMA CheckApart ==
    ASSUME Typed, Paced, ToldApart, NEW a \in Attempts, Check(a)
    PROVE  ToldApart' /\ Told' = Told
<1>1. attempt[a].step = "check" /\ attempt[a] \in Active
  BY Moves DEF Check, At, Steps, Typed
<1>2. UNCHANGED <<clock, notifiedAt, alerts>>
  BY DEF Check, store, observers
<1>3. /\ \A b \in Attempts : b # a => attempt'[b] = attempt[b]
      /\ attempt'[a].now = attempt[a].now /\ attempt'[a].step \in {"failure", "remember"}
      /\ attempt'[a].step = "remember" => ~ToldLately(attempt[a].now)
  BY <1>1 DEF Check, Go, Typed, AttemptsOK, Active
<1>4. Pending' = Pending /\ \A b \in Pending : attempt'[b] = attempt[b]
  BY <1>1, <1>3 DEF Pending, At
<1>5. Told' = Told
  BY <1>2, <1>4 DEF Told
<1>6. KeyRecent' /\ KeyTold' /\ PendingApart' /\ AlertsApart' /\ InOrder'
  BY <1>2, <1>4, <1>5 DEF KeyRecent, KeyTold, PendingApart, AlertsApart, InOrder, ToldApart, AsAlert
<1>7. RememberApart'
  <2> SUFFICES ASSUME NEW b \in Attempts, attempt'[b].step = "remember", NEW x \in Told
               PROVE  /\ attempt'[b].now >= x - Patience
                      /\ attempt'[b].overtaken \/ attempt'[b].now > x + Window - Patience - Second
    BY <1>5 DEF RememberApart, At
  <2>1. CASE b # a
    BY <1>3, <2>1 DEF RememberApart, ToldApart, At
  <2>2. CASE b = a
    <3>1. ~ToldLately(attempt[a].now) /\ attempt'[b].now = attempt[a].now
      BY <1>3, <2>2
    <3>2. notifiedAt # None /\ notifiedAt \in Nat /\ notifiedAt > x - Patience - Second /\ x \in Nat /\ attempt[a].now \in Nat
      BY <1>1, TellTimes DEF KeyRecent, ToldApart, Times, Active
    <3>3. attempt[a].now - notifiedAt >= Window
      BY <3>1, <3>2, Sizes DEF ToldLately
    <3>4. attempt[a].now > x + Window - Patience - Second
      BY <3>2, <3>3, Sizes
    <3> QED
      BY <3>1, <3>2, <3>4, Sizes
  <2> QED
    BY <2>1, <2>2
<1> QED
  BY <1>5, <1>6, <1>7 DEF ToldApart

\* The key is set: those that have looked at it already are overtaken.
LEMMA RememberApartStep ==
    ASSUME Typed, Paced, ToldApart, NEW a \in Attempts, Remember(a), ~MayFail
    PROVE  ToldApart' /\ Told' = Told \cup {attempt[a].now}
<1> DEFINE now == attempt[a].now
<1>1. attempt[a].step = "remember" /\ attempt[a] \in Active /\ now \in Nat
  BY Moves, TellTimes DEF Remember, At, Steps, Typed
<1>2. UNCHANGED <<clock, alerts>> /\ notifiedAt' = Stored(now) /\ Stored(now) # None
      /\ Stored(now) \in Nat /\ Stored(now) <= now /\ now < Stored(now) + Second
  BY <1>1, Sizes, StoredTime DEF Remember
<1>3. attempt'[a].step = "alert" /\ attempt'[a].now = now /\ attempt'[a].overtaken = attempt[a].overtaken
  BY <1>1 DEF Remember, Active
<1>4. \A b \in Attempts : b # a /\ attempt[b].step # "remember" => attempt'[b] = attempt[b]
  BY DEF Remember, At
<1>5. ASSUME NEW b \in Attempts, b # a, attempt[b].step = "remember"
      PROVE  attempt'[b].step = "remember" /\ attempt'[b].now = attempt[b].now /\ attempt'[b].overtaken
  <2>1. attempt[b] \in Active
    BY <1>5, Moves DEF Typed, Steps
  <2>2. attempt'[b] = [attempt[b] EXCEPT !.overtaken = TRUE]
    BY <1>5 DEF Remember, At
  <2> QED
    BY <1>5, <2>1, <2>2 DEF Active
<1>6. Pending' = Pending \cup {a} /\ a \notin Pending /\ \A b \in Pending : attempt'[b] = attempt[b]
  BY <1>1, <1>3, <1>4, <1>5 DEF Pending, At
<1>7. Told' = Told \cup {now}
  BY <1>2, <1>3, <1>6 DEF Told
<1>8. \A b \in Attempts : attempt[b].step \in Steps =>
         attempt[b].now \in Nat /\ attempt[b].now <= clock /\ clock <= attempt[b].now + Patience
  BY TellTimes
<1>9. \A x \in Told : x \in Nat /\ now >= x - Patience /\ (attempt[a].overtaken \/ now > x + Window - Patience - Second)
  BY <1>1, TellTimes DEF ToldApart, RememberApart, At, Times
<1>10. clock \in Nat /\ now <= clock
  BY <1>1, <1>8, TellTimes DEF Steps
<1>11. KeyRecent' /\ KeyTold'
  BY <1>1, <1>2, <1>7, <1>9, <1>10, Sizes DEF KeyRecent, KeyTold, ToldApart
<1>12. RememberApart'
  <2> SUFFICES ASSUME NEW b \in Attempts, attempt'[b].step = "remember", NEW x \in Told \cup {now}
               PROVE  attempt'[b].now >= x - Patience /\ attempt'[b].overtaken
    BY <1>7 DEF RememberApart, At
  <2>1. b # a /\ attempt[b].step = "remember"
    BY <1>3, <1>4
  <2>2. attempt'[b].now = attempt[b].now /\ attempt'[b].overtaken /\ attempt[b].now \in Nat
        /\ clock <= attempt[b].now + Patience
    BY <1>5, <1>8, <2>1 DEF Steps
  <2>3. \A y \in Told : attempt[b].now >= y - Patience
    BY <2>1 DEF ToldApart, RememberApart, At
  <2>4. attempt[b].now >= now - Patience
    BY <1>1, <1>10, <2>2, Sizes
  <2> QED
    BY <2>2, <2>3, <2>4
<1>13. PendingApart'
  <2>1. ASSUME NEW b \in Pending PROVE attempt[a].overtaken
    <3>1. attempt[b].now \in Told /\ attempt[b].now \in Nat /\ clock <= attempt[b].now + Patience
      BY <1>8 DEF Told, Pending, At, Steps
    <3> QED
      BY <1>1, <1>9, <1>10, <3>1, Sizes
  <2> QED
    BY <1>3, <1>6, <2>1 DEF PendingApart, ToldApart
<1>14. AlertsApart' /\ InOrder'
  <2>1. ASSUME NEW i \in DOMAIN alerts PROVE WellAfter(alerts[i], AsAlert(a))
    <3>1. alerts[i].at \in Told
      BY DEF Told
    <3> QED
      BY <1>1, <1>9, <3>1, Sizes DEF WellAfter, AsAlert
  <2>2. AsAlert(a)' = AsAlert(a) /\ \A b \in Pending : AsAlert(b)' = AsAlert(b)
    BY <1>3, <1>6 DEF AsAlert
  <2> QED
    BY <1>2, <1>6, <2>1, <2>2 DEF AlertsApart, InOrder, ToldApart
<1> QED
  BY <1>7, <1>11, <1>12, <1>13, <1>14 DEF ToldApart

\* The owner is told.
LEMMA AlertApart ==
    ASSUME Typed, Paced, ToldApart, NEW a \in Attempts, Alert(a)
    PROVE  ToldApart' /\ Told' = Told
<1>1. attempt[a].step = "alert" /\ attempt[a] \in Active /\ a \in Pending
  BY Moves DEF Alert, At, Steps, Typed, Pending
<1>2. UNCHANGED <<clock, notifiedAt>> /\ alerts' = Append(alerts, AsAlert(a))
  BY DEF Alert, AsAlert, store
<1>3. attempt'[a].step = "failure" /\ \A b \in Attempts : b # a => attempt'[b] = attempt[b]
  BY <1>1 DEF Alert, Go, Typed, AttemptsOK, Active
<1>4. Pending' = Pending \ {a} /\ \A b \in Pending \ {a} : attempt'[b] = attempt[b]
  BY <1>3 DEF Pending, At
<1>5. alerts \in Seq([at : Times, overtaken : BOOLEAN])
  BY DEF Typed, ObserversOK
<1> DEFINE n == Len(alerts) + 1
<1>6. /\ DOMAIN alerts' = DOMAIN alerts \cup {n} /\ alerts'[n] = AsAlert(a) /\ n \notin DOMAIN alerts /\ n \in Nat
      /\ \A i \in DOMAIN alerts : alerts'[i] = alerts[i] /\ i \in Nat /\ i < n
  BY <1>2, <1>5
<1> HIDE DEF n
<1>7. Told' = Told
  <2>1. AsAlert(a).at = attempt[a].now
    BY DEF AsAlert
  <2>2. {alerts'[i].at : i \in DOMAIN alerts'} = {alerts[i].at : i \in DOMAIN alerts} \cup {attempt[a].now}
    BY <1>6, <2>1
  <2>3. {attempt[b].now : b \in Pending} = {attempt'[b].now : b \in Pending \ {a}} \cup {attempt[a].now}
    BY <1>1, <1>4
  <2> QED
    BY <1>4, <2>2, <2>3 DEF Told
<1>8. KeyRecent' /\ KeyTold'
  BY <1>2, <1>7 DEF KeyRecent, KeyTold, ToldApart
<1>9. RememberApart' /\ PendingApart'
  BY <1>3, <1>4, <1>7 DEF RememberApart, PendingApart, ToldApart, At
<1>10. AlertsApart'
  <2>1. \A b \in Pending \ {a} : WellAfter(AsAlert(a), AsAlert(b))
    BY <1>1 DEF ToldApart, PendingApart, WellAfter, AsAlert
  <2>2. \A b \in Pending \ {a} : AsAlert(b)' = AsAlert(b)
    BY <1>4 DEF AsAlert
  <2>3. \A i \in DOMAIN alerts, b \in Pending : WellAfter(alerts[i], AsAlert(b))
    BY DEF ToldApart, AlertsApart
  <2> QED
    BY <1>4, <1>6, <2>1, <2>2, <2>3 DEF AlertsApart
<1>11. InOrder'
  <2>1. \A i \in DOMAIN alerts : WellAfter(alerts[i], AsAlert(a))
    BY <1>1 DEF ToldApart, AlertsApart
  <2>2. \A i, j \in DOMAIN alerts' : i < j => i \in DOMAIN alerts
    BY <1>6
  <2> QED
    BY <1>6, <2>1, <2>2 DEF InOrder, ToldApart
<1> QED
  BY <1>7, <1>8, <1>9, <1>10, <1>11 DEF ToldApart

\* The failures counted for the last of a burst are those of the burst at least.
LEMMA BurstCounted ==
    ASSUME Typed, NEW i \in DOMAIN fails, BurstAt(i), NEW now \in Nat, Stored(now) = fails[i]
    PROVE  IsFiniteSet(Recent(now)) /\ Cardinality(Recent(now)) \in Nat /\ Cardinality(Recent(now)) >= Threshold
<1>1. fails \in Seq(Times)
  BY DEF Typed, StoreOK
<1>2. DOMAIN fails = 1..Len(fails) /\ Len(fails) \in Nat
  BY <1>1
<1> DEFINE S == {j \in 1..i : fails[j] >= fails[i] - Window}
           R == Recent(now)
<1>3. S \subseteq R /\ R \subseteq 1..Len(fails)
  <2>2. \A j \in 1..Len(fails) : fails[j] \in Int
    <3>1. \A j \in 1..Len(fails) : fails[j] \in Times
      BY <1>1
    <3> QED
      BY <3>1 DEF Times
  <2>1. Stored(now - Window) <= fails[i] - Window /\ Stored(now - Window) \in Int /\ fails[i] - Window \in Int
    <3>1. Stored(now - Window) <= Stored(now) - Window
      BY StoredBack
    <3>2. fails[i] \in Int
      BY <1>2, <2>2
    <3>3. now - Window \in Int /\ Second \in Nat \ {0} /\ Window \in Int
      BY Sizes
    <3>4. Stored(now - Window) \in Int
      BY <3>3 DEF Stored
    <3> QED
      BY <3>1, <3>2, <3>3, <3>4
  <2>3. i \in 1..Len(fails)
    BY <1>2
  <2>4. \A j \in 1..i : j \in 1..Len(fails)
    BY <1>2, <2>3
  <2> DEFINE low == Stored(now - Window)
             high == fails[i] - Window
  <2> HIDE DEF low, high
  <2>5. \A j \in 1..Len(fails) : fails[j] >= high => fails[j] >= low
    BY <2>1, <2>2 DEF low, high
  <2> QED
    BY <1>2, <2>4, <2>5 DEF Recent, low, high
<1>4. IsFiniteSet(R) /\ IsFiniteSet(S)
  <2>1. IsFiniteSet(1..Len(fails))
    BY <1>2, FS_Interval
  <2>2. IsFiniteSet(R)
    BY <1>3, <2>1, FS_Subset
  <2> QED
    BY <1>3, <2>2, FS_Subset
<1>5. Cardinality(S) <= Cardinality(R) /\ Cardinality(R) \in Nat /\ Cardinality(S) \in Nat
  BY <1>3, <1>4, FS_Subset, FS_CardinalityType
<1>6. Cardinality(S) >= Threshold
  BY DEF BurstAt
<1> HIDE DEF S, R
<1>7. Cardinality(R) >= Threshold
  BY <1>5, <1>6, Sizes
<1> QED
  BY <1>4, <1>5, <1>7 DEF R

\* A burst that has been looked at stays what it was.
LEMMA BurstStays ==
    ASSUME Typed, UNCHANGED fails \/ fails' = Append(fails, Stored(clock))
    PROVE  \A i \in DOMAIN fails : i \in DOMAIN fails' /\ fails'[i] = fails[i] /\ (BurstAt(i)' <=> BurstAt(i))
<1>1. fails \in Seq(Times)
  BY DEF Typed, StoreOK
<1>2. /\ \A i \in DOMAIN fails : i \in DOMAIN fails' /\ fails'[i] = fails[i]
      /\ DOMAIN fails = 1..Len(fails) /\ Len(fails) \in Nat
  BY <1>1
<1>3. ASSUME NEW i \in DOMAIN fails PROVE BurstAt(i)' <=> BurstAt(i)
  <2>1. \A j \in 1..i : fails'[j] = fails[j]
    BY <1>2
  <2>2. {j \in 1..i : fails'[j] >= fails'[i] - Window} = {j \in 1..i : fails[j] >= fails[i] - Window}
    BY <1>2, <2>1
  <2> QED
    BY <2>2 DEF BurstAt
<1> QED
  BY <1>2, <1>3

LEMMA CalmFollowed ==
    ASSUME Typed, Paced, Calm, Followed, Told' = Told
    PROVE  Followed'
<1>1. \A i \in DOMAIN fails : i \in DOMAIN fails' /\ fails'[i] = fails[i] /\ (BurstAt(i)' <=> BurstAt(i))
  BY BurstStays DEF Calm
<1>2. \A i \in DOMAIN fails : Covered(i) => Covered(i)'
  BY <1>1 DEF Covered
<1>3. ASSUME NEW i \in DOMAIN fails, BurstAt(i), SeenTo(i)
      PROVE  SeenTo(i)'
  <2>1. PICK b \in Attempts : attempt[b].step \in {"count", "check", "remember"} /\ Stored(attempt[b].now) = fails[i]
    BY <1>3 DEF SeenTo
  <2>2. CASE attempt[b].step \in {"check", "remember"}
    BY <1>1, <2>1, <2>2 DEF Calm, SeenTo
  <2>3. CASE attempt[b].step = "count" /\ attempt'[b] = attempt[b]
    BY <1>1, <2>1, <2>3 DEF SeenTo
  <2>4. CASE attempt[b].step = "count" /\ Count(b)
    <3>1. ~(Cardinality(Recent(attempt[b].now)) < Threshold)
      <4>1. attempt[b].now \in Nat
        BY <2>1, TellTimes DEF Steps
      <4>2. Cardinality(Recent(attempt[b].now)) \in Nat /\ Cardinality(Recent(attempt[b].now)) >= Threshold
        BY <1>3, <2>1, <4>1, BurstCounted
      <4> QED
        BY <4>2, Sizes
    <3>2. attempt[b] \in Active
      BY <2>4, Moves DEF Typed, Steps
    <3>3. attempt'[b].step = "check" /\ attempt'[b].now = attempt[b].now
      BY <2>4, <3>1, <3>2 DEF Count, Go, Typed, AttemptsOK, Active
    <3> QED
      BY <1>1, <2>1, <3>3 DEF SeenTo
  <2>5. attempt[b].step = "count" => attempt'[b] = attempt[b] \/ Count(b)
    BY DEF Calm, At
  <2> QED
    BY <2>1, <2>2, <2>3, <2>4, <2>5
<1>4. ASSUME fails' = Append(fails, Stored(clock)), NEW i \in DOMAIN fails', i \notin DOMAIN fails
      PROVE  SeenTo(i)'
  <2>1. fails'[i] = Stored(clock)
    BY <1>4 DEF Typed, StoreOK
  <2>2. fails' # fails
    BY <1>4
  <2>3. \E a \in Attempts : attempt'[a].step = "count" /\ attempt'[a].now = clock
    BY <2>2 DEF Calm
  <2> QED
    BY <2>1, <2>3 DEF SeenTo
<1>5. \A i \in DOMAIN fails' : i \in DOMAIN fails \/ SeenTo(i)'
  BY <1>4 DEF Calm
<1> QED
  BY <1>1, <1>2, <1>3, <1>5 DEF Followed

LEMMA CheckFollowed ==
    ASSUME Typed, Paced, ToldApart, Followed, NEW a \in Attempts, Check(a), Told' = Told
    PROVE  Followed'
<1>1. attempt[a].step = "check" /\ attempt[a] \in Active
  BY Moves DEF Check, At, Steps, Typed
<1>2. UNCHANGED fails
  BY DEF Check, store
<1>3. /\ \A b \in Attempts : b # a => attempt'[b] = attempt[b]
      /\ attempt'[a].now = attempt[a].now
      /\ attempt'[a].step = "remember" \/ ToldLately(attempt[a].now)
  BY <1>1 DEF Check, Go, Typed, AttemptsOK, Active
<1>4. \A i \in DOMAIN fails : (BurstAt(i)' <=> BurstAt(i)) /\ (Covered(i) => Covered(i)')
  BY <1>2, BurstStays DEF Covered
<1>5. ASSUME NEW i \in DOMAIN fails, SeenTo(i) PROVE SeenTo(i)' \/ Covered(i)
  <2>1. PICK b \in Attempts : attempt[b].step \in {"count", "check", "remember"} /\ Stored(attempt[b].now) = fails[i]
    BY <1>5 DEF SeenTo
  <2>2. CASE b # a \/ attempt'[a].step = "remember"
    BY <1>2, <1>3, <2>1, <2>2 DEF SeenTo
  <2>3. CASE b = a /\ ToldLately(attempt[a].now)
    <3>1. notifiedAt # None /\ attempt[a].now - notifiedAt < Window
      BY <2>3 DEF ToldLately
    <3>2. PICK x \in Told : notifiedAt = Stored(x)
      BY <3>1 DEF ToldApart, KeyTold
    <3>3. x <= clock /\ clock <= attempt[a].now + Patience /\ attempt[a].now \in Nat /\ clock \in Nat /\ x \in Nat
      BY <1>1, TellTimes DEF ToldApart, KeyRecent, Steps, Times
    <3>4. Stored(x) <= x /\ Stored(x) \in Nat
      BY <3>3, StoredTime
    <3>5. fails[i] = Stored(attempt[a].now)
      BY <2>1, <2>3
    <3>6. fails[i] <= attempt[a].now /\ attempt[a].now < fails[i] + Second /\ fails[i] \in Nat
      BY <3>3, <3>5, StoredTime
    <3>7. x < fails[i] + Second + Patience /\ fails[i] - x < Window
      BY <3>1, <3>2, <3>3, <3>4, <3>6, Sizes
    <3> QED
      BY <3>7 DEF Covered
  <2> QED
    BY <1>3, <2>2, <2>3
<1> QED
  BY <1>2, <1>4, <1>5 DEF Followed

LEMMA RememberFollowed ==
    ASSUME Typed, Paced, Followed, NEW a \in Attempts, Remember(a), Told' = Told \cup {attempt[a].now}
    PROVE  Followed'
<1>1. attempt[a].step = "remember" /\ attempt[a] \in Active /\ attempt[a].now \in Nat
  BY Moves, TellTimes DEF Remember, At, Steps, Typed
<1>2. UNCHANGED fails
  BY DEF Remember
<1>3. ASSUME NEW b \in Attempts, b # a, attempt[b].step \in {"count", "check", "remember"}
      PROVE  attempt'[b].step = attempt[b].step /\ attempt'[b].now = attempt[b].now
  <2>1. attempt[b] \in Active
    BY <1>3, Moves DEF Typed, Steps
  <2>2. attempt'[b] = [attempt[b] EXCEPT !.overtaken = TRUE] \/ attempt'[b] = attempt[b]
    BY <1>3 DEF Remember
  <2> QED
    BY <2>1, <2>2 DEF Active
<1>4. \A i \in DOMAIN fails : (BurstAt(i)' <=> BurstAt(i)) /\ (Covered(i) => Covered(i)')
  BY <1>2, BurstStays DEF Covered
<1>5. ASSUME NEW i \in DOMAIN fails, SeenTo(i) PROVE SeenTo(i)' \/ Covered(i)'
  <2>1. PICK b \in Attempts : attempt[b].step \in {"count", "check", "remember"} /\ Stored(attempt[b].now) = fails[i]
    BY <1>5 DEF SeenTo
  <2>2. CASE b # a
    BY <1>2, <1>3, <2>1, <2>2 DEF SeenTo
  <2>3. CASE b = a
    <3>1. attempt[a].now < fails[i] + Second + Patience /\ fails[i] - attempt[a].now < Window
      BY <1>1, <2>1, <2>3, Sizes, StoredTime
    <3> QED
      BY <1>2, <3>1 DEF Covered
  <2> QED
    BY <2>2, <2>3
<1> QED
  BY <1>2, <1>4, <1>5 DEF Followed

LEMMA AlertFollowed ==
    ASSUME Typed, Followed, NEW a \in Attempts, Alert(a), Told' = Told
    PROVE  Followed'
<1>1. attempt[a].step = "alert" /\ attempt[a] \in Active
  BY Moves DEF Alert, At, Steps, Typed
<1>2. UNCHANGED fails
  BY DEF Alert, store
<1>3. \A b \in Attempts : b # a => attempt'[b] = attempt[b]
  BY DEF Alert, Go, Typed, AttemptsOK
<1>4. \A i \in DOMAIN fails : (BurstAt(i)' <=> BurstAt(i)) /\ (Covered(i) => Covered(i)')
  BY <1>2, BurstStays DEF Covered
<1>5. \A i \in DOMAIN fails : SeenTo(i) => SeenTo(i)'
  BY <1>1, <1>2, <1>3 DEF SeenTo
<1> QED
  BY <1>2, <1>4, <1>5 DEF Followed

LEMMA TellStep == ASSUME TellInv, Next PROVE TellInv'
<1>1. Typed' /\ Paced'
  BY TypedStep, PacedStep DEF TellInv
<1> SUFFICES ASSUME faults' = 0 PROVE ToldApart' /\ Followed'
  BY <1>1 DEF TellInv
<1>2. Typed /\ Paced /\ ToldApart /\ Followed
  BY TellSteps DEF TellInv
<1>3. CASE Calm
  BY <1>1, <1>2, <1>3, CalmApart, CalmFollowed
<1>4. ASSUME NEW a \in Attempts, Check(a) PROVE ToldApart' /\ Followed'
  BY <1>2, <1>4, CheckApart, CheckFollowed
<1>5. ASSUME NEW a \in Attempts, Remember(a) PROVE ToldApart' /\ Followed'
  <2>1. ~MayFail
    BY <1>2, TellSteps DEF MayFail
  <2> QED
    BY <1>2, <1>5, <2>1, RememberApartStep, RememberFollowed
<1>6. ASSUME NEW a \in Attempts, Alert(a) PROVE ToldApart' /\ Followed'
  BY <1>2, <1>6, AlertApart, AlertFollowed
<1> QED
  BY <1>2, <1>3, <1>4, <1>5, <1>6, TellSteps

LEMMA TellInit == Init => TellInv
<1> SUFFICES ASSUME Init PROVE TellInv
  OBVIOUS
<1>1. Paced
  BY IdleStep DEF Init, Paced, Steps
<1>2. \A a \in Attempts : attempt[a].step = "idle"
  BY IdleStep DEF Init
<1>3. Told = {} /\ Pending = {} /\ DOMAIN alerts = {} /\ DOMAIN fails = {}
  BY <1>2 DEF Init, Told, Pending, At
<1>4. KeyRecent /\ KeyTold /\ RememberApart /\ PendingApart /\ AlertsApart /\ InOrder /\ Followed
  BY <1>3 DEF Init, KeyRecent, KeyTold, RememberApart, PendingApart, AlertsApart, InOrder, Followed
<1> QED
  BY <1>1, <1>4, InitTyped DEF TellInv, ToldApart

LEMMA AlwaysTold == Spec => []TellInv
<1>1. TellInv /\ UNCHANGED vars => TellInv'
  <2> SUFFICES ASSUME TellInv, UNCHANGED vars PROVE TellInv'
    OBVIOUS
  <2>1. Typed' /\ Paced'
    BY Untouched DEF TellInv, Typed, Paced, vars, store, observers
  <2>2. Told' = Told /\ Pending' = Pending
    BY DEF Told, Pending, At, vars, observers
  <2>3. ToldApart => ToldApart'
    BY <2>2 DEF ToldApart, KeyRecent, KeyTold, RememberApart, PendingApart, AlertsApart, InOrder, AsAlert,
                At, vars, store, observers
  <2>4. Followed => Followed'
    BY <2>2 DEF Followed, BurstAt, Covered, SeenTo, vars, store
  <2> QED
    BY <2>1, <2>3, <2>4 DEF TellInv, vars, observers
<1>2. TellInv /\ [Next]_vars => TellInv'
  BY <1>1, TellStep
<1> QED
  BY TellInit, <1>2, PTL DEF Spec

\* The owner is alerted once in a window at most, give or take what a request
\* takes, and but for an attempt that looked at the time of the last alert just
\* before another set it (recordLoginFailure in internal/web/handlers_auth.go).
THEOREM AlertedOnce == Spec => []AlertOnce
<1>1. TellInv => AlertOnce
  BY DEF TellInv, ToldApart, InOrder, WellAfter, AlertOnce
<1> QED
  BY <1>1, AlwaysTold, PTL

\* And no burst of failures goes untold: whatever overlaps, once nothing is in
\* progress and if nothing broke, it has an alert in its window.
THEOREM BurstsAlerted == Spec => []BurstAlerted
<1>1. TellInv => BurstAlerted
  <2> SUFFICES ASSUME TellInv, faults = 0, \A a \in Attempts : attempt[a] = Idle,
                      NEW i \in DOMAIN fails, BurstAt(i)
               PROVE  \E n \in DOMAIN alerts :
                         alerts[n].at < fails[i] + Second + Patience /\ fails[i] - alerts[n].at < Window
    BY DEF BurstAlerted, BurstAt
  <2>1. \A a \in Attempts : attempt[a].step = "idle"
    BY IdleStep
  <2>2. Covered(i) /\ Told = {alerts[n].at : n \in DOMAIN alerts}
    BY <2>1 DEF TellInv, Followed, SeenTo, Told, Pending, At
  <2> QED
    BY <2>2 DEF Covered
<1> QED
  BY <1>1, AlwaysTold, PTL

-----------------------------------------------------------------------------
(* Lockouts.  That a power of two is a number is beyond the provers, so it   *)
(* is a hypothesis of what follows.                                          *)

Powers == \A n \in Nat : 2 ^ n \in Nat

\* What is said of a wait after so many failures, and the lockout that sees to it.
Wait(n) == Least(LockoutMax, LockoutBase * 2 ^ (n - 1))

LEMMA LockoutIsWait ==
    ASSUME Powers, NEW n \in Nat \ {0}
    PROVE  Lockout(n) \in Nat /\ Wait(n) \in Nat /\ Lockout(n) >= Wait(n)
<1>1. n - 1 \in Nat /\ Least(n - 1, MaxShift) \in Nat
  BY Sizes DEF Least
<1> DEFINE x == 2 ^ (n - 1)
           y == 2 ^ Least(n - 1, MaxShift)
           z == 2 ^ MaxShift
<1>2. x \in Nat /\ y \in Nat /\ z \in Nat
  BY <1>1, Sizes DEF Powers
<1>3. n - 1 <= MaxShift => y = x
  BY DEF Least
<1>4. ~(n - 1 <= MaxShift) => y = z
  BY DEF Least
<1>5. LockoutMax <= LockoutBase * z
  BY LimiterAssumption DEF LimiterAssumption
<1>6. Lockout(n) = Least(LockoutMax, LockoutBase * y) /\ Wait(n) = Least(LockoutMax, LockoutBase * x)
  BY DEF Lockout, Wait
<1> HIDE DEF x, y, z
<1>7. LockoutBase * x \in Nat /\ LockoutBase * y \in Nat
  BY <1>2, Sizes
<1> QED
  BY <1>3, <1>4, <1>5, <1>6, <1>7, Sizes DEF Least

\* The entry of a key agrees with its failures.
Last(failed) == failed[Len(failed)]
LockedBy(e, failed, now) ==
    IF e = NoEntry THEN failed = <<>>
    ELSE /\ e.failures = Len(failed) /\ e.lockedTil \in Nat
         /\ failed # <<>> => /\ e.lockedTil = Last(failed).at + Lockout(Len(failed))
                             /\ Last(failed).recorded <= now

\* WaitsGrow of one key.
WaitsKept(failed) ==
    \A i \in 2..Len(failed) :
        failed[i].arrived > failed[i - 1].recorded => failed[i].at - failed[i - 1].at >= Wait(i - 1)

\* An attempt that arrived since the last failure was recorded waited for the lockout.
Waited(at, e, failed) == failed # <<>> /\ at > Last(failed).recorded => at >= e.lockedTil

\* The steps of an attempt that has been let through.
Later == Steps \ {"allow"}
KeyOfAttempt(a) == <<Group(attempt[a].kind), attempt[a].from>>
Locked ==
    /\ \A k \in Groups \X Addresses : LockedBy(LimiterOf(k), history[k].failed, clock) /\ WaitsKept(history[k].failed)
    /\ \A a \in Attempts : attempt[a].step \in Later =>
          Waited(attempt[a].at, LimiterOf(KeyOfAttempt(a)), history[KeyOfAttempt(a)].failed)
LockInv == MeterInv /\ Locked

\* One more failure, of an attempt that arrived at `at`, with the instant `now`.
OneMore(failed, at, now, clk) == Append(failed, [at |-> now, arrived |-> at, recorded |-> clk])

\* What a key's failures are.
Listed(failed) == failed \in Seq([at : Times, arrived : Times, recorded : Times])

LEMMA OneFailure ==
    ASSUME Powers, NEW e, NEW failed, Listed(failed),
           NEW at \in Nat, NEW now \in Nat, NEW clk \in Nat, at <= now, now <= clk,
           Bucket(e) \/ e = NoEntry, LockedBy(e, failed, clk), WaitsKept(failed),
           Waited(at, e, failed)
    PROVE  /\ LockedBy(AfterFailure(e, now), OneMore(failed, at, now, clk), clk)
           /\ WaitsKept(OneMore(failed, at, now, clk))
           /\ Last(OneMore(failed, at, now, clk)).recorded = clk
<1> DEFINE l == [at |-> now, arrived |-> at, recorded |-> clk]
           more == OneMore(failed, at, now, clk)
           f == Found(e, now)
           g == AfterFailure(e, now)
           n == Len(failed)
<1>1. f.failures = n /\ n \in Nat /\ f.failures \in Nat
      /\ f \in [credit : 0..Full, taken : Nat, failures : Nat, lockedTil : {f.lockedTil}]
  <2>1. CASE e = NoEntry
    BY <2>1, Sizes DEF Found, LockedBy
  <2>2. CASE e # NoEntry
    BY <2>2 DEF Found, LockedBy, Bucket
  <2> QED
    BY <2>1, <2>2
<1>2. g = [f EXCEPT !.failures = f.failures + 1, !.lockedTil = now + Lockout(f.failures + 1)]
  BY DEF AfterFailure
<1> HIDE DEF f, g
<1>3. g.failures = n + 1 /\ g.lockedTil = now + Lockout(n + 1) /\ g.credit = f.credit
  BY <1>1, <1>2
<1>4. /\ more # <<>> /\ Len(more) = n + 1 /\ more[n + 1] = l
      /\ \A i \in 1..n : more[i] = failed[i] /\ failed[i] \in [at : Times, arrived : Times, recorded : Times]
  <2>1. \A i \in 1..n : failed[i] \in [at : Times, arrived : Times, recorded : Times]
    BY InSeq DEF Listed
  <2> DEFINE S == [at : Times, arrived : Times, recorded : Times]
  <2>2. failed \in Seq(S) /\ more = Append(failed, l)
    BY DEF Listed, OneMore
  <2> HIDE DEF S, l, more
  <2>3. more # <<>> /\ Len(more) = n + 1 /\ more[n + 1] = l /\ \A i \in 1..n : more[i] = failed[i]
    BY <2>2
  <2> QED
    BY <2>1, <2>3
<1>5. Lockout(n + 1) \in Nat
  BY <1>1, LockoutIsWait
<1>6. g # NoEntry
  <2>1. n + 1 \in Nat
    BY <1>1
  <2>2. Bucket(g)
    BY <1>1, <1>2, <1>3, <2>1 DEF Bucket
  <2> QED
    BY <2>2, NoBucket
<1> HIDE DEF more
<1>7. LockedBy(g, more, clk) /\ Last(more).recorded = clk
  BY <1>3, <1>4, <1>5, <1>6 DEF LockedBy, Last
<1>8. WaitsKept(more)
  <2> SUFFICES ASSUME NEW i \in 2..n + 1, more[i].arrived > more[i - 1].recorded
               PROVE  more[i].at - more[i - 1].at >= Wait(i - 1)
    BY <1>4 DEF WaitsKept
  <2>1. CASE i <= n
    <3>1. i \in 2..n /\ i \in 1..n /\ i - 1 \in 1..n
      BY <1>1, <2>1
    <3> QED
      BY <1>4, <3>1 DEF WaitsKept
  <2>2. CASE i = n + 1
    <3>1. i - 1 = n /\ n \in 1..n /\ n \in Nat \ {0} /\ failed # <<>> /\ e # NoEntry
      BY <1>1, <2>2 DEF LockedBy
    <3>2. more[i] = l /\ more[i - 1] = failed[n] /\ Last(failed) = failed[n] /\ failed[n].at \in Nat
      <4>1. failed[n] \in [at : Times, arrived : Times, recorded : Times]
        BY <1>4, <3>1
      <4>2. failed[n].at \in Nat
        BY <4>1 DEF Times
      <4> QED
        BY <1>4, <2>2, <3>1, <4>2 DEF Last
    <3>3. at >= e.lockedTil /\ e.lockedTil = failed[n].at + Lockout(n)
      BY <3>1, <3>2 DEF LockedBy, Waited
    <3>4. Lockout(n) \in Nat /\ Wait(n) \in Nat /\ Lockout(n) >= Wait(n)
      BY <3>1, LockoutIsWait
    <3>5. now - failed[n].at >= Wait(n)
      BY <3>2, <3>3, <3>4
    <3> QED
      BY <3>1, <3>2, <3>5
  <2> QED
    BY <1>1, <2>1, <2>2
<1> QED
  BY <1>7, <1>8 DEF more, g

\* What is asked of a limiter without a failure being counted.
LEMMA AllowLocked ==
    ASSUME NEW e, NEW failed, NEW now \in Nat, NEW clk \in Nat, Bucket(e) \/ e = NoEntry,
           LockedBy(e, failed, clk)
    PROVE  /\ LockedBy(AfterAllow(e, now), failed, clk)
           /\ AfterAllow(e, now).lockedTil \in Nat
           /\ failed # <<>> => AfterAllow(e, now).lockedTil = e.lockedTil
           /\ Allowed(e, now) => now >= AfterAllow(e, now).lockedTil
<1> DEFINE f == Found(e, now)
           g == AfterAllow(e, now)
<1>1. Bucket(f) /\ LockedBy(f, failed, clk) /\ f.lockedTil \in Nat /\ (failed # <<>> => f.lockedTil = e.lockedTil)
  <2>1. CASE e = NoEntry
    <3>1. Bucket(f) /\ f.failures = 0 /\ f.lockedTil = 0 /\ failed = <<>> /\ Len(failed) = 0
      BY <2>1, Sizes DEF Found, LockedBy, Bucket
    <3> QED
      BY <3>1 DEF LockedBy
  <2>2. CASE e # NoEntry
    BY <2>2 DEF Found, LockedBy
  <2> QED
    BY <2>1, <2>2
<1>2. g = f \/ g = [f EXCEPT !.credit = Credit(f, now) - Refill, !.taken = now]
  BY DEF AfterAllow
<1>3. Allowed(e, now) => ~(now < f.lockedTil)
  BY DEF Allowed, LockedOut
<1> HIDE DEF f, g
<1>4. f # NoEntry
  BY <1>1, NoBucket
<1>5. g.lockedTil = f.lockedTil /\ g.failures = f.failures /\ (g = f \/ g # NoEntry)
  <2>1. CASE g = f
    BY <2>1
  <2>2. CASE g = [f EXCEPT !.credit = Credit(f, now) - Refill, !.taken = now]
    <3>1. g.lockedTil = f.lockedTil /\ g.failures = f.failures
      BY <1>1, <2>2 DEF Bucket
    <3>2. g \in [credit : {g.credit}, taken : {g.taken}, failures : Nat, lockedTil : {f.lockedTil}]
      BY <1>1, <2>2 DEF Bucket
    <3>3. g # NoEntry
      BY <3>2 DEF NoEntry
    <3> QED
      BY <3>1, <3>3
  <2> QED
    BY <1>2, <2>1, <2>2
<1>6. LockedBy(g, failed, clk)
  BY <1>1, <1>4, <1>5 DEF LockedBy
<1> QED
  BY <1>1, <1>3, <1>5, <1>6 DEF g

\* What is known of the key of an attempt.
LEMMA LockOf ==
    ASSUME LockInv, NEW kind \in AllKinds, NEW from \in Addresses
    PROVE  LET key == <<Group(kind), from>>
               e == Limiter(kind)[from]
               failed == Seen(kind, from).failed
           IN  /\ e = LimiterOf(key) /\ failed = history[key].failed /\ key \in Groups \X Addresses
               /\ Bucket(e) \/ e = NoEntry
               /\ failed \in Seq([at : Times, arrived : Times, recorded : Times])
               /\ LockedBy(e, failed, clock) /\ WaitsKept(failed)
<1> DEFINE key == <<Group(kind), from>>
<1>1. key \in Groups \X Addresses /\ Limiter(kind)[from] = LimiterOf(key) /\ Seen(kind, from) = history[key]
  BY DEF Group, Groups, Limiter, LimiterOf, Seen
<1>2. Seen(kind, from) \in Events
  BY KeyOf DEF LockInv
<1>3. Bucket(LimiterOf(key)) \/ LimiterOf(key) = NoEntry
  BY <1>1 DEF LockInv, MeterInv, Metered, MeteredBy
<1> QED
  BY <1>1, <1>2, <1>3 DEF LockInv, Locked, Events

\* One key changes: what is asked of it and of the attempts that have it.
LEMMA LockKey ==
    ASSUME LockInv, Typed', NEW kind \in AllKinds, NEW from \in Addresses, NEW entry, NEW h,
           SetLimiter(kind, from, entry), See(kind, from, h) \/ (UNCHANGED history /\ h = Seen(kind, from)),
           UNCHANGED clock, LockedBy(entry, h.failed, clock), WaitsKept(h.failed),
           \A b \in Attempts : attempt'[b].step \in Later =>
               /\ KeyOfAttempt(b)' = <<Group(kind), from>> => Waited(attempt'[b].at, entry, h.failed)
               /\ KeyOfAttempt(b)' # <<Group(kind), from>> => attempt'[b] = attempt[b]
    PROVE  Locked'
<1> DEFINE key == <<Group(kind), from>>
<1>1. LimiterOf(key)' = entry /\ \A k \in Groups \X Addresses : k # key => LimiterOf(k)' = LimiterOf(k)
  BY OneKey DEF LockInv, MeterInv
<1>2. history'[key] = h /\ \A k \in Groups \X Addresses : k # key => history'[k] = history[k]
  BY OneKey DEF LockInv, MeterInv, Seen
<1>3. \A k \in Groups \X Addresses : LockedBy(LimiterOf(k)', history'[k].failed, clock') /\ WaitsKept(history'[k].failed)
  BY <1>1, <1>2 DEF LockInv, Locked
<1>4. ASSUME NEW b \in Attempts, attempt'[b].step \in Later
      PROVE  Waited(attempt[b].at, LimiterOf(KeyOfAttempt(b)), history[KeyOfAttempt(b)].failed)'
  <2>1. PICK k \in Groups \X Addresses : k = KeyOfAttempt(b)'
    <3>1. attempt'[b] \in Active
      BY <1>4, IdleStep DEF Typed, AttemptsOK, Steps, Later
    <3>2. attempt'[b].from \in Addresses
      BY <3>1 DEF Active
    <3>3. Group(attempt'[b].kind) \in Groups
      BY DEF Group, Groups
    <3> QED
      BY <3>2, <3>3 DEF KeyOfAttempt
  <2>2. CASE k = key
    BY <1>1, <1>2, <1>4, <2>1, <2>2 DEF Waited
  <2>3. CASE k # key
    <3>1. attempt'[b] = attempt[b] /\ LimiterOf(k)' = LimiterOf(k) /\ history'[k] = history[k]
      BY <1>1, <1>2, <1>4, <2>1, <2>3
    <3>2. k = KeyOfAttempt(b)
      BY <2>1, <3>1 DEF KeyOfAttempt
    <3>3. Waited(attempt[b].at, LimiterOf(k), history[k].failed)
      BY <1>4, <3>1, <3>2 DEF LockInv, Locked
    <3> QED
      BY <2>1, <3>1, <3>3 DEF Waited
  <2> QED
    BY <2>2, <2>3
<1> QED
  BY <1>3, <1>4 DEF Locked

LEMMA LockAdmit == ASSUME LockInv, Typed', NEW a \in Attempts, Admit(a) PROVE Locked'
<1> DEFINE kind == attempt[a].kind
           from == attempt[a].from
           at == attempt[a].at
           e == Limiter(kind)[from]
           key == <<Group(kind), from>>
           entry == AfterAllow(e, at)
           failed == Seen(kind, from).failed
           h == IF LetThrough(a) THEN WithLet(a) ELSE Seen(kind, from)
<1>1. attempt[a] \in Active /\ kind \in AllKinds /\ from \in Addresses /\ UNCHANGED clock /\ clock \in Nat /\ at \in Nat
  BY Asked, AdmitSteps DEF LockInv, MeterInv
<1>2. SetLimiter(kind, from, entry) /\ (See(kind, from, h) \/ (UNCHANGED history /\ h = Seen(kind, from)))
  BY AdmitSteps
<1>3. h.failed = failed
  <2>1. Seen(kind, from) \in Events
    BY <1>1, KeyOf DEF LockInv
  <2> QED
    BY <2>1 DEF Events, WithLet
<1>4. e = LimiterOf(key) /\ failed = history[key].failed /\ WaitsKept(failed)
      /\ (Bucket(e) \/ e = NoEntry) /\ LockedBy(e, failed, clock)
  BY <1>1, LockOf
<1>5. /\ LockedBy(entry, failed, clock) /\ entry.lockedTil \in Nat
      /\ failed # <<>> => entry.lockedTil = e.lockedTil
      /\ LetThrough(a) => at >= entry.lockedTil
  <2>0. at \in Nat /\ clock \in Nat /\ (Bucket(e) \/ e = NoEntry) /\ LockedBy(e, failed, clock)
    BY <1>1, <1>4
  <2> HIDE DEF e, failed, at
  <2>1. /\ LockedBy(AfterAllow(e, at), failed, clock) /\ AfterAllow(e, at).lockedTil \in Nat
        /\ failed # <<>> => AfterAllow(e, at).lockedTil = e.lockedTil
        /\ Allowed(e, at) => at >= AfterAllow(e, at).lockedTil
    BY <2>0, AllowLocked
  <2>2. LetThrough(a) => Allowed(e, at)
    BY DEF LetThrough, e, at
  <2> QED
    BY <2>1, <2>2
<1>6. ASSUME NEW b \in Attempts, attempt'[b].step \in Later
      PROVE  /\ KeyOfAttempt(b)' = key => Waited(attempt'[b].at, entry, failed)
             /\ KeyOfAttempt(b)' # key => attempt'[b] = attempt[b]
  <2>1. CASE attempt'[b] = attempt[b]
    <3>1. KeyOfAttempt(b)' = KeyOfAttempt(b) /\ attempt[b].step \in Later
      BY <1>6, <2>1 DEF KeyOfAttempt
    <3>2. KeyOfAttempt(b) = key => Waited(attempt[b].at, e, failed)
      BY <1>4, <3>1 DEF LockInv, Locked
    <3>3. Waited(attempt[b].at, e, failed) => Waited(attempt[b].at, entry, failed)
      BY <1>5 DEF Waited
    <3> QED
      BY <2>1, <3>1, <3>2, <3>3
  <2>2. CASE attempt'[b] # attempt[b]
    <3>1. attempt'[b] # Idle
      BY <1>6, IdleStep DEF Later, Steps
    <3>2. LetThrough(a) /\ b = a /\ Go(a, "serve")
      BY <2>2, <3>1, AdmitSteps DEF Go, LockInv, MeterInv, Typed, AttemptsOK
    <3>3. attempt'[b].at = at /\ attempt'[b].kind = kind /\ attempt'[b].from = from
      BY <1>1, <3>2 DEF Go, LockInv, MeterInv, Typed, AttemptsOK, Active
    <3>4. KeyOfAttempt(b)' = key /\ at >= entry.lockedTil
      BY <1>5, <3>2, <3>3 DEF KeyOfAttempt
    <3> QED
      BY <3>3, <3>4 DEF Waited
  <2> QED
    BY <2>1, <2>2
<1> HIDE DEF h, entry, e, failed, kind, from, at
<1>7. LockedBy(entry, h.failed, clock) /\ WaitsKept(h.failed)
  BY <1>3, <1>4, <1>5
<1>8. \A b \in Attempts : attempt'[b].step \in Later =>
         /\ KeyOfAttempt(b)' = <<Group(kind), from>> => Waited(attempt'[b].at, entry, h.failed)
         /\ KeyOfAttempt(b)' # <<Group(kind), from>> => attempt'[b] = attempt[b]
  BY <1>3, <1>6
<1> QED
  BY <1>1, <1>2, <1>7, <1>8, LockKey

LEMMA LockCount ==
    ASSUME Powers, LockInv, Typed', NEW a \in Attempts, attempt[a].step \in Later, UNCHANGED clock,
           \/ CountSuccess(attempt[a])
           \/ \E now \in {clock, attempt[a].at} : CountFailure(attempt[a], now),
           \A b \in Attempts : b # a => attempt'[b] = attempt[b],
           attempt'[a] = Idle \/ (KeyOfAttempt(a)' = KeyOfAttempt(a) /\ attempt'[a].at = attempt[a].at)
    PROVE  Locked'
<1> DEFINE kind == attempt[a].kind
           from == attempt[a].from
           key == <<Group(kind), from>>
           e == Limiter(kind)[from]
           failed == Seen(kind, from).failed
<1>1. attempt[a] \in Active
  BY Moves DEF LockInv, MeterInv, Typed, Later
<1>2. kind \in AllKinds /\ from \in Addresses /\ attempt[a].at \in Nat
  BY <1>1, Sizes DEF Active, Times
<1>0. attempt[a].step \in Steps /\ \A b \in Attempts : attempt[b].step \in Later => attempt[b].step \in Steps
  BY DEF Later
<1>3. clock \in Nat /\ \A b \in Attempts : attempt[b].step \in Steps => attempt[b].at <= clock
  <2>1. clock \in Nat
    BY <1>2, KeyOf DEF LockInv
  <2>2. ASSUME NEW b \in Attempts, attempt[b].step \in Steps PROVE attempt[b].at <= clock
    <3>1. attempt[b] \in Active
      BY <2>2, Moves DEF LockInv, MeterInv, Typed
    <3>2. attempt[b].at \in Nat /\ attempt[b].now \in Nat
      BY <3>1 DEF Active, Times
    <3> QED
      BY <2>1, <2>2, <3>2 DEF LockInv, MeterInv, Paced
  <2> QED
    BY <2>1, <2>2
<1>4. /\ e = LimiterOf(key) /\ failed = history[key].failed /\ WaitsKept(failed) /\ LockedBy(e, failed, clock)
      /\ Bucket(e) \/ e = NoEntry
      /\ failed \in Seq([at : Times, arrived : Times, recorded : Times])
  BY <1>2, LockOf
<1>5. Waited(attempt[a].at, e, failed) /\ KeyOfAttempt(a) = key
  BY <1>4 DEF LockInv, Locked, KeyOfAttempt
<1>6. ASSUME NEW b \in Attempts, attempt'[b].step \in Later
      PROVE  /\ attempt'[b].at \in Nat /\ attempt'[b].at <= clock
             /\ KeyOfAttempt(b)' # key => attempt'[b] = attempt[b]
  <2>1. attempt'[b] # Idle
    BY <1>6, IdleStep DEF Later, Steps
  <2>2. CASE b = a
    <3>1. attempt[a].at <= clock
      BY <1>0, <1>3
    <3> QED
      BY <1>2, <1>5, <2>1, <2>2, <3>1
  <2>3. CASE b # a
    <3>1. attempt'[b] = attempt[b]
      BY <2>3
    <3>2. attempt[b] \in Active
      BY <1>6, <3>1, Moves DEF LockInv, MeterInv, Typed, Later
    <3>3. attempt[b].at \in Nat
      BY <3>2 DEF Active, Times
    <3>4. attempt[b].at <= clock
      BY <1>0, <1>3, <1>6, <3>1
    <3> QED
      BY <3>1, <3>3, <3>4
  <2> QED
    BY <2>2, <2>3
<1> HIDE DEF kind, from, e, failed
<1>7. CASE CountSuccess(attempt[a])
  <2>1. SetLimiter(kind, from, NoEntry) /\ See(kind, from, Blank)
    BY <1>7 DEF CountSuccess, AfterSuccess, kind, from
  <2>2. Blank.failed = <<>>
    BY DEF Blank
  <2>3. LockedBy(NoEntry, Blank.failed, clock) /\ WaitsKept(Blank.failed) /\ \A at : Waited(at, NoEntry, Blank.failed)
    BY <2>2 DEF LockedBy, WaitsKept, Waited
  <2>4. \A b \in Attempts : attempt'[b].step \in Later =>
           /\ KeyOfAttempt(b)' = <<Group(kind), from>> => Waited(attempt'[b].at, NoEntry, Blank.failed)
           /\ KeyOfAttempt(b)' # <<Group(kind), from>> => attempt'[b] = attempt[b]
    BY <1>6, <2>3
  <2> QED
    BY <1>2, <2>1, <2>3, <2>4, LockKey
<1>8. CASE \E now \in {clock, attempt[a].at} : CountFailure(attempt[a], now)
  <2>1. PICK now \in {clock, attempt[a].at} : CountFailure(attempt[a], now)
    BY <1>8
  <2> DEFINE l == [at |-> now, arrived |-> attempt[a].at, recorded |-> clock]
             h == [Seen(kind, from) EXCEPT !.failed = Append(@, l)]
             entry == AfterFailure(e, now)
  <2>2. SetLimiter(kind, from, entry) /\ See(kind, from, h)
    BY <2>1 DEF CountFailure, kind, from, e
  <2>3. h.failed = Append(failed, l)
    <3>1. Seen(kind, from) \in Events
      BY <1>2, KeyOf DEF LockInv
    <3> QED
      BY <3>1 DEF Events, failed
  <2>4. now \in Nat /\ attempt[a].at <= now /\ now <= clock
    <3>1. attempt[a].at <= clock /\ attempt[a].at \in Nat /\ clock \in Nat
      BY <1>0, <1>2, <1>3
    <3> QED
      BY <3>1
  <2>5. /\ LockedBy(entry, OneMore(failed, attempt[a].at, now, clock), clock)
        /\ WaitsKept(OneMore(failed, attempt[a].at, now, clock))
        /\ Last(OneMore(failed, attempt[a].at, now, clock)).recorded = clock
    <3> DEFINE at == attempt[a].at
    <3>1. at \in Nat /\ now \in Nat /\ clock \in Nat /\ at <= now /\ now <= clock
      BY <1>2, <1>3, <2>4
    <3>2. /\ Waited(at, e, failed) /\ WaitsKept(failed) /\ LockedBy(e, failed, clock)
          /\ Bucket(e) \/ e = NoEntry
          /\ Listed(failed)
      BY <1>4, <1>5 DEF Listed
    <3> HIDE DEF at, l, h, entry
    <3>3. /\ LockedBy(AfterFailure(e, now), OneMore(failed, at, now, clock), clock)
          /\ WaitsKept(OneMore(failed, at, now, clock))
          /\ Last(OneMore(failed, at, now, clock)).recorded = clock
      BY <3>1, <3>2, OneFailure
    <3> QED
      BY <3>3 DEF at, entry
  <2>6. h.failed = OneMore(failed, attempt[a].at, now, clock)
    BY <2>3 DEF OneMore
  <2> HIDE DEF h, entry, l
  <2>7. LockedBy(entry, h.failed, clock) /\ WaitsKept(h.failed) /\ Last(h.failed).recorded = clock
    BY <2>5, <2>6
  <2>8. \A b \in Attempts : attempt'[b].step \in Later =>
           /\ KeyOfAttempt(b)' = <<Group(kind), from>> => Waited(attempt'[b].at, entry, h.failed)
           /\ KeyOfAttempt(b)' # <<Group(kind), from>> => attempt'[b] = attempt[b]
    BY <1>3, <1>6, <2>7 DEF Waited
  <2> QED
    BY <1>2, <2>2, <2>7, <2>8, LockKey
<1> QED
  BY <1>7, <1>8

LEMMA LockUntouched ==
    ASSUME LockInv, UNCHANGED <<limiters, history, clock>>,
           \A b \in Attempts : attempt'[b].step \in Later =>
               /\ attempt[b].step \in Later /\ attempt'[b].at = attempt[b].at
               /\ attempt'[b].kind = attempt[b].kind /\ attempt'[b].from = attempt[b].from
    PROVE  Locked'
<1>1. \A k : LimiterOf(k)' = LimiterOf(k)
  BY DEF LimiterOf, limiters
<1>2. \A b \in Attempts : attempt'[b].step \in Later => KeyOfAttempt(b)' = KeyOfAttempt(b)
  BY DEF KeyOfAttempt
<1> QED
  BY <1>1, <1>2 DEF LockInv, Locked

LEMMA LockStep == ASSUME Powers, LockInv, Next PROVE LockInv'
<1>1. MeterInv' /\ Typed'
  BY MeterStep DEF LockInv, MeterInv
<1>2. ASSUME NEW a \in Attempts,
             CountSuccess(attempt[a]) \/ \E now \in {clock, attempt[a].at} : CountFailure(attempt[a], now),
             Rejected(a) \/ Accepted(a) \/ Success(a) \/ Failure(a) \/ StartSession(a)
      PROVE  Locked'
  <2>1. attempt[a].step \in Later /\ attempt[a].step \in Steps /\ UNCHANGED clock
    BY <1>2 DEF Rejected, Accepted, Success, Failure, StartSession, At, Later, Steps
  <2>2. attempt[a] \in Active
    BY <2>1, Moves DEF LockInv, MeterInv, Typed
  <2>3. attempt' = [attempt EXCEPT ![a] = Idle] \/ \E s \in Steps : Go(a, s)
    BY <1>2 DEF Rejected, Accepted, Success, Failure, StartSession, Steps
  <2>4. \A b \in Attempts : b # a => attempt'[b] = attempt[b]
    BY <2>3 DEF Go, LockInv, MeterInv, Typed, AttemptsOK
  <2>5. attempt'[a] = Idle \/ (KeyOfAttempt(a)' = KeyOfAttempt(a) /\ attempt'[a].at = attempt[a].at)
    BY <2>2, <2>3 DEF Go, LockInv, MeterInv, Typed, AttemptsOK, Active, KeyOfAttempt
  <2> QED
    BY <1>1, <1>2, <2>1, <2>4, <2>5, LockCount
<1>3. ASSUME UNCHANGED <<limiters, history, clock>>, ~\E a \in Attempts : Admit(a) PROVE Locked'
  <2>1. ASSUME NEW b \in Attempts, attempt'[b].step \in Later
        PROVE  /\ attempt[b].step \in Later /\ attempt'[b].at = attempt[b].at
               /\ attempt'[b].kind = attempt[b].kind /\ attempt'[b].from = attempt[b].from
    <3>1. attempt'[b] # Idle /\ "allow" \notin Later
      BY <2>1, IdleStep DEF Later, Steps
    <3>2. ~Arrives(b)
      BY <2>1, <3>1 DEF Arrives
    <3>3. attempt'[b] = attempt[b] \/ GoesOn(b)
      BY <3>1, <3>2, Follow DEF LockInv, MeterInv
    <3>4. ASSUME attempt[b].step = "allow" PROVE FALSE
      <4>1. \E a \in Attempts : Arrive(a)
        BY <1>3, <2>1, <3>1, <3>4, WaitFollow DEF LockInv, MeterInv
      <4>2. PICK a \in Attempts : Arrive(a)
        BY <4>1
      <4>3. attempt[a] = Idle /\ \A c \in Attempts : c # a => attempt'[c] = attempt[c]
        BY <4>2 DEF Arrive, LockInv, MeterInv, Typed, AttemptsOK
      <4>4. a # b
        BY <3>4, <4>3, IdleStep
      <4> QED
        BY <2>1, <3>1, <3>4, <4>3, <4>4
    <3>5. attempt[b].step \in Steps
      BY <2>1, <3>3 DEF GoesOn, Later
    <3> QED
      BY <3>3, <3>4, <3>5 DEF GoesOn, Later
  <2> QED
    BY <1>3, <2>1, LockUntouched
<1>4. ASSUME Crash PROVE Locked'
  <2>1. \A k \in Groups \X Addresses : LimiterOf(k)' = NoEntry /\ history'[k].failed = <<>>
    BY <1>4 DEF Crash, LimiterOf, Blank
  <2>2. \A a \in Attempts : attempt'[a].step \notin Later
    BY <1>4, IdleStep DEF Crash, Later, Steps
  <2> QED
    BY <2>1, <2>2 DEF Locked, LockedBy, WaitsKept
<1>5. ASSUME Advance PROVE Locked'
  <2>1. clock \in Nat /\ clock' \in Nat /\ clock <= clock' /\ UNCHANGED <<limiters, history, attempt>>
    BY <1>1, <1>5 DEF Advance, LockInv, MeterInv, Typed, Times, observers
  <2>2. \A k : LimiterOf(k)' = LimiterOf(k)
    BY <2>1 DEF LimiterOf, limiters
  <2>3. \A b \in Attempts : KeyOfAttempt(b)' = KeyOfAttempt(b)
    BY <2>1 DEF KeyOfAttempt
  <2>4. ASSUME NEW k \in Groups \X Addresses PROVE LockedBy(LimiterOf(k), history[k].failed, clock')
    <3>1. history[k].failed \in Seq([at : Times, arrived : Times, recorded : Times])
      BY DEF LockInv, MeterInv, Typed, ObserversOK, Events
    <3>2. history[k].failed # <<>> => Last(history[k].failed).recorded \in Nat
      <4>1. history[k].failed # <<>> => Last(history[k].failed) \in [at : Times, arrived : Times, recorded : Times]
        BY <3>1, LastOfSeq DEF Last
      <4> QED
        BY <4>1 DEF Times
    <3> QED
      BY <2>1, <3>2 DEF LockInv, Locked, LockedBy
  <2> QED
    BY <2>1, <2>2, <2>3, <2>4 DEF LockInv, Locked
<1>6. ASSUME NEW a \in Attempts, Rejected(a) \/ Accepted(a) \/ Success(a) \/ Failure(a) \/ StartSession(a)
      PROVE  \/ CountSuccess(attempt[a])
             \/ \E now \in {clock, attempt[a].at} : CountFailure(attempt[a], now)
             \/ UNCHANGED <<limiters, history, clock>>
  BY <1>6 DEF Rejected, Accepted, Success, Failure, StartSession
<1>7. ASSUME NEW a \in Attempts,
             \/ Arrive(a) \/ Serve(a) \/ Record(a) \/ Count(a) \/ Check(a) \/ Remember(a) \/ Alert(a)
             \/ LookUp(a) \/ Log(a) \/ Tell(a)
      PROVE  UNCHANGED <<limiters, history, clock>>
  BY <1>7 DEF Arrive, Serve, Record, Count, Check, Remember, Alert, LookUp, Log, Tell, observers
<1>8. ASSUME NEW a \in Attempts, Admit(a) PROVE Locked'
  BY <1>1, <1>8, LockAdmit
<1>9. Locked'
  BY <1>2, <1>3, <1>4, <1>5, <1>6, <1>7, <1>8 DEF Next
<1> QED
  BY <1>1, <1>9 DEF LockInv

LEMMA LockInit == Init => LockInv
<1> SUFFICES ASSUME Init PROVE LockInv
  OBVIOUS
<1>1. \A k \in Groups \X Addresses : LimiterOf(k) = NoEntry /\ history[k].failed = <<>>
  BY DEF Init, LimiterOf, Blank
<1>2. \A a \in Attempts : attempt[a].step \notin Later
  BY IdleStep DEF Init, Later, Steps
<1> QED
  BY <1>1, <1>2, MeterInit DEF LockInv, Locked, LockedBy, WaitsKept

LEMMA AlwaysLocked == Powers => (Spec => []LockInv)
<1> SUFFICES ASSUME Powers PROVE Spec => []LockInv
  OBVIOUS
<1>1. LockInv /\ UNCHANGED vars => LockInv'
  <2> SUFFICES ASSUME LockInv, UNCHANGED vars PROVE LockInv'
    OBVIOUS
  <2>1. Typed' /\ Paced' /\ Prompt'
    BY Untouched DEF LockInv, MeterInv, Typed, Paced, Prompt, vars, store, observers
  <2>2. Keyed' /\ Metered'
    BY MeterUntouched DEF LockInv, vars, observers
  <2>3. Locked'
    BY LockUntouched DEF vars, observers
  <2> QED
    BY <2>1, <2>2, <2>3 DEF LockInv, MeterInv
<1>2. LockInv /\ [Next]_vars => LockInv'
  BY <1>1, LockStep
<1> QED
  BY LockInit, <1>2, PTL DEF Spec

\* Between two successes that the limiter is told of (the answer to a request that
\* only asks for a challenge is one), the waits between failures double: however
\* many attempts overlapped before, one that arrives after the last failure was counted and fails too was
\* made a lockout later (Allow and Failure of internal/auth/ratelimit.go).
THEOREM WaitsDouble == Powers => (Spec => []WaitsGrow)
<1> SUFFICES ASSUME Powers PROVE Spec => []WaitsGrow
  OBVIOUS
<1>1. LockInv => WaitsGrow
  <2> SUFFICES ASSUME LockInv, NEW k \in DOMAIN history, NEW i \in 2..Len(history[k].failed),
                      history[k].failed[i].arrived > history[k].failed[i - 1].recorded
               PROVE  history[k].failed[i].at - history[k].failed[i - 1].at >= Least(LockoutMax, LockoutBase * 2 ^ (i - 2))
    BY DEF WaitsGrow
  <2>1. k \in Groups \X Addresses
    BY DEF LockInv, MeterInv, Typed, ObserversOK
  <2>2. history[k].failed[i].at - history[k].failed[i - 1].at >= Wait(i - 1)
    BY <2>1 DEF LockInv, Locked, WaitsKept
  <2>3. (i - 1) - 1 = i - 2
    BY <2>1 DEF LockInv, MeterInv, Typed, ObserversOK, Events
  <2> QED
    BY <2>2, <2>3 DEF Wait
<1> QED
  BY <1>1, AlwaysLocked, PTL

\* Every table, limiter, attempt and observer of the sign-in keeps its type; of
\* a limiter's entry, the bucket never holds more than Burst tokens or less than none.
THEOREM TypesCorrect == Powers => (Spec => []TypeOK)
<1> SUFFICES ASSUME Powers PROVE Spec => []TypeOK
  OBVIOUS
<1>1. LockInv => TypeOK
  <2> SUFFICES ASSUME LockInv PROVE LimitersOK
    BY DEF LockInv, MeterInv, Typed, TypeOK
  <2>1. ASSUME NEW k \in Groups \X Addresses PROVE LimiterOf(k) \in Entry \cup {NoEntry}
    <3>1. LockedBy(LimiterOf(k), history[k].failed, clock) /\ (Bucket(LimiterOf(k)) \/ LimiterOf(k) = NoEntry)
      BY DEF LockInv, Locked, MeterInv, Metered, MeteredBy
    <3> QED
      BY <3>1 DEF LockedBy, Bucket, Entry
  <2>2. ASSUME NEW from \in Addresses
        PROVE  login[from] \in Entry \cup {NoEntry} /\ stepup[from] \in Entry \cup {NoEntry}
    <3>1. <<"login", from>> \in Groups \X Addresses /\ <<"stepup", from>> \in Groups \X Addresses
      BY DEF Groups
    <3>2. LimiterOf(<<"login", from>>) = login[from] /\ LimiterOf(<<"stepup", from>>) = stepup[from]
      BY DEF LimiterOf
    <3> QED
      BY <2>1, <3>1, <3>2
  <2> QED
    BY <2>2 DEF LockInv, MeterInv, Keyed, LimitersOK
<1> QED
  BY <1>1, AlwaysLocked, PTL
===============================================================================
