---------------------------- MODULE AccountsProofs ----------------------------
(***************************************************************************)
(* Proofs about Accounts for every configuration: all timeouts, passkeys,  *)
(* requests in progress, crashes and failing writes.                       *)
(***************************************************************************)
EXTENDS Accounts, FiniteSetTheorems, SequenceTheorems, TLAPS

-----------------------------------------------------------------------------
(* The constants and the tables. *)

LEMMA Sizes ==
    /\ Enrolled \subseteq Passkeys
    /\ StepUpDuration \in Nat \ {0} /\ Patience \in Nat /\ ChallengeTTL \in Nat /\ EnrolTTL \in Nat
    /\ MaxRequests \in Nat /\ MaxTime \in Nat /\ MaxFaults \in Nat /\ MaxRows \in Nat \ {0}
    /\ None \notin Nat
  BY AccountsAssumption DEF AccountsAssumption

\* A row that is replaced leaves the table a table, of the same length.
LEMMA RowReplaced ==
    ASSUME NEW S, NEW table \in Seq(S), NEW id \in DOMAIN table, NEW row \in S
    PROVE  /\ [table EXCEPT ![id] = row] \in Seq(S)
           /\ Len([table EXCEPT ![id] = row]) = Len(table)
           /\ DOMAIN [table EXCEPT ![id] = row] = DOMAIN table
<1>1. id \in 1..Len(table)
  OBVIOUS
<1> QED
  BY <1>1, ExceptSeq

LEMMA RowAdded ==
    ASSUME NEW S, NEW table \in Seq(S), NEW row \in S
    PROVE  /\ Append(table, row) \in Seq(S)
           /\ Len(Append(table, row)) = Len(table) + 1
           /\ DOMAIN table \subseteq DOMAIN Append(table, row)
           /\ \A i \in DOMAIN table : Append(table, row)[i] = table[i]
           /\ DOMAIN Append(table, row) = DOMAIN table \cup {Len(table) + 1}
           /\ Append(table, row)[Len(table) + 1] = row
  OBVIOUS

\* A table of one row.
LEMMA OneRow ==
    ASSUME NEW S, NEW row \in S
    PROVE  <<row>> \in Seq(S) /\ Len(<<row>>) = 1 /\ DOMAIN <<row>> = {1} /\ <<row>>[1] = row
  OBVIOUS

-----------------------------------------------------------------------------
(* What the local variables of a request say of the tables at each of its   *)
(* steps: the types alone do not keep the tables together.                  *)

InSessionSteps == {"expire", "touch", "check", "raise", "store", "delete"} \cup Guarded \cup Plain
TokenSteps == {"first", "second"}
EnrolSteps == {"expiry", "user", "credential", "consume", "forget"}

\* A request in a session has read it from a row of the table, one that enrols
\* has the token of an enrolment that was made, one about a passkey has it.
Agrees(locals, rows, tokens) ==
    /\ locals.step \in InSessionSteps => locals.token \in rows /\ locals.session \in Session
    /\ locals.step = "touch" => locals.kind \in Guarded \cup Plain
    /\ locals.step = "check" => locals.kind \in Guarded
    /\ locals.step \in EnrolSteps \cup TokenSteps => locals.token \in tokens
    /\ locals.step \in {"store", "delete", "user", "credential"} => locals.passkey \in Passkeys

LocalsAgree == \A r \in Requests : Agrees(request[r], DOMAIN sessions, DOMAIN born)

-----------------------------------------------------------------------------
(* Type correctness. *)

LEMMA IdleType == Idle \in Locals
  BY Sizes DEF Idle, Locals, Steps, Times

\* A request that is asked something new, goes on or is answered.
LEMMA Moves ==
    ASSUME RequestsOK, NEW r \in Requests
    PROVE  /\ Leave(r) => RequestsOK'
           /\ \A p \in Passkeys, s \in Steps :
                 request' = [request EXCEPT ![r].step = s, ![r].passkey = p] => RequestsOK'
           /\ \A s \in Steps : Go(r, s) => RequestsOK'
           /\ \A now \in Times, s \in Steps :
                 request' = [request EXCEPT ![r].step = s, ![r].now = now] => RequestsOK'
           /\ \A l \in Locals : request' = [request EXCEPT ![r] = l] => RequestsOK'
<1>1. \A l \in Locals : request' = [request EXCEPT ![r] = l] => RequestsOK'
  BY DEF RequestsOK
<1>2. \A s \in Steps : [request[r] EXCEPT !.step = s] \in Locals
  BY DEF RequestsOK, Locals
<1>3. \A p \in Passkeys, s \in Steps : [request[r] EXCEPT !.step = s, !.passkey = p] \in Locals
  BY DEF RequestsOK, Locals
<1>4. \A p \in Passkeys, s \in Steps :
         request' = [request EXCEPT ![r].step = s, ![r].passkey = p] =>
             request' = [request EXCEPT ![r] = [request[r] EXCEPT !.step = s, !.passkey = p]]
  BY DEF RequestsOK, Locals
<1>5. \A p \in Passkeys, s \in Steps :
         request' = [request EXCEPT ![r].step = s, ![r].passkey = p] => RequestsOK'
  <2> SUFFICES ASSUME NEW p \in Passkeys, NEW s \in Steps, request' = [request EXCEPT ![r].step = s, ![r].passkey = p]
               PROVE  RequestsOK'
    OBVIOUS
  <2> DEFINE l == [request[r] EXCEPT !.step = s, !.passkey = p]
  <2>1. l \in Locals
    BY <1>3
  <2>2. request' = [request EXCEPT ![r] = l]
    BY <1>4
  <2> HIDE DEF l
  <2> QED
    BY <1>1, <2>1, <2>2
<1>6. Leave(r) => RequestsOK'
  BY <1>1, IdleType DEF Leave
<1>7. \A s \in Steps : Go(r, s) => RequestsOK'
  <2>1. \A s \in Steps : Go(r, s) => request' = [request EXCEPT ![r] = [request[r] EXCEPT !.step = s]]
    BY DEF Go
  <2> QED
    BY <1>1, <1>2, <2>1, Zenon
<1>8. \A now \in Times, s \in Steps : [request[r] EXCEPT !.step = s, !.now = now] \in Locals
  BY DEF RequestsOK, Locals
<1>9. \A now \in Times, s \in Steps :
         request' = [request EXCEPT ![r].step = s, ![r].now = now] => RequestsOK'
  <2> SUFFICES ASSUME NEW now \in Times, NEW s \in Steps, request' = [request EXCEPT ![r].step = s, ![r].now = now]
               PROVE  RequestsOK'
    OBVIOUS
  <2> DEFINE l == [request[r] EXCEPT !.step = s, !.now = now]
  <2>1. l \in Locals
    BY <1>8
  <2>2. request' = [request EXCEPT ![r] = l]
    BY DEF RequestsOK, Locals
  <2> HIDE DEF l
  <2> QED
    BY <1>1, <2>1, <2>2
<1> QED
  BY <1>1, <1>5, <1>6, <1>7, <1>9

\* The parts of the state that a step leaves alone keep their types.
LEMMA Untouched ==
    /\ AccountOK /\ UNCHANGED account => AccountOK'
    /\ SessionsOK /\ UNCHANGED <<sessions, asserted>> => SessionsOK'
    /\ ChallengesOK /\ UNCHANGED challenges => ChallengesOK'
    /\ EnrolmentOK /\ UNCHANGED <<enrolHash, enrolExpires, born>> => EnrolmentOK'
    /\ RequestsOK /\ UNCHANGED request => RequestsOK'
    /\ ObserversOK /\ UNCHANGED <<clock, raced, enrolments, arrived, faults>> => ObserversOK'
  BY DEF AccountOK, SessionsOK, ChallengesOK, EnrolmentOK, RequestsOK, ObserversOK, account

\* Challenges that are made and taken.
LEMMA ChallengeType ==
    ASSUME ChallengesOK, clock \in Times
    PROVE  /\ \A purpose \in {"login", "owner"} : Put(purpose) => ChallengesOK'
           /\ Waste => ChallengesOK'
           /\ \A id \in DOMAIN challenges : \A purpose, now : Answer(id, purpose, now) => ChallengesOK'
<1> DEFINE Entry == [purpose : {"login", "owner"}, expires : Nat]
<1>1. \A purpose \in {"login", "owner"} : [purpose |-> purpose, expires |-> clock + ChallengeTTL] \in Entry
  BY Sizes DEF Times
<1>2. \A id \in DOMAIN challenges : Taken(id) \in Seq(Entry \cup {None})
  <2> SUFFICES ASSUME NEW id \in DOMAIN challenges PROVE Taken(id) \in Seq(Entry \cup {None})
    OBVIOUS
  <2> QED
    BY RowReplaced DEF Taken, ChallengesOK
<1>3. \A entry \in Entry : Append(challenges, entry) \in Seq(Entry \cup {None})
  BY DEF ChallengesOK
<1> QED
  BY <1>1, <1>2, <1>3 DEF ChallengesOK, Put, Waste, Answer

\* An event that is counted.
LEMMA CountType ==
    ASSUME ObserversOK
    PROVE  /\ Arrive => arrived' \in 0..MaxRequests
           /\ faults < MaxFaults /\ faults' = faults + 1 => faults' \in 0..MaxFaults
           /\ faults' = faults => faults' \in 0..MaxFaults
           /\ arrived' = arrived => arrived' \in 0..MaxRequests
  BY Sizes DEF ObserversOK, Arrive

LEMMA InitType == Init => TypeOK
<1> SUFFICES ASSUME Init PROVE TypeOK
  OBVIOUS
<1>1. AccountOK
  BY Sizes DEF Init, AccountOK
<1>2. SessionsOK
  <2>1. CASE sessions = <<>> /\ asserted = <<>>
    BY <2>1, Sizes DEF SessionsOK
  <2>2. CASE /\ sessions = <<[created |-> 0, seen |-> 0, stepup |-> StepUpDuration]>>
             /\ asserted = <<0>>
    <3>1. [created |-> 0, seen |-> 0, stepup |-> StepUpDuration] \in Session \cup {None} /\ 0 \in Times \cup {None}
      BY Sizes DEF Session, Times
    <3> QED
      BY <2>2, <3>1, OneRow, Sizes DEF SessionsOK
  <2> QED
    BY <2>1, <2>2 DEF Init
<1>3. ChallengesOK
  BY DEF Init, ChallengesOK
<1>4. EnrolmentOK
  <2>1. CASE enrolHash = None /\ enrolExpires = None /\ born = <<>>
    BY <2>1, Sizes DEF EnrolmentOK
  <2>2. CASE enrolHash = 1 /\ enrolExpires = EnrolTTL /\ born = <<0>>
    <3>1. 0 \in Times
      BY Sizes DEF Times
    <3> QED
      BY <2>2, <3>1, OneRow, Sizes DEF EnrolmentOK
  <2> QED
    BY <2>1, <2>2 DEF Init
<1>5. RequestsOK
  BY IdleType DEF Init, RequestsOK
<1>6. ObserversOK
  <2>1. 0 \in Times /\ 0 \in 0..MaxRequests /\ 0 \in 0..MaxFaults
    BY Sizes DEF Times
  <2> QED
    BY <2>1 DEF Init, ObserversOK
<1> QED
  BY <1>1, <1>2, <1>3, <1>4, <1>5, <1>6 DEF TypeOK

LEMMA SignInType ==
    ASSUME TypeOK, NEW r \in Requests,
           SignIn(r) \/ SignInByCode(r) \/ CreateSession(r)
    PROVE  TypeOK'
<1> USE Untouched, CountType, ChallengeType DEF TypeOK, enrolment
<1>1. clock \in Times
  BY DEF ObserversOK
<1>2. [Idle EXCEPT !.step = "session", !.now = clock] \in Locals
  BY <1>1, IdleType DEF Locals, Steps
<1>4. CASE SignIn(r)
  <2>1. RequestsOK'
    BY <1>2, <1>4, Moves DEF SignIn, Enter
  <2> QED
    BY <1>1, <1>4, <2>1 DEF SignIn, ObserversOK
<1>5. CASE SignInByCode(r)
  <2>1. RequestsOK'
    BY <1>2, <1>5, Moves DEF SignInByCode, Enter
  <2> QED
    BY <1>5, <2>1 DEF SignInByCode, ObserversOK
<1>6. CASE CreateSession(r)
  <2>1. NewSession(clock) \in Session \cup {None}
    BY <1>1 DEF NewSession, Session
  <2>2. SessionsOK'
    BY <1>6, <2>1, RowAdded, Sizes DEF CreateSession, Created, SessionsOK
  <2> QED
    BY <1>6, <2>2, Moves DEF CreateSession, ObserversOK
<1> QED
  BY <1>4, <1>5, <1>6

LEMMA SessionType ==
    ASSUME TypeOK, LocalsAgree, NEW r \in Requests,
           InSession(r) \/ Expire(r) \/ Touch(r) \/ Logout(r) \/ Revoke(r) \/ Refuse(r)
    PROVE  TypeOK'
<1> USE Untouched, CountType, ChallengeType DEF TypeOK, enrolment, observers
<1>1. clock \in Times
  BY DEF ObserversOK
<1>2. \A token \in DOMAIN sessions : Deleted(token) \in Seq(Session \cup {None}) /\ Len(Deleted(token)) = Len(sessions)
  BY RowReplaced DEF SessionsOK, Deleted
<1>3. CASE InSession(r)
  <2>1. PICK token \in DOMAIN sessions, kind \in Guarded \cup Plain :
           /\ Known(token)
           /\ Enter(r, [Idle EXCEPT !.token = token, !.session = sessions[token], !.kind = kind, !.now = clock,
                        !.step = IF Expired(sessions[token], clock) THEN "expire" ELSE "touch"])
    BY <1>3 DEF InSession
  <2>2. token \in Ids /\ sessions[token] \in Session
    BY <2>1, Sizes DEF Known, SessionsOK, Ids
  <2>3. [Idle EXCEPT !.token = token, !.session = sessions[token], !.kind = kind, !.now = clock,
                     !.step = IF Expired(sessions[token], clock) THEN "expire" ELSE "touch"] \in Locals
    <3> DEFINE step == IF Expired(sessions[token], clock) THEN "expire" ELSE "touch"
    <3>1. step \in Steps /\ kind \in Guarded \cup Plain
      BY DEF Steps
    <3> HIDE DEF step
    <3>2. [Idle EXCEPT !.token = token, !.session = sessions[token], !.kind = kind, !.now = clock,
                       !.step = step] \in Locals
      BY <1>1, <2>2, <3>1, IdleType DEF Locals
    <3> QED
      BY <3>2 DEF step
  <2>4. RequestsOK'
    BY <2>1, <2>3, Moves DEF Enter
  <2> QED
    BY <1>3, <2>4 DEF InSession, ObserversOK
<1>4. CASE Expire(r)
  <2>1. SessionsOK'
    BY <1>2, <1>4 DEF Expire, LocalsAgree, Agrees, InSessionSteps, At, SessionsOK
  <2> QED
    BY <1>4, <2>1, Moves DEF Expire
<1>5. CASE Touch(r)
  <2>1. /\ request[r].token \in DOMAIN sessions /\ request[r].now \in Times
        /\ (IF request[r].kind \in Guarded THEN "check" ELSE request[r].kind) \in Steps
    BY <1>5 DEF Touch, LocalsAgree, Agrees, InSessionSteps, At, Steps, RequestsOK, Locals
  <2>2. SessionsOK'
    <3>1. CASE Known(request[r].token)
      <4>1. sessions[request[r].token] \in Session
        BY <3>1 DEF Known, SessionsOK
      <4>2. [sessions[request[r].token] EXCEPT !.seen = request[r].now] \in Session \cup {None}
        BY <2>1, <4>1 DEF Session
      <4> QED
        BY <1>5, <2>1, <3>1, <4>2, RowReplaced DEF Touch, Touched, SessionsOK
    <3>2. CASE ~Known(request[r].token)
      BY <1>5, <3>2 DEF Touch, Touched, SessionsOK
    <3> QED
      BY <3>1, <3>2
  <2> QED
    BY <1>5, <2>1, <2>2, Moves DEF Touch
<1>6. CASE Logout(r)
  <2>1. SessionsOK'
    BY <1>2, <1>6 DEF Logout, LocalsAgree, Agrees, InSessionSteps, Plain, At, SessionsOK
  <2> QED
    BY <1>6, <2>1, Moves DEF Logout
<1>7. CASE Revoke(r)
  <2>1. SessionsOK'
    BY <1>2, <1>7 DEF Revoke, SessionsOK
  <2> QED
    BY <1>7, <2>1, Moves DEF Revoke
<1>8. CASE Refuse(r)
  BY <1>1, <1>8, Moves DEF Refuse, ObserversOK
<1> QED
  BY <1>3, <1>4, <1>5, <1>6, <1>7, <1>8

LEMMA StepUpType ==
    ASSUME TypeOK, LocalsAgree, NEW r \in Requests, Ask(r) \/ StepUp(r) \/ Raise(r)
    PROVE  TypeOK'
<1> USE Untouched, CountType, ChallengeType DEF TypeOK, enrolment
<1>1. clock \in Times
  BY DEF ObserversOK
<1>2. CASE Ask(r)
  BY <1>1, <1>2, Moves DEF Ask, ObserversOK
<1>3. CASE StepUp(r)
  <2>1. request[r].token \in DOMAIN sessions
    BY <1>3 DEF StepUp, LocalsAgree, Agrees, InSessionSteps, Plain, At
  <2>2. asserted' \in Seq(Times \cup {None}) /\ Len(asserted') = Len(asserted)
    <3>1. request[r].token \in DOMAIN asserted
      BY <2>1 DEF SessionsOK
    <3> QED
      BY <1>1, <1>3, <3>1, RowReplaced DEF StepUp, SessionsOK
  <2>3. SessionsOK'
    BY <1>3, <2>2 DEF StepUp, SessionsOK
  <2>4. RequestsOK'
    BY <1>1, <1>3, Moves DEF StepUp, Steps
  <2> QED
    BY <1>1, <1>3, <2>3, <2>4 DEF StepUp, ObserversOK
<1>4. CASE Raise(r)
  <2>1. request[r].token \in DOMAIN sessions /\ request[r].now \in Times
    BY <1>4 DEF Raise, LocalsAgree, Agrees, InSessionSteps, At, RequestsOK, Locals
  <2>2. PICK now \in request[r].now..clock : sessions' = Raised(request[r].token, now + StepUpDuration)
    BY <1>4 DEF Raise
  <2>3. /\ sessions' \in Seq(Session \cup {None}) /\ Len(sessions') = Len(sessions)
    <3>1. CASE Known(request[r].token)
      <4>1. sessions[request[r].token] \in Session
        BY <3>1 DEF Known, SessionsOK
      <4>2. now + StepUpDuration \in 0..MaxTime + StepUpDuration
        BY <1>1, <2>1, Sizes DEF Times
      <4>3. [sessions[request[r].token] EXCEPT !.stepup = now + StepUpDuration] \in Session \cup {None}
        BY <4>1, <4>2 DEF Session
      <4> QED
        BY <2>1, <2>2, <3>1, <4>3, RowReplaced DEF Raised, SessionsOK
    <3>2. CASE ~Known(request[r].token)
      BY <2>2, <3>2 DEF Raised, SessionsOK
    <3> QED
      BY <3>1, <3>2
  <2>4. SessionsOK'
    BY <1>4, <2>3 DEF Raise, SessionsOK, observers
  <2> QED
    BY <1>4, <2>4, Moves DEF Raise, ObserversOK, observers
<1> QED
  BY <1>2, <1>3, <1>4

LEMMA GuardedType ==
    ASSUME TypeOK, LocalsAgree, NEW r \in Requests,
           \/ Admit(r) \/ Act(r) \/ AddPasskey(r) \/ StorePasskey(r) \/ ChoosePasskey(r)
           \/ DeletePasskey(r) \/ ConfirmTOTP(r) \/ DisableTOTP(r)
    PROVE  TypeOK'
<1> USE Untouched, CountType, ChallengeType DEF TypeOK, enrolment, observers, account
<1>1. clock \in Times
  BY DEF ObserversOK
<1>2. {"store", "delete"} \subseteq Steps
  BY DEF Steps
<1>3. CASE Act(r)
  BY <1>3, Moves DEF Act
<1>4. CASE AddPasskey(r)
  <2>1. RequestsOK'
    BY <1>2, <1>4, Moves DEF AddPasskey, Registrable
  <2> QED
    BY <1>1, <1>4, <2>1 DEF AddPasskey, ObserversOK
<1>5. CASE StorePasskey(r)
  <2>1. AccountOK'
    BY <1>5 DEF StorePasskey, LocalsAgree, Agrees, At, AccountOK
  <2> QED
    BY <1>5, <2>1, Moves DEF StorePasskey
<1>6. CASE ChoosePasskey(r)
  <2>1. RequestsOK'
    BY <1>2, <1>6, Moves DEF ChoosePasskey
  <2> QED
    BY <1>6, <2>1 DEF ChoosePasskey
<1>7. CASE DeletePasskey(r)
  <2>1. AccountOK'
    BY <1>7 DEF DeletePasskey, AccountOK
  <2>2. raced' \in BOOLEAN
    BY <1>7 DEF DeletePasskey, ObserversOK
  <2> QED
    BY <1>7, <2>1, <2>2, Moves DEF DeletePasskey, ObserversOK
<1>8. CASE ConfirmTOTP(r)
  BY <1>8, Moves DEF ConfirmTOTP, AccountOK
<1>9. CASE DisableTOTP(r)
  BY <1>9, Moves DEF DisableTOTP, AccountOK
<1>10. CASE Admit(r)
  <2>1. request[r].kind \in Steps
    BY <1>10 DEF Admit, LocalsAgree, Agrees, At, Steps
  <2>2. RequestsOK'
    BY <1>1, <1>10, <2>1, Moves DEF Admit
  <2> QED
    BY <1>10, <2>2 DEF Admit
<1> QED
  BY <1>3, <1>4, <1>5, <1>6, <1>7, <1>8, <1>9, <1>10

LEMMA TokenType ==
    ASSUME TypeOK, LocalsAgree, NEW r \in Requests,
           GenerateEnrolToken(r) \/ \E key \in {"hash", "expires"} : WriteToken(r, key)
    PROVE  TypeOK'
<1> USE Untouched, CountType DEF TypeOK
<1>1. clock \in Times
  BY DEF ObserversOK
<1>2. CASE GenerateEnrolToken(r)
  <2>1. EnrolmentOK' /\ Len(born') \in Ids
    <3>1. /\ born' = Append(born, clock) /\ Len(born) < MaxRows /\ UNCHANGED <<enrolHash, enrolExpires>>
          /\ born \in Seq(Times) /\ clock \in Times /\ MaxRows \in Nat
      BY <1>1, <1>2, Sizes DEF GenerateEnrolToken, EnrolmentOK, enrolment
    <3>2. /\ born' \in Seq(Times) /\ Len(born') = Len(born) + 1 /\ Len(born) \in Nat
          /\ DOMAIN born \subseteq DOMAIN born'
      BY <3>1, RowAdded
    <3>3. Len(born') <= MaxRows /\ Len(born') \in 1..MaxRows
      BY <3>1, <3>2
    <3>4. enrolHash' \in DOMAIN born' \cup {None} /\ enrolExpires' \in Nat \cup {None}
      BY <1>1, <3>1, <3>2 DEF EnrolmentOK
    <3> QED
      BY <3>2, <3>3, <3>4 DEF EnrolmentOK, Ids
  <2>2. [Idle EXCEPT !.step = "first", !.token = Len(born'), !.now = clock] \in Locals
    BY <1>1, <2>1, IdleType DEF Locals, Steps
  <2>3. RequestsOK'
    BY <1>2, <2>2, Moves DEF GenerateEnrolToken, Enter
  <2> QED
    BY <1>2, <2>1, <2>3 DEF GenerateEnrolToken, ObserversOK
<1>3. ASSUME NEW key \in {"hash", "expires"}, WriteToken(r, key) PROVE TypeOK'
  <2>1. request[r].token \in DOMAIN born /\ request[r].now \in Nat
    BY <1>3, Sizes DEF WriteToken, WritesNow, LocalsAgree, Agrees, At, EnrolSteps, TokenSteps, RequestsOK, Locals, Times
  <2>2. EnrolmentOK'
    <3>1. born' = born
      BY <1>3 DEF WriteToken
    <3>2. enrolHash' = enrolHash \/ enrolHash' = request[r].token
      BY <1>3 DEF WriteToken
    <3>3. enrolExpires' = enrolExpires \/ enrolExpires' = request[r].now + EnrolTTL
      BY <1>3 DEF WriteToken
    <3>4. enrolExpires' \in Nat \cup {None}
      BY <2>1, <3>3, Sizes DEF EnrolmentOK
    <3> QED
      BY <2>1, <3>1, <3>2, <3>4 DEF EnrolmentOK
  <2>3. RequestsOK'
    <3>1. \A q \in Requests :
             /\ [request[q] EXCEPT !.overtaken = @ \/ At(q, "expiry")] \in Locals
             /\ [request[q] EXCEPT !.step = "second"] \in Locals
      <4> SUFFICES ASSUME NEW q \in Requests
                   PROVE  /\ [request[q] EXCEPT !.overtaken = @ \/ At(q, "expiry")] \in Locals
                          /\ [request[q] EXCEPT !.step = "second"] \in Locals
        OBVIOUS
      <4>1. request[q] \in Locals /\ "second" \in Steps
        BY DEF RequestsOK, Steps
      <4>2. [request[q] EXCEPT !.overtaken = @ \/ At(q, "expiry")] \in Locals
        BY <4>1 DEF Locals
      <4>3. [request[q] EXCEPT !.step = "second"] \in Locals
        BY <4>1 DEF Locals
      <4> QED
        BY <4>2, <4>3
    <3> QED
      BY <1>3, <3>1, IdleType DEF WriteToken, RequestsOK
  <2>4. raced' \in BOOLEAN
    BY <1>3 DEF WriteToken, ObserversOK
  <2> QED
    BY <1>3, <2>2, <2>3, <2>4 DEF WriteToken, ObserversOK
<1> QED
  BY <1>2, <1>3

LEMMA EnrolType ==
    ASSUME TypeOK, LocalsAgree, NEW r \in Requests,
           \/ Enrol(r) \/ FinishRegistration(r) \/ CreateUser(r) \/ CreateCredential(r)
           \/ ConsumeToken(r) \/ ForgetExpiry(r)
    PROVE  TypeOK'
<1> USE Untouched, CountType, ChallengeType DEF TypeOK, enrolment, observers, account
<1>1. clock \in Times
  BY DEF ObserversOK
<1>3. CASE Enrol(r)
  <2>1. \A token \in DOMAIN born : [Idle EXCEPT !.step = "expiry", !.token = token, !.now = clock] \in Locals
    <3>1. DOMAIN born \subseteq Ids
      BY Sizes DEF EnrolmentOK, Ids
    <3> QED
      BY <1>1, <3>1, IdleType DEF Locals, Steps
  <2>2. RequestsOK'
    BY <1>3, <2>1, Moves DEF Enrol, Enter
  <2> QED
    BY <1>3, <2>2 DEF Enrol, ObserversOK
<1>4. CASE FinishRegistration(r)
  <2>1. "user" \in Steps
    BY DEF Steps
  <2>2. RequestsOK'
    BY <1>4, <2>1, Moves DEF FinishRegistration
  <2> QED
    BY <1>1, <1>4, <2>2 DEF FinishRegistration, ObserversOK
<1>5. CASE CreateUser(r)
  <2>1. AccountOK'
    BY <1>5 DEF CreateUser, AccountOK
  <2>2. RequestsOK'
    BY <1>5, Moves DEF CreateUser, Steps
  <2> QED
    BY <1>5, <2>1, <2>2 DEF CreateUser
<1>6. CASE CreateCredential(r)
  <2>1. AccountOK'
    BY <1>6 DEF CreateCredential, LocalsAgree, Agrees, At, AccountOK
  <2>2. enrolments' \in Nat
    BY <1>6 DEF CreateCredential, ObserversOK
  <2>3. RequestsOK'
    BY <1>6, Moves DEF CreateCredential, Steps
  <2> QED
    BY <1>6, <2>1, <2>2, <2>3 DEF CreateCredential, ObserversOK
<1>7. CASE ConsumeToken(r)
  <2>1. RequestsOK'
    BY <1>7, Moves DEF ConsumeToken, Steps
  <2>2. EnrolmentOK'
    BY <1>7 DEF ConsumeToken, EnrolmentOK
  <2> QED
    BY <1>7, <2>1, <2>2 DEF ConsumeToken
<1>8. CASE ForgetExpiry(r)
  <2>1. RequestsOK'
    BY <1>8, Moves DEF ForgetExpiry, Steps
  <2>2. EnrolmentOK'
    BY <1>8 DEF ForgetExpiry, EnrolmentOK
  <2> QED
    BY <1>8, <2>1, <2>2 DEF ForgetExpiry
<1> QED
  BY <1>3, <1>4, <1>5, <1>6, <1>7, <1>8

LEMMA OtherType ==
    ASSUME TypeOK, AskSignIn \/ AskEnrol \/ (\E r \in Requests : WriteFails(r)) \/ Crash \/ Advance
    PROVE  TypeOK'
<1> USE Untouched, CountType DEF TypeOK, enrolment, observers
<1>1. ASSUME NEW r \in Requests, WriteFails(r) PROVE TypeOK'
  BY <1>1, Moves DEF WriteFails, ObserversOK, Steps
<1>2. CASE Crash
  <2>1. ChallengesOK'
    BY <1>2 DEF Crash, ChallengesOK
  <2>2. RequestsOK'
    BY <1>2, IdleType DEF Crash, RequestsOK
  <2> QED
    BY <1>2, <2>1, <2>2 DEF Crash, ObserversOK
<1>3. CASE Advance
  <2>1. clock' \in Times
    BY <1>3, Sizes DEF Advance, ObserversOK, Times
  <2> QED
    BY <1>3, <2>1 DEF Advance, ObserversOK
<1>4. CASE AskSignIn \/ AskEnrol
  BY <1>4, ChallengeType DEF AskSignIn, AskEnrol, ObserversOK
<1> QED
  BY <1>1, <1>2, <1>3, <1>4

-----------------------------------------------------------------------------
(* The tables only grow, and a deleted session stays deleted. *)

\* The clock moves in an action of its own, failures are counted, and tokens
\* are only ever added.
Moved ==
    /\ clock' = clock /\ (raced => raced')
    /\ faults' = faults \/ faults' = faults + 1
    /\ UNCHANGED born \/ \E r \in Requests : GenerateEnrolToken(r)

LEMMA Movers == ASSUME Next PROVE Moved \/ Advance
<1> USE DEF Moved
<1>1. CASE AskSignIn \/ AskEnrol \/ Crash
  BY <1>1 DEF AskSignIn, AskEnrol, Crash
<1>2. ASSUME NEW r \in Requests, SignIn(r) \/ SignInByCode(r) \/ CreateSession(r) PROVE Moved
  <2>1. CASE SignIn(r)
    BY <2>1 DEF SignIn, observers, account, enrolment
  <2>2. CASE SignInByCode(r)
    BY <2>2 DEF SignInByCode, observers, account, enrolment
  <2>3. CASE CreateSession(r)
    BY <2>3 DEF CreateSession, observers, account, enrolment
  <2> QED
    BY <1>2, <2>1, <2>2, <2>3
<1>3. ASSUME NEW r \in Requests, InSession(r) \/ Expire(r) \/ Touch(r) \/ Logout(r) PROVE Moved
  <2>1. CASE InSession(r)
    BY <2>1 DEF InSession, observers, account, enrolment
  <2>2. CASE Expire(r)
    BY <2>2 DEF Expire, observers, account, enrolment
  <2>3. CASE Touch(r)
    BY <2>3 DEF Touch, observers, account, enrolment
  <2>4. CASE Logout(r)
    BY <2>4 DEF Logout, observers, account, enrolment
  <2> QED
    BY <1>3, <2>1, <2>2, <2>3, <2>4
<1>4. ASSUME NEW r \in Requests, Revoke(r) \/ Refuse(r) \/ Ask(r) \/ StepUp(r) \/ Raise(r) PROVE Moved
  <2>1. CASE Revoke(r)
    BY <2>1 DEF Revoke, observers, account, enrolment
  <2>2. CASE Refuse(r)
    BY <2>2 DEF Refuse, observers, account, enrolment
  <2>3. CASE Ask(r)
    BY <2>3 DEF Ask, observers, account, enrolment
  <2>4. CASE StepUp(r)
    BY <2>4 DEF StepUp, observers, account, enrolment
  <2>5. CASE Raise(r)
    BY <2>5 DEF Raise, observers, account, enrolment
  <2> QED
    BY <1>4, <2>1, <2>2, <2>3, <2>4, <2>5
<1>5. ASSUME NEW r \in Requests, Admit(r) \/ Act(r) \/ AddPasskey(r) \/ StorePasskey(r) PROVE Moved
  <2>1. CASE Admit(r)
    BY <2>1 DEF Admit, observers, account, enrolment
  <2>2. CASE Act(r)
    BY <2>2 DEF Act, observers, account, enrolment
  <2>3. CASE AddPasskey(r)
    BY <2>3 DEF AddPasskey, observers, account, enrolment
  <2>4. CASE StorePasskey(r)
    BY <2>4 DEF StorePasskey, observers, account, enrolment
  <2> QED
    BY <1>5, <2>1, <2>2, <2>3, <2>4
<1>6. ASSUME NEW r \in Requests, ChoosePasskey(r) \/ DeletePasskey(r) \/ ConfirmTOTP(r) \/ DisableTOTP(r) PROVE Moved
  <2>1. CASE ChoosePasskey(r)
    BY <2>1 DEF ChoosePasskey, observers, account, enrolment
  <2>2. CASE DeletePasskey(r)
    BY <2>2 DEF DeletePasskey, observers, account, enrolment
  <2>3. CASE ConfirmTOTP(r)
    BY <2>3 DEF ConfirmTOTP, observers, account, enrolment
  <2>4. CASE DisableTOTP(r)
    BY <2>4 DEF DisableTOTP, observers, account, enrolment
  <2> QED
    BY <1>6, <2>1, <2>2, <2>3, <2>4
<1>7. ASSUME NEW r \in Requests, GenerateEnrolToken(r) \/ Enrol(r) \/ FinishRegistration(r) \/ CreateUser(r) PROVE Moved
  <2>1. CASE GenerateEnrolToken(r)
    BY <2>1 DEF GenerateEnrolToken
  <2>2. CASE Enrol(r)
    BY <2>2 DEF Enrol, observers, account, enrolment
  <2>3. CASE FinishRegistration(r)
    BY <2>3 DEF FinishRegistration, observers, account, enrolment
  <2>4. CASE CreateUser(r)
    BY <2>4 DEF CreateUser, observers, account, enrolment
  <2> QED
    BY <1>7, <2>1, <2>2, <2>3, <2>4
<1>8. ASSUME NEW r \in Requests, CreateCredential(r) \/ ConsumeToken(r) \/ ForgetExpiry(r) \/ WriteFails(r) PROVE Moved
  <2>1. CASE CreateCredential(r)
    BY <2>1 DEF CreateCredential, observers, account, enrolment
  <2>2. CASE ConsumeToken(r)
    BY <2>2 DEF ConsumeToken, observers, account, enrolment
  <2>3. CASE ForgetExpiry(r)
    BY <2>3 DEF ForgetExpiry, observers, account, enrolment
  <2>4. CASE WriteFails(r)
    BY <2>4 DEF WriteFails, observers, account, enrolment
  <2> QED
    BY <1>8, <2>1, <2>2, <2>3, <2>4
<1>9. ASSUME NEW r \in Requests, \E key \in {"hash", "expires"} : WriteToken(r, key) PROVE Moved
  BY <1>9 DEF WriteToken
<1> HIDE DEF Moved
<1> QED
  BY <1>1, <1>2, <1>3, <1>4, <1>5, <1>6, <1>7, <1>8, <1>9 DEF Next

LEMMA TokensKept ==
    ASSUME TypeOK, Next
    PROVE  DOMAIN born \subseteq DOMAIN born' /\ \A token \in DOMAIN born : born'[token] = born[token]
<1> USE DEF TypeOK
<1>1. ASSUME NEW r \in Requests, GenerateEnrolToken(r)
      PROVE  DOMAIN born \subseteq DOMAIN born' /\ \A token \in DOMAIN born : born'[token] = born[token]
  BY <1>1, RowAdded DEF GenerateEnrolToken, EnrolmentOK, ObserversOK
<1>2. ASSUME ~\E r \in Requests : GenerateEnrolToken(r) PROVE UNCHANGED born
  BY <1>2, Movers DEF Moved, Advance, enrolment, observers
<1> QED
  BY <1>1, <1>2

\* A step writes to sessions that are there, and raises the one it is in; one
\* that it makes is not stepped up.
SessionsKept ==
    /\ DOMAIN sessions \subseteq DOMAIN sessions'
    /\ \A token \in DOMAIN sessions :
          /\ sessions[token] = None => sessions'[token] = None
          /\ \/ sessions'[token] = None
             \/ sessions'[token].stepup = sessions[token].stepup
             \/ \E r \in Requests : Raise(r) /\ token = request[r].token
    /\ \A token \in DOMAIN sessions' \ DOMAIN sessions :
          sessions'[token] = NewSession(clock) /\ asserted'[token] = None

LEMMA SessionsStep == ASSUME TypeOK, Next PROVE SessionsKept
<1> USE DEF TypeOK
<1>1. ASSUME NEW r \in Requests, CreateSession(r) PROVE SessionsKept
  <2>1. NewSession(clock) \in Session \cup {None}
    BY <1>1 DEF ObserversOK, NewSession, Session
  <2> QED
    BY <1>1, <2>1, RowAdded DEF CreateSession, Created, SessionsOK, SessionsKept
<1>2. ASSUME NEW r \in Requests, Expire(r) \/ Logout(r) \/ Revoke(r) PROVE SessionsKept
  BY <1>2 DEF Expire, Logout, Revoke, Deleted, SessionsOK, SessionsKept
<1>3. ASSUME NEW r \in Requests, Touch(r) PROVE SessionsKept
  <2>1. DOMAIN sessions' = DOMAIN sessions
    BY <1>3 DEF Touch, Touched, SessionsOK
  <2>2. ASSUME NEW token \in DOMAIN sessions
        PROVE  \/ sessions'[token] = sessions[token]
               \/ sessions[token] # None /\ sessions'[token] = [sessions[token] EXCEPT !.seen = request[r].now]
    BY <1>3, <2>2 DEF Touch, Touched, Known, SessionsOK
  <2>3. \A token \in DOMAIN sessions : sessions[token] # None => sessions[token] \in Session
    BY DEF SessionsOK
  <2> QED
    BY <2>1, <2>2, <2>3 DEF SessionsKept, Session
<1>4. ASSUME NEW r \in Requests, Raise(r) PROVE SessionsKept
  <2>0. PICK now \in request[r].now..clock : sessions' = Raised(request[r].token, now + StepUpDuration)
    BY <1>4 DEF Raise
  <2>1. DOMAIN sessions' = DOMAIN sessions
    BY <2>0 DEF Raised, SessionsOK
  <2>2. ASSUME NEW token \in DOMAIN sessions
        PROVE  sessions'[token] = sessions[token] \/ (sessions[token] # None /\ token = request[r].token)
    BY <2>0, <2>2 DEF Raised, Known, SessionsOK
  <2> QED
    BY <1>4, <2>1, <2>2 DEF SessionsKept
<1>5. ASSUME ~\E r \in Requests : CreateSession(r) \/ Expire(r) \/ Logout(r) \/ Revoke(r) \/ Touch(r) \/ Raise(r)
      PROVE  UNCHANGED sessions
  BY <1>5 DEF Next, AskSignIn, AskEnrol, Crash, Advance, SignIn, SignInByCode, InSession, Refuse, Ask,
     StepUp, Admit, Act, AddPasskey, StorePasskey, ChoosePasskey, DeletePasskey, ConfirmTOTP, DisableTOTP,
     GenerateEnrolToken, WriteToken, Enrol, FinishRegistration, CreateUser, CreateCredential,
     ConsumeToken, ForgetExpiry, WriteFails
<1> QED
  BY <1>1, <1>2, <1>3, <1>4, <1>5 DEF SessionsKept

-----------------------------------------------------------------------------
(* The local variables agree with the tables. *)

LEMMA InitAgrees == Init => LocalsAgree
  BY DEF Init, LocalsAgree, Agrees, At, Idle, InSessionSteps, EnrolSteps, TokenSteps, Guarded, Plain

\* One request moves on, while the tables grow.
LEMMA OneMoves ==
    ASSUME TypeOK, LocalsAgree, Next, NEW r \in Requests
    PROVE  /\ UNCHANGED request => LocalsAgree'
           /\ \A l : /\ request' = [request EXCEPT ![r] = l]
                     /\ Agrees(l, DOMAIN sessions', DOMAIN born')
                     => LocalsAgree'
           /\ Leave(r) => LocalsAgree'
<1>1. DOMAIN sessions \subseteq DOMAIN sessions' /\ DOMAIN born \subseteq DOMAIN born'
  BY SessionsStep, TokensKept DEF SessionsKept
<1>2. \A q \in Requests : Agrees(request[q], DOMAIN sessions', DOMAIN born')
  BY <1>1 DEF LocalsAgree, Agrees
<1>3. Agrees(Idle, DOMAIN sessions', DOMAIN born')
  BY DEF Agrees, Idle, InSessionSteps, EnrolSteps, TokenSteps, Guarded, Plain
<1>4. \A l : /\ request' = [request EXCEPT ![r] = l] /\ Agrees(l, DOMAIN sessions', DOMAIN born')
             => LocalsAgree'
  BY <1>2 DEF LocalsAgree, TypeOK, RequestsOK
<1> QED
  BY <1>2, <1>3, <1>4 DEF LocalsAgree, Leave

\* A request that goes on to a step that needs no more of the tables.
LEMMA GoesOn ==
    ASSUME TypeOK, LocalsAgree, Next, NEW r \in Requests, NEW s, NEW now,
           Go(r, s) \/ request' = [request EXCEPT ![r].step = s, ![r].now = now],
           \/ /\ request[r].step \in InSessionSteps /\ s \in InSessionSteps \ {"touch", "store", "delete"}
              /\ s = "check" => request[r].kind \in Guarded
           \/ At(r, "user") /\ s = "credential"
           \/ request[r].step \in EnrolSteps /\ s \in {"consume", "forget", "session"}
    PROVE  LocalsAgree'
<1>1. DOMAIN sessions \subseteq DOMAIN sessions' /\ DOMAIN born \subseteq DOMAIN born'
  BY SessionsStep, TokensKept DEF SessionsKept
<1>2. Agrees(request[r], DOMAIN sessions', DOMAIN born')
  BY <1>1 DEF LocalsAgree, Agrees
<1>3. ASSUME NEW l,
             /\ l.step = s /\ l.token = request[r].token /\ l.session = request[r].session
             /\ l.kind = request[r].kind /\ l.passkey = request[r].passkey
      PROVE  Agrees(l, DOMAIN sessions', DOMAIN born')
  BY <1>2, <1>3 DEF Agrees, At, InSessionSteps, EnrolSteps, TokenSteps, Guarded, Plain
<1>4. CASE Go(r, s)
  <2> DEFINE l == [request[r] EXCEPT !.step = s]
  <2>1. /\ l.step = s /\ l.token = request[r].token /\ l.session = request[r].session
        /\ l.kind = request[r].kind /\ l.passkey = request[r].passkey
    BY DEF TypeOK, RequestsOK, Locals
  <2>2. request' = [request EXCEPT ![r] = l]
    BY <1>4 DEF Go
  <2> HIDE DEF l
  <2> QED
    BY <1>3, <2>1, <2>2, OneMoves
<1>5. CASE request' = [request EXCEPT ![r].step = s, ![r].now = now]
  <2> DEFINE l == [request[r] EXCEPT !.step = s, !.now = now]
  <2>1. /\ l.step = s /\ l.token = request[r].token /\ l.session = request[r].session
        /\ l.kind = request[r].kind /\ l.passkey = request[r].passkey
    BY DEF TypeOK, RequestsOK, Locals
  <2>2. request' = [request EXCEPT ![r] = l]
    BY <1>5 DEF TypeOK, RequestsOK, Locals
  <2> HIDE DEF l
  <2> QED
    BY <1>3, <2>1, <2>2, OneMoves
<1> QED
  BY <1>4, <1>5

LEMMA LocalsStep == ASSUME TypeOK, LocalsAgree, Next PROVE LocalsAgree'
<1> DEFINE Inside == InSessionSteps
<1>1. CASE AskSignIn \/ AskEnrol \/ Advance
  <2>1. UNCHANGED request
    BY <1>1 DEF AskSignIn, AskEnrol, Advance
  <2>2. DOMAIN sessions' = DOMAIN sessions /\ DOMAIN born' = DOMAIN born
    BY <1>1 DEF AskSignIn, AskEnrol, Advance, observers
  <2> QED
    BY <2>1, <2>2 DEF LocalsAgree
<1>2. CASE Crash
  BY <1>2 DEF Crash, LocalsAgree, Agrees, Idle, InSessionSteps, EnrolSteps, TokenSteps, Guarded, Plain
<1>3. ASSUME NEW r \in Requests,
             \/ CreateSession(r) \/ Expire(r) \/ Logout(r) \/ Revoke(r) \/ Refuse(r) \/ Ask(r) \/ Raise(r)
             \/ Act(r) \/ StorePasskey(r) \/ DeletePasskey(r) \/ ConfirmTOTP(r) \/ DisableTOTP(r)
      PROVE  LocalsAgree'
  <2>1. Leave(r)
    BY <1>3 DEF CreateSession, Expire, Logout, Revoke, Refuse, Ask, Raise, Act, StorePasskey, DeletePasskey,
       ConfirmTOTP, DisableTOTP
  <2> QED
    BY <2>1, OneMoves
<1>4. ASSUME NEW r \in Requests, SignIn(r) \/ SignInByCode(r) PROVE LocalsAgree'
  <2> DEFINE l == [Idle EXCEPT !.step = "session", !.now = clock]
  <2>1. request' = [request EXCEPT ![r] = l] \/ UNCHANGED request
    BY <1>4 DEF SignIn, SignInByCode, Enter
  <2>2. Agrees(l, DOMAIN sessions', DOMAIN born')
    BY DEF Agrees, Idle, InSessionSteps, EnrolSteps, TokenSteps, Guarded, Plain
  <2> QED
    BY <2>1, <2>2, OneMoves
<1>5. ASSUME NEW r \in Requests, InSession(r) PROVE LocalsAgree'
  <2>1. PICK token \in DOMAIN sessions, kind \in Guarded \cup Plain :
           /\ Known(token)
           /\ Enter(r, [Idle EXCEPT !.token = token, !.session = sessions[token], !.kind = kind, !.now = clock,
                        !.step = IF Expired(sessions[token], clock) THEN "expire" ELSE "touch"])
    BY <1>5 DEF InSession
  <2> DEFINE l == [Idle EXCEPT !.token = token, !.session = sessions[token], !.kind = kind, !.now = clock,
                               !.step = IF Expired(sessions[token], clock) THEN "expire" ELSE "touch"]
  <2>2. l.step \in {"expire", "touch"} /\ l.token = token /\ l.session = sessions[token] /\ l.kind = kind
    BY DEF Idle
  <2>3. sessions[token] \in Session /\ token \in DOMAIN sessions'
    BY <2>1, SessionsStep DEF Known, TypeOK, SessionsOK, SessionsKept
  <2>4. Agrees(l, DOMAIN sessions', DOMAIN born')
    BY <2>2, <2>3 DEF Agrees, InSessionSteps, EnrolSteps, TokenSteps
  <2>5. request' = [request EXCEPT ![r] = l]
    BY <2>1 DEF Enter
  <2> QED
    BY <2>4, <2>5, OneMoves
<1>6. ASSUME NEW r \in Requests, Touch(r) PROVE LocalsAgree'
  <2> DEFINE s == IF request[r].kind \in Guarded THEN "check" ELSE request[r].kind
  <2>1. Go(r, s) /\ request[r].step \in Inside
    BY <1>6 DEF Touch, At, InSessionSteps
  <2>2. s \in Inside \ {"touch", "store", "delete"} /\ (s = "check" => request[r].kind \in Guarded)
    BY <1>6 DEF Touch, At, LocalsAgree, Agrees, InSessionSteps, Guarded, Plain
  <2> HIDE DEF s
  <2> QED
    BY <2>1, <2>2, GoesOn
<1>7. ASSUME NEW r \in Requests, StepUp(r) PROVE LocalsAgree'
  <2>1. /\ request' = [request EXCEPT ![r].step = "raise", ![r].now = clock]
        /\ request[r].step \in Inside /\ "raise" \in Inside \ {"touch", "store", "delete"}
    BY <1>7 DEF StepUp, At, InSessionSteps, Plain
  <2> QED
    BY <2>1, GoesOn
<1>15. ASSUME NEW r \in Requests, Admit(r) PROVE LocalsAgree'
  <2>1. /\ request' = [request EXCEPT ![r].step = request[r].kind, ![r].now = clock]
        /\ request[r].step \in Inside /\ request[r].kind \in Guarded
    BY <1>15 DEF Admit, At, InSessionSteps, LocalsAgree, Agrees
  <2>2. request[r].kind \in Inside \ {"touch", "store", "delete", "check"}
    BY <2>1 DEF InSessionSteps, Guarded
  <2> QED
    BY <2>1, <2>2, GoesOn
<1>8. ASSUME NEW r \in Requests, AddPasskey(r) \/ ChoosePasskey(r) PROVE LocalsAgree'
  <2>1. PICK p \in Passkeys, s \in {"store", "delete"} :
           request' = [request EXCEPT ![r].step = s, ![r].passkey = p]
    BY <1>8 DEF AddPasskey, ChoosePasskey, Registrable
  <2>2. request[r].step \in Inside
    BY <1>8 DEF AddPasskey, ChoosePasskey, At, InSessionSteps, Guarded
  <2> DEFINE l == [request[r] EXCEPT !.step = s, !.passkey = p]
  <2>3. l.step = s /\ l.passkey = p /\ l.token = request[r].token /\ l.session = request[r].session
    BY DEF TypeOK, RequestsOK, Locals
  <2>4. Agrees(l, DOMAIN sessions', DOMAIN born')
    BY <2>2, <2>3, SessionsStep DEF LocalsAgree, Agrees, SessionsKept, EnrolSteps, TokenSteps
  <2>5. request' = [request EXCEPT ![r] = l]
    BY <2>1 DEF TypeOK, RequestsOK, Locals
  <2> QED
    BY <2>4, <2>5, OneMoves
<1>9. ASSUME NEW r \in Requests, GenerateEnrolToken(r) PROVE LocalsAgree'
  <2> DEFINE l == [Idle EXCEPT !.step = "first", !.token = Len(born'), !.now = clock]
  <2>1. Len(born') \in DOMAIN born'
    BY <1>9, RowAdded DEF GenerateEnrolToken, TypeOK, EnrolmentOK, ObserversOK
  <2>2. l.step = "first" /\ l.token = Len(born')
    BY DEF Idle
  <2>3. Agrees(l, DOMAIN sessions', DOMAIN born')
    BY <2>1, <2>2 DEF Agrees, InSessionSteps, Guarded, Plain
  <2>4. request' = [request EXCEPT ![r] = l]
    BY <1>9 DEF GenerateEnrolToken, Enter
  <2> QED
    BY <2>3, <2>4, OneMoves
<1>10. ASSUME NEW r \in Requests, NEW key \in {"hash", "expires"}, WriteToken(r, key) PROVE LocalsAgree'
  <2>1. DOMAIN sessions' = DOMAIN sessions /\ DOMAIN born' = DOMAIN born
    BY <1>10 DEF WriteToken
  <2>2. ASSUME NEW q \in Requests \ {r} PROVE Agrees(request'[q], DOMAIN sessions, DOMAIN born)
    <3>1. request'[q] = [request[q] EXCEPT !.overtaken = @ \/ At(q, "expiry")]
      BY <1>10, <2>2 DEF WriteToken
    <3> QED
      BY <3>1 DEF LocalsAgree, Agrees, TypeOK, RequestsOK, Locals
  <2>3. Agrees(request'[r], DOMAIN sessions, DOMAIN born)
    <3>1. \/ request'[r] = Idle
          \/ At(r, "first") /\ request'[r] = [request[r] EXCEPT !.step = "second"]
      BY <1>10 DEF WriteToken
    <3>2. CASE request'[r] = Idle
      BY <3>2 DEF Agrees, Idle, InSessionSteps, EnrolSteps, TokenSteps, Guarded, Plain
    <3>3. CASE At(r, "first") /\ request'[r] = [request[r] EXCEPT !.step = "second"]
      BY <3>3 DEF LocalsAgree, Agrees, TypeOK, RequestsOK, Locals, At, InSessionSteps, EnrolSteps, TokenSteps,
         Guarded, Plain
    <3> QED
      BY <3>1, <3>2, <3>3
  <2> QED
    BY <2>1, <2>2, <2>3 DEF LocalsAgree
<1>11. ASSUME NEW r \in Requests, Enrol(r) PROVE LocalsAgree'
  <2>1. PICK token \in DOMAIN born :
           Enter(r, [Idle EXCEPT !.step = "expiry", !.token = token, !.now = clock])
    BY <1>11 DEF Enrol
  <2> DEFINE l == [Idle EXCEPT !.step = "expiry", !.token = token, !.now = clock]
  <2>2. l.step = "expiry" /\ l.token = token
    BY DEF Idle
  <2>3. Agrees(l, DOMAIN sessions', DOMAIN born')
    BY <2>2, TokensKept DEF Agrees, InSessionSteps, Guarded, Plain
  <2>4. request' = [request EXCEPT ![r] = l]
    BY <2>1 DEF Enter
  <2> QED
    BY <2>3, <2>4, OneMoves
<1>12. ASSUME NEW r \in Requests, FinishRegistration(r) PROVE LocalsAgree'
  <2>1. CASE Leave(r)
    BY <2>1, OneMoves
  <2>2. ASSUME NEW p \in Passkeys, request' = [request EXCEPT ![r].step = "user", ![r].passkey = p]
        PROVE  LocalsAgree'
    <3> DEFINE l == [request[r] EXCEPT !.step = "user", !.passkey = p]
    <3>1. l.step = "user" /\ l.passkey = p /\ l.token = request[r].token
      BY DEF TypeOK, RequestsOK, Locals
    <3>2. request[r].token \in DOMAIN born
      BY <1>12 DEF FinishRegistration, LocalsAgree, Agrees, At, EnrolSteps
    <3>3. Agrees(l, DOMAIN sessions', DOMAIN born')
      BY <3>1, <3>2, TokensKept DEF Agrees, InSessionSteps, Guarded, Plain
    <3>4. request' = [request EXCEPT ![r] = l]
      BY <2>2 DEF TypeOK, RequestsOK, Locals
    <3> QED
      BY <3>3, <3>4, OneMoves
  <2> QED
    BY <1>12, <2>1, <2>2 DEF FinishRegistration
<1>13. ASSUME NEW r \in Requests, CreateUser(r) \/ CreateCredential(r) \/ ConsumeToken(r) \/ ForgetExpiry(r)
       PROVE  LocalsAgree'
  <2>1. \/ Leave(r)
        \/ Go(r, "credential") /\ At(r, "user")
        \/ \E s \in {"consume", "forget", "session"} : Go(r, s) /\ request[r].step \in EnrolSteps
    BY <1>13 DEF CreateUser, CreateCredential, ConsumeToken, ForgetExpiry, At, EnrolSteps
  <2> QED
    BY <2>1, OneMoves, GoesOn
<1>14. ASSUME NEW r \in Requests, WriteFails(r) PROVE LocalsAgree'
  <2>1. Leave(r) \/ (Go(r, "session") /\ request[r].step \in EnrolSteps)
    BY <1>14 DEF WriteFails, EnrolSteps
  <2> QED
    BY <2>1, OneMoves, GoesOn
<1> QED
  BY <1>1, <1>2, <1>3, <1>4, <1>5, <1>6, <1>7, <1>8, <1>9, <1>10, <1>11, <1>12, <1>13, <1>14, <1>15 DEF Next

LEMMA TypeStep == ASSUME TypeOK, LocalsAgree, Next PROVE TypeOK'
  BY SignInType, SessionType, StepUpType, GuardedType, TokenType, EnrolType, OtherType DEF Next

LEMMA StutterAgrees == ASSUME TypeOK, LocalsAgree, UNCHANGED vars PROVE TypeOK' /\ LocalsAgree'
<1>1. TypeOK'
  BY Untouched DEF TypeOK, vars, account, enrolment, observers
<1>2. UNCHANGED <<request, sessions, born>>
  BY DEF vars, observers
<1>3. LocalsAgree'
  BY <1>2 DEF LocalsAgree
<1> QED
  BY <1>1, <1>3

\* The types of the tables, the challenges, the requests and the observers.
THEOREM TypesCorrect == Spec => [](TypeOK /\ LocalsAgree)
<1>1. TypeOK /\ LocalsAgree /\ [Next]_vars => TypeOK' /\ LocalsAgree'
  BY TypeStep, LocalsStep, StutterAgrees
<1> QED
  BY InitType, InitAgrees, <1>1, PTL DEF Spec

\* A session that was revoked, logged out of or found expired never comes back,
\* whatever requests were validated in it before and still have to write.
THEOREM DeletedStaysDeleted == Spec => GoneForGood
<1>1. TypeOK /\ [Next]_vars =>
         [\A token \in DOMAIN sessions : sessions[token] = None => sessions'[token] = None]_vars
  BY SessionsStep DEF SessionsKept
<1> QED
  BY <1>1, TypesCorrect, PTL DEF Spec, GoneForGood

-----------------------------------------------------------------------------
(* Where a request can have come from. *)

Kept(q) ==
    /\ request'[q].step = request[q].step /\ request'[q].token = request[q].token
    /\ request'[q].session = request[q].session /\ request'[q].now = request[q].now
    /\ request'[q].passkey = request[q].passkey
    /\ request[q].overtaken => request'[q].overtaken

\* The step that has just brought a request to where it is.
Came(q) ==
    /\ Hurried(q)' =>
          \/ Kept(q) \/ StepUp(q) \/ Admit(q)
          \/ /\ request[q].step \in Guarded /\ request'[q].step \in {"store", "delete"}
             /\ request'[q].token = request[q].token /\ request'[q].session = request[q].session
             /\ request'[q].now = request[q].now
    /\ At(q, "credential")' => Kept(q) \/ CreateUser(q)
    /\ At(q, "delete")' => Kept(q) \/ ChoosePasskey(q)
    /\ At(q, "user")' => Kept(q) \/ FinishRegistration(q)
    /\ At(q, "expiry")' => Kept(q) \/ Enrol(q)
    /\ At(q, "first")' => Kept(q) \/ GenerateEnrolToken(q)
    /\ At(q, "second")' =>
          \/ Kept(q)
          \/ /\ At(q, "first") /\ WriteToken(q, Writes[1])
             /\ request'[q] = [request[q] EXCEPT !.step = "second"]
    /\ request'[q].step \in InSessionSteps =>
          \/ InSession(q)
          \/ /\ request[q].step \in InSessionSteps
             /\ request'[q].token = request[q].token /\ request'[q].session = request[q].session

LEMMA Kinds == Guarded \cup Plain = {"act", "add", "remove", "totp", "logout", "revoke", "ask", "stepup"}
  BY DEF Guarded, Plain

LEMMA CameSimply ==
    ASSUME NEW q, Kept(q) \/ request'[q].step \in {"idle", "session", "consume", "forget"}
    PROVE  Came(q)
  BY Kinds DEF Came, Kept, At, Hurried, Guarded, InSessionSteps

\* What is asked of one request says nothing of the others.
LEMMA OneCame ==
    ASSUME TypeOK, NEW r \in Requests, NEW q \in Requests
    PROVE  /\ \A l : request' = [request EXCEPT ![r] = l] =>
                    (q = r => request'[q] = l) /\ (q # r => Kept(q))
           /\ Leave(r) => Came(q)
           /\ UNCHANGED request => Came(q)
<1>1. \A l : request' = [request EXCEPT ![r] = l] => (q = r => request'[q] = l) /\ (q # r => Kept(q))
  BY DEF TypeOK, RequestsOK, Kept
<1>2. Leave(r) => Came(q)
  <2>1. Leave(r) => (q = r => request'[q] = Idle) /\ (q # r => Kept(q))
    BY <1>1 DEF Leave
  <2>2. Idle.step = "idle"
    BY DEF Idle
  <2> QED
    BY <2>1, <2>2, CameSimply
<1>3. UNCHANGED request => Came(q)
  BY CameSimply DEF Kept
<1> QED
  BY <1>1, <1>2, <1>3

LEMMA Arrivals == ASSUME TypeOK, LocalsAgree, Next, NEW q \in Requests PROVE Came(q)
<1> USE DEF TypeOK
<1>1. CASE AskSignIn \/ AskEnrol \/ Advance
  <2>1. UNCHANGED request
    BY <1>1 DEF AskSignIn, AskEnrol, Advance
  <2> QED
    BY <2>1, CameSimply DEF Kept
<1>2. CASE Crash
  BY <1>2, CameSimply DEF Crash, Idle
<1>3. ASSUME NEW r \in Requests,
             \/ CreateSession(r) \/ Expire(r) \/ Logout(r) \/ Revoke(r) \/ Refuse(r) \/ Ask(r) \/ Raise(r)
             \/ Act(r) \/ StorePasskey(r) \/ DeletePasskey(r) \/ ConfirmTOTP(r) \/ DisableTOTP(r)
      PROVE  Came(q)
  <2>1. Leave(r)
    BY <1>3 DEF CreateSession, Expire, Logout, Revoke, Refuse, Ask, Raise, Act, StorePasskey, DeletePasskey,
       ConfirmTOTP, DisableTOTP
  <2> QED
    BY <2>1, OneCame
<1>4. ASSUME NEW r \in Requests, SignIn(r) \/ SignInByCode(r) PROVE Came(q)
  <2>1. request' = [request EXCEPT ![r] = [Idle EXCEPT !.step = "session", !.now = clock]] \/ UNCHANGED request
    BY <1>4 DEF SignIn, SignInByCode, Enter
  <2> DEFINE l == [Idle EXCEPT !.step = "session", !.now = clock]
  <2>2. l.step = "session"
    BY DEF Idle
  <2>3. CASE request' = [request EXCEPT ![r] = l]
    <3>1. (q = r => request'[q] = l) /\ (q # r => Kept(q))
      BY <2>3, OneCame
    <3> QED
      BY <2>2, <3>1, CameSimply
  <2> QED
    BY <2>1, <2>3, OneCame
<1>5. ASSUME NEW r \in Requests, InSession(r) PROVE Came(q)
  <2>1. PICK token \in DOMAIN sessions, kind \in Guarded \cup Plain :
           /\ Known(token)
           /\ Enter(r, [Idle EXCEPT !.token = token, !.session = sessions[token], !.kind = kind, !.now = clock,
                        !.step = IF Expired(sessions[token], clock) THEN "expire" ELSE "touch"])
    BY <1>5 DEF InSession
  <2> DEFINE l == [Idle EXCEPT !.token = token, !.session = sessions[token], !.kind = kind, !.now = clock,
                               !.step = IF Expired(sessions[token], clock) THEN "expire" ELSE "touch"]
  <2>2. l.step \in {"expire", "touch"}
    BY DEF Idle
  <2>3. CASE q = r
    <3>1. request'[q].step \in {"expire", "touch"}
      BY <2>1, <2>2, <2>3 DEF Enter, RequestsOK
    <3> QED
      BY <1>5, <2>3, <3>1 DEF Came, At, Hurried, Guarded
  <2>4. CASE q # r
    <3>1. request' = [request EXCEPT ![r] = l]
      BY <2>1 DEF Enter
    <3> HIDE DEF l
    <3>2. Kept(q)
      BY <2>4, <3>1, OneCame
    <3> QED
      BY <3>2, CameSimply
  <2> QED
    BY <2>3, <2>4
<1>6. ASSUME NEW r \in Requests, Touch(r) PROVE Came(q)
  <2>1. PICK s \in Plain \cup {"check"} :
           request[r].step \in InSessionSteps /\ request' = [request EXCEPT ![r] = [request[r] EXCEPT !.step = s]]
    BY <1>6, Kinds DEF Touch, Go, At, LocalsAgree, Agrees, InSessionSteps
  <2>2. CASE q = r
    <3>1. /\ request'[q].step = s /\ request[q].step \in InSessionSteps
          /\ request'[q].token = request[q].token /\ request'[q].session = request[q].session
      BY <2>1, <2>2 DEF RequestsOK, Locals
    <3> QED
      BY <3>1 DEF Came, At, Hurried, Guarded, Plain
  <2> QED
    BY <2>1, <2>2, OneCame, CameSimply
<1>12. ASSUME NEW r \in Requests, StepUp(r) \/ Admit(r) PROVE Came(q)
  <2>1. PICK s \in Guarded \cup {"raise"} :
           /\ request[r].step \in InSessionSteps
           /\ request' = [request EXCEPT ![r].step = s, ![r].now = clock]
    BY <1>12 DEF StepUp, Admit, At, LocalsAgree, Agrees, InSessionSteps, Plain
  <2>2. CASE q = r
    <3>1. /\ request'[q].step = s /\ request[q].step \in InSessionSteps
          /\ request'[q].token = request[q].token /\ request'[q].session = request[q].session
      BY <2>1, <2>2 DEF RequestsOK, Locals
    <3> QED
      BY <1>12, <2>1, <2>2, <3>1 DEF Came, At, Guarded
  <2>3. CASE q # r
    BY <2>1, <2>3, CameSimply DEF Kept, RequestsOK
  <2> QED
    BY <2>2, <2>3
<1>7. ASSUME NEW r \in Requests, AddPasskey(r) \/ ChoosePasskey(r) PROVE Came(q)
  <2>1. PICK p \in Passkeys, s \in {"store", "delete"} :
           /\ request' = [request EXCEPT ![r].step = s, ![r].passkey = p]
           /\ s = "delete" => ChoosePasskey(r)
    BY <1>7 DEF AddPasskey, ChoosePasskey, Registrable, At, InSessionSteps, Guarded
  <2>2. CASE q = r
    <3>1. request[q].step \in Guarded /\ request[q].step \in InSessionSteps
      BY <1>7, <2>2 DEF AddPasskey, ChoosePasskey, At, InSessionSteps, Guarded
    <3>2. /\ request'[q].step = s /\ request'[q].now = request[q].now
          /\ request'[q].token = request[q].token /\ request'[q].session = request[q].session
      BY <2>1, <2>2 DEF RequestsOK, Locals
    <3> QED
      BY <2>1, <2>2, <3>1, <3>2 DEF Came, At
  <2>3. CASE q # r
    BY <2>1, <2>3, CameSimply DEF Kept, RequestsOK
  <2> QED
    BY <2>2, <2>3
<1>8. ASSUME NEW r \in Requests, GenerateEnrolToken(r) \/ Enrol(r) PROVE Came(q)
  <2>1. ASSUME GenerateEnrolToken(r)
        PROVE  request' = [request EXCEPT ![r] =
                              [Idle EXCEPT !.step = "first", !.token = Len(born'), !.now = clock]]
    BY <2>1 DEF GenerateEnrolToken, Enter
  <2>2. ASSUME Enrol(r)
        PROVE  \E token \in DOMAIN born :
                  request' = [request EXCEPT ![r] =
                                 [Idle EXCEPT !.step = "expiry", !.token = token, !.now = clock]]
    BY <2>2 DEF Enrol, Enter
  <2>3. CASE q # r
    <3>1. Kept(q)
      BY <1>8, <2>1, <2>2, <2>3 DEF Kept, RequestsOK
    <3> QED
      BY <3>1, CameSimply
  <2>4. CASE q = r /\ GenerateEnrolToken(r)
    <3>1. request'[q].step = "first"
      BY <2>1, <2>4 DEF Idle, RequestsOK
    <3> QED
      BY <2>4, <3>1, Kinds DEF Came, At, Hurried, InSessionSteps
  <2>5. CASE q = r /\ Enrol(r)
    <3>1. request'[q].step = "expiry"
      BY <2>2, <2>5 DEF Idle, RequestsOK
    <3> QED
      BY <2>5, <3>1, Kinds DEF Came, At, Hurried, InSessionSteps
  <2> QED
    BY <1>8, <2>3, <2>4, <2>5
<1>9. ASSUME NEW r \in Requests, NEW key \in {"hash", "expires"}, WriteToken(r, key) PROVE Came(q)
  <2>1. CASE q # r
    <3>1. request'[q] = [request[q] EXCEPT !.overtaken = @ \/ At(q, "expiry")]
      BY <1>9, <2>1 DEF WriteToken
    <3>2. Kept(q)
      BY <3>1 DEF Kept, RequestsOK, Locals
    <3> QED
      BY <3>2, CameSimply
  <2>2. CASE q = r /\ At(r, "first")
    <3>1. request'[q] = [request[q] EXCEPT !.step = "second"] /\ request'[q].step = "second"
      BY <1>9, <2>2 DEF WriteToken, RequestsOK, Locals
    <3>2. Writes[1] = key
      BY <1>9, <2>2 DEF WriteToken, WritesNow, At, Writes
    <3> QED
      BY <1>9, <2>2, <3>1, <3>2, Kinds DEF Came, At, Hurried, InSessionSteps
  <2>3. CASE q = r /\ ~At(r, "first")
    <3>1. request'[q] = Idle
      BY <1>9, <2>3 DEF WriteToken
    <3> QED
      BY <3>1, CameSimply DEF Idle
  <2> QED
    BY <2>1, <2>2, <2>3
<1>10. ASSUME NEW r \in Requests, FinishRegistration(r) PROVE Came(q)
  <2>1. CASE Leave(r)
    BY <2>1, OneCame
  <2>2. ASSUME NEW p \in Passkeys, request' = [request EXCEPT ![r].step = "user", ![r].passkey = p]
        PROVE  Came(q)
    <3>1. CASE q = r
      <4>1. request'[q].step = "user"
        BY <2>2, <3>1 DEF RequestsOK, Locals
      <4> QED
        BY <1>10, <3>1, <4>1, Kinds DEF Came, At, Hurried, InSessionSteps
    <3>2. CASE q # r
      BY <2>2, <3>2, CameSimply DEF Kept, RequestsOK
    <3> QED
      BY <3>1, <3>2
  <2> QED
    BY <1>10, <2>1, <2>2 DEF FinishRegistration
<1>11. ASSUME NEW r \in Requests, CreateUser(r) \/ CreateCredential(r) \/ ConsumeToken(r) \/ ForgetExpiry(r) \/ WriteFails(r)
       PROVE  Came(q)
  <2>1. CASE Leave(r)
    BY <2>1, OneCame
  <2>2. ASSUME NEW s \in {"credential", "consume", "forget", "session"}, Go(r, s),
               s = "credential" => CreateUser(r)
        PROVE  Came(q)
    <3>1. CASE q = r
      <4>1. request'[q].step = s
        BY <2>2, <3>1 DEF Go, RequestsOK, Locals
      <4> QED
        BY <2>2, <3>1, <4>1, Kinds DEF Came, At, Hurried, InSessionSteps
    <3>2. CASE q # r
      BY <2>2, <3>2, CameSimply DEF Go, Kept, RequestsOK
    <3> QED
      BY <3>1, <3>2
  <2> QED
    BY <1>11, <2>1, <2>2 DEF CreateUser, CreateCredential, ConsumeToken, ForgetExpiry, WriteFails
<1> QED
  BY <1>1, <1>2, <1>3, <1>4, <1>5, <1>6, <1>7, <1>8, <1>9, <1>10, <1>11, <1>12 DEF Next

Watched == <<owner, passkeys, enrolments, asserted, enrolHash, enrolExpires>>

\* These write none of it.
LEMMA Bystanders ==
    /\ AskSignIn \/ AskEnrol \/ Crash \/ Advance => UNCHANGED Watched
    /\ \A r \in Requests :
          /\ SignIn(r) \/ SignInByCode(r) \/ InSession(r) \/ Expire(r) \/ Touch(r) => UNCHANGED Watched
          /\ Logout(r) \/ Revoke(r) \/ Refuse(r) \/ Ask(r) \/ Raise(r) => UNCHANGED Watched
          /\ Admit(r) \/ Act(r) \/ AddPasskey(r) \/ ChoosePasskey(r) => UNCHANGED Watched
          /\ ConfirmTOTP(r) \/ DisableTOTP(r) \/ GenerateEnrolToken(r) => UNCHANGED Watched
          /\ Enrol(r) \/ FinishRegistration(r) \/ WriteFails(r) => UNCHANGED Watched
<1>1. AskSignIn \/ AskEnrol \/ Crash \/ Advance => UNCHANGED Watched
  BY DEF Watched, observers, account, enrolment, AskSignIn, AskEnrol, Crash, Advance
<1>2. ASSUME NEW r \in Requests
      PROVE  SignIn(r) \/ SignInByCode(r) \/ InSession(r) \/ Expire(r) \/ Touch(r) => UNCHANGED Watched
  BY DEF Watched, observers, account, enrolment, SignIn, SignInByCode, InSession, Expire, Touch
<1>3. ASSUME NEW r \in Requests
      PROVE  Logout(r) \/ Revoke(r) \/ Refuse(r) \/ Ask(r) \/ Raise(r) => UNCHANGED Watched
  BY DEF Watched, observers, account, enrolment, Logout, Revoke, Refuse, Ask, Raise
<1>4. ASSUME NEW r \in Requests
      PROVE  Admit(r) \/ Act(r) \/ AddPasskey(r) \/ ChoosePasskey(r) => UNCHANGED Watched
  BY DEF Watched, observers, account, enrolment, Admit, Act, AddPasskey, ChoosePasskey
<1>5. ASSUME NEW r \in Requests
      PROVE  ConfirmTOTP(r) \/ DisableTOTP(r) \/ GenerateEnrolToken(r) => UNCHANGED Watched
  BY DEF Watched, observers, account, enrolment, ConfirmTOTP, DisableTOTP, GenerateEnrolToken
<1>6. ASSUME NEW r \in Requests
      PROVE  Enrol(r) \/ FinishRegistration(r) \/ WriteFails(r) => UNCHANGED Watched
  BY DEF Watched, observers, account, enrolment, Enrol, FinishRegistration, WriteFails
<1> QED
  BY <1>1, <1>2, <1>3, <1>4, <1>5, <1>6

\* What the others leave alone.
LEMMA WritersWrite ==
    \A r \in Requests :
       /\ CreateSession(r) \/ StepUp(r) => UNCHANGED <<owner, passkeys, enrolments, enrolHash, enrolExpires>>
       /\ StorePasskey(r) \/ DeletePasskey(r) => UNCHANGED <<owner, enrolments, asserted, enrolHash, enrolExpires>>
       /\ CreateUser(r) => UNCHANGED <<passkeys, enrolments, asserted, enrolHash, enrolExpires>>
       /\ CreateCredential(r) => UNCHANGED <<owner, asserted, enrolHash, enrolExpires>>
       /\ ConsumeToken(r) \/ ForgetExpiry(r) => UNCHANGED <<owner, passkeys, enrolments, asserted>>
       /\ \A key \in {"hash", "expires"} : WriteToken(r, key) => UNCHANGED <<owner, passkeys, enrolments, asserted>>
<1> SUFFICES ASSUME NEW r \in Requests
             PROVE  /\ CreateSession(r) \/ StepUp(r) => UNCHANGED <<owner, passkeys, enrolments, enrolHash, enrolExpires>>
                    /\ StorePasskey(r) \/ DeletePasskey(r) =>
                          UNCHANGED <<owner, enrolments, asserted, enrolHash, enrolExpires>>
                    /\ CreateUser(r) => UNCHANGED <<passkeys, enrolments, asserted, enrolHash, enrolExpires>>
                    /\ CreateCredential(r) => UNCHANGED <<owner, asserted, enrolHash, enrolExpires>>
                    /\ ConsumeToken(r) \/ ForgetExpiry(r) => UNCHANGED <<owner, passkeys, enrolments, asserted>>
                    /\ \A key \in {"hash", "expires"} :
                          WriteToken(r, key) => UNCHANGED <<owner, passkeys, enrolments, asserted>>
  OBVIOUS
<1>1. CreateSession(r) \/ StepUp(r) => UNCHANGED <<owner, passkeys, enrolments, enrolHash, enrolExpires>>
  BY DEF CreateSession, StepUp, account, enrolment
<1>2. StorePasskey(r) \/ DeletePasskey(r) => UNCHANGED <<owner, enrolments, asserted, enrolHash, enrolExpires>>
  BY DEF StorePasskey, DeletePasskey, enrolment, observers
<1>3. CreateUser(r) => UNCHANGED <<passkeys, enrolments, asserted, enrolHash, enrolExpires>>
  BY DEF CreateUser, enrolment, observers
<1>4. CreateCredential(r) => UNCHANGED <<owner, asserted, enrolHash, enrolExpires>>
  BY DEF CreateCredential, enrolment
<1>5. ConsumeToken(r) \/ ForgetExpiry(r) => UNCHANGED <<owner, passkeys, enrolments, asserted>>
  BY DEF ConsumeToken, ForgetExpiry, account, observers
<1>6. \A key \in {"hash", "expires"} : WriteToken(r, key) => UNCHANGED <<owner, passkeys, enrolments, asserted>>
  BY DEF WriteToken, account
<1> QED
  BY <1>1, <1>2, <1>3, <1>4, <1>5, <1>6

\* Who writes what.
LEMMA Writers ==
    ASSUME Next
    PROVE  /\ UNCHANGED owner \/ \E r \in Requests : CreateUser(r)
           /\ UNCHANGED enrolments \/ \E r \in Requests : CreateCredential(r)
           /\ \/ UNCHANGED passkeys
              \/ \E r \in Requests : StorePasskey(r) \/ CreateCredential(r) \/ DeletePasskey(r)
           /\ UNCHANGED asserted \/ \E r \in Requests : CreateSession(r) \/ StepUp(r)
           /\ \/ UNCHANGED <<enrolHash, enrolExpires>>
              \/ \E r \in Requests :
                    \/ ConsumeToken(r) \/ ForgetExpiry(r)
                    \/ \E key \in {"hash", "expires"} : WriteToken(r, key)
<1> DEFINE ByUser == \E r \in Requests : CreateUser(r)
           ByCredential == \E r \in Requests : CreateCredential(r)
           ByKey == \E r \in Requests : StorePasskey(r) \/ CreateCredential(r) \/ DeletePasskey(r)
           ByProof == \E r \in Requests : CreateSession(r) \/ StepUp(r)
           ByToken == \E r \in Requests : \/ ConsumeToken(r) \/ ForgetExpiry(r)
                                          \/ \E key \in {"hash", "expires"} : WriteToken(r, key)
           Traced == /\ UNCHANGED owner \/ ByUser
                     /\ UNCHANGED enrolments \/ ByCredential
                     /\ UNCHANGED passkeys \/ ByKey
                     /\ UNCHANGED asserted \/ ByProof
                     /\ UNCHANGED <<enrolHash, enrolExpires>> \/ ByToken
<1>1. CASE UNCHANGED Watched
  BY <1>1 DEF Watched
<1>2. ASSUME NEW r \in Requests, CreateSession(r) \/ StepUp(r) PROVE Traced
  <2>1. ByProof
    BY <1>2
  <2> QED
    BY <1>2, <2>1, WritersWrite
<1>3. ASSUME NEW r \in Requests, StorePasskey(r) \/ DeletePasskey(r) PROVE Traced
  <2>1. ByKey
    BY <1>3
  <2> QED
    BY <1>3, <2>1, WritersWrite
<1>4. ASSUME NEW r \in Requests, CreateUser(r) PROVE Traced
  <2>1. ByUser
    BY <1>4
  <2> QED
    BY <1>4, <2>1, WritersWrite
<1>5. ASSUME NEW r \in Requests, CreateCredential(r) PROVE Traced
  <2>1. ByCredential /\ ByKey
    BY <1>5
  <2> QED
    BY <1>5, <2>1, WritersWrite
<1>6. ASSUME NEW r \in Requests,
             ConsumeToken(r) \/ ForgetExpiry(r) \/ \E key \in {"hash", "expires"} : WriteToken(r, key)
      PROVE  Traced
  <2>1. ByToken
    BY <1>6
  <2> QED
    BY <1>6, <2>1, WritersWrite
<1>7. \/ UNCHANGED Watched
      \/ \E r \in Requests :
            \/ CreateSession(r) \/ StepUp(r) \/ StorePasskey(r) \/ DeletePasskey(r)
            \/ CreateUser(r) \/ CreateCredential(r) \/ ConsumeToken(r) \/ ForgetExpiry(r)
            \/ \E key \in {"hash", "expires"} : WriteToken(r, key)
  BY Bystanders DEF Next
<1> HIDE DEF ByUser, ByCredential, ByKey, ByProof, ByToken
<1>8. Traced
  BY <1>1, <1>2, <1>3, <1>4, <1>5, <1>6, <1>7
<1> QED
  BY <1>8 DEF ByUser, ByCredential, ByKey, ByProof, ByToken

\* What never goes back.
LEMMA Onwards ==
    ASSUME TypeOK, Next
    PROVE  /\ clock <= clock' /\ clock \in Nat /\ clock' \in Nat
           /\ raced => raced'
           /\ faults > 0 => faults' > 0
           /\ owner => owner'
<1>1. clock \in Nat /\ faults \in Nat
  BY Sizes DEF TypeOK, ObserversOK, Times
<1>2. clock' = clock \/ clock' = clock + 1
  BY Movers DEF Moved, Advance
<1>3. (raced => raced') /\ (faults' = faults \/ faults' = faults + 1)
  BY Movers DEF Moved, Advance, observers
<1>4. owner => owner'
  BY Writers DEF CreateUser, Insertable
<1> QED
  BY <1>1, <1>2, <1>3, <1>4

-----------------------------------------------------------------------------
(* One enrolment. *)

\* While an enrolment has the owner and not the passkey yet, it is the only one,
\* and none has been finished: the owner is made once.
OneEnrolment ==
    /\ enrolments \in 0..1
    /\ enrolments = 1 => owner
    /\ \A r \in Requests :
          At(r, "credential") =>
              /\ owner /\ enrolments = 0
              /\ \A q \in Requests : At(q, "credential") => q = r

LEMMA OneEnrolmentStep ==
    ASSUME TypeOK, LocalsAgree, OneEnrolment, Next
    PROVE  OneEnrolment'
<1>1. ASSUME NEW r \in Requests, CreateUser(r), ~owner PROVE OneEnrolment'
  <2>1. \A q \in Requests : ~At(q, "credential") /\ enrolments = 0
    BY <1>1 DEF OneEnrolment
  <2>2. \A q \in Requests : At(q, "credential")' => q = r
    BY <1>1, <2>1 DEF CreateUser, Insertable, Go, Leave, TypeOK, RequestsOK, At
  <2>3. owner' /\ enrolments' = 0
    BY <1>1, <2>1 DEF CreateUser, Insertable, observers, OneEnrolment
  <2> QED
    BY <2>2, <2>3 DEF OneEnrolment
<1>2. ASSUME NEW r \in Requests, CreateCredential(r) PROVE OneEnrolment'
  <2>1. owner /\ enrolments = 0 /\ \A q \in Requests : At(q, "credential") => q = r
    BY <1>2 DEF OneEnrolment, CreateCredential
  <2>2. \A q \in Requests : ~At(q, "credential")'
    BY <1>2, <2>1 DEF CreateCredential, Go, TypeOK, RequestsOK, Locals, At
  <2>3. owner' /\ enrolments' = 1
    BY <1>2, <2>1 DEF CreateCredential
  <2> QED
    BY <2>2, <2>3 DEF OneEnrolment
<1>3. ASSUME ~\E r \in Requests : (CreateUser(r) /\ ~owner) \/ CreateCredential(r) PROVE OneEnrolment'
  <2>1. UNCHANGED <<owner, enrolments>>
    BY <1>3, Writers DEF CreateUser, Insertable
  <2>2. ASSUME NEW q \in Requests, At(q, "credential")' PROVE At(q, "credential")
    <3>1. Kept(q) \/ CreateUser(q)
      BY <2>2, Arrivals DEF Came
    <3>2. CASE CreateUser(q)
      BY <1>3, <2>2, <3>2 DEF CreateUser, Insertable, Leave, Idle, TypeOK, RequestsOK, At
    <3> QED
      BY <2>2, <3>1, <3>2 DEF Kept, At
  <2> QED
    BY <2>1, <2>2 DEF OneEnrolment
<1> QED
  BY <1>1, <1>2, <1>3

\* Only one enrolment ever registers a passkey, even if several are under way
\* with the same token.
THEOREM OnlyOneEnrols == Spec => []EnrolledOnce
<1>1. Init => OneEnrolment
  BY DEF Init, OneEnrolment, At, Idle
<1>2. TypeOK /\ LocalsAgree /\ OneEnrolment /\ [Next]_vars => OneEnrolment'
  <2>1. OneEnrolment /\ UNCHANGED vars => OneEnrolment'
    BY DEF OneEnrolment, vars, account, observers, At
  <2> QED
    BY <2>1, OneEnrolmentStep
<1>3. OneEnrolment => EnrolledOnce
  BY DEF OneEnrolment, EnrolledOnce
<1> QED
  BY <1>1, <1>2, <1>3, TypesCorrect, PTL DEF Spec

-----------------------------------------------------------------------------
(* A passkey that is left. *)

\* A request that has chosen a passkey to remove leaves another one.
OneLeft ==
    \A r \in Requests : At(r, "delete") => raced \/ passkeys \ {request[r].passkey} # {}

LEMMA OneLeftStep ==
    ASSUME TypeOK, LocalsAgree, OneLeft, Next
    PROVE  OneLeft'
<1> SUFFICES ASSUME NEW q \in Requests, At(q, "delete")', ~raced'
             PROVE  passkeys' \ {request'[q].passkey} # {}
  BY DEF OneLeft
<1>1. CASE ChoosePasskey(q)
  <2>1. PICK p \in Passkeys :
           Removable(p) /\ request' = [request EXCEPT ![q].step = "delete", ![q].passkey = p]
    BY <1>1 DEF ChoosePasskey
  <2>2. request'[q].passkey = p /\ passkeys' = passkeys
    BY <1>1, <2>1 DEF ChoosePasskey, account, TypeOK, RequestsOK, Locals
  <2>3. passkeys \ {p} = {} => passkeys = {p}
    BY <2>1 DEF Removable
  <2>4. Cardinality({p}) = 1
    BY FS_Singleton
  <2> QED
    BY <2>1, <2>2, <2>3, <2>4 DEF Removable
<1>2. CASE Kept(q)
  <2>1. At(q, "delete") /\ request'[q].passkey = request[q].passkey /\ ~raced
    BY <1>2, Onwards DEF Kept, At
  <2>2. passkeys \ {request[q].passkey} # {}
    BY <2>1 DEF OneLeft
  <2>3. ASSUME NEW r \in Requests, DeletePasskey(r) PROVE FALSE
    <3>1. r # q
      BY <1>2, <2>1, <2>3 DEF DeletePasskey, Leave, Idle, Kept, At, TypeOK, RequestsOK
    <3> QED
      BY <2>1, <2>3, <3>1 DEF DeletePasskey
  <2>4. passkeys \subseteq passkeys'
    BY <2>3, Writers DEF StorePasskey, CreateCredential
  <2> QED
    BY <2>1, <2>2, <2>4
<1> QED
  BY <1>1, <1>2, Arrivals DEF Came

\* Where a request that has made the owner goes to.
LEMMA Departures ==
    ASSUME TypeOK, LocalsAgree, Next, NEW q \in Requests, At(q, "credential")
    PROVE  At(q, "credential")' \/ CreateCredential(q) \/ WriteFails(q) \/ Crash
<1>1. ASSUME NEW r \in Requests \ {q}, NEW key, WriteToken(r, key) PROVE At(q, "credential")'
  BY <1>1 DEF WriteToken, At, TypeOK, RequestsOK, Locals
<1>2. ASSUME NEW key, WriteToken(q, key) PROVE FALSE
  BY <1>2 DEF WriteToken, WritesNow, At
<1>3. CASE AskSignIn \/ AskEnrol \/ Advance
  BY <1>3 DEF AskSignIn, AskEnrol, Advance, At
<1>4. ASSUME NEW r \in Requests \ {q},
             \/ SignIn(r) \/ SignInByCode(r) \/ CreateSession(r) \/ InSession(r) \/ Expire(r)
             \/ Touch(r) \/ Logout(r) \/ Revoke(r) \/ Refuse(r) \/ Ask(r) \/ StepUp(r)
             \/ Raise(r) \/ Admit(r) \/ Act(r) \/ AddPasskey(r) \/ StorePasskey(r) \/ ChoosePasskey(r)
             \/ DeletePasskey(r) \/ ConfirmTOTP(r) \/ DisableTOTP(r) \/ GenerateEnrolToken(r)
             \/ Enrol(r) \/ FinishRegistration(r) \/ CreateUser(r) \/ CreateCredential(r)
             \/ ConsumeToken(r) \/ ForgetExpiry(r) \/ WriteFails(r)
      PROVE  request'[q] = request[q]
  BY <1>4 DEF SignIn, SignInByCode, CreateSession, InSession, Expire, Touch, Logout, Revoke, Refuse, Ask,
     StepUp, Raise, Admit, Act, AddPasskey, StorePasskey, ChoosePasskey, DeletePasskey, ConfirmTOTP,
     DisableTOTP, GenerateEnrolToken, Enrol, FinishRegistration, CreateUser, CreateCredential,
     ConsumeToken, ForgetExpiry, WriteFails, Enter, Go, Leave, TypeOK, RequestsOK
<1>5. Idle.step = "idle"
  BY DEF Idle
<1>6. ASSUME \/ SignIn(q) \/ SignInByCode(q) \/ CreateSession(q) \/ InSession(q) \/ Expire(q)
             \/ Touch(q) \/ Logout(q) \/ Revoke(q) \/ Refuse(q) \/ Ask(q) \/ StepUp(q)
             \/ Raise(q) \/ Admit(q) \/ Act(q) \/ AddPasskey(q) \/ StorePasskey(q) \/ ChoosePasskey(q)
             \/ DeletePasskey(q) \/ ConfirmTOTP(q) \/ DisableTOTP(q) \/ GenerateEnrolToken(q)
             \/ Enrol(q) \/ FinishRegistration(q) \/ CreateUser(q) \/ ConsumeToken(q)
             \/ ForgetExpiry(q)
      PROVE  request'[q] = request[q]
  <2>1. ~At(q, "idle") /\ request[q] # Idle /\ request[q].step \notin Guarded \cup Plain
    BY <1>5, Kinds DEF At
  <2> QED
    BY <1>6, <2>1 DEF SignIn, SignInByCode, CreateSession, InSession, Expire, Touch, Logout, Revoke, Refuse, Ask,
     StepUp, Raise, Admit, Act, AddPasskey, StorePasskey, ChoosePasskey, DeletePasskey, ConfirmTOTP,
     DisableTOTP, GenerateEnrolToken, Enrol, FinishRegistration, CreateUser, CreateCredential,
     ConsumeToken, ForgetExpiry, WriteFails, Enter, At, Guarded, Plain
<1> QED
  BY <1>1, <1>2, <1>3, <1>4, <1>6 DEF Next, At

LEMMA OwnerStep ==
    ASSUME TypeOK, LocalsAgree, OneLeft, OwnerCanSignIn, Next
    PROVE  OwnerCanSignIn'
<1> SUFFICES ASSUME owner', ~raced', ~(faults' > 0)
             PROVE  passkeys' # {} \/ \E r \in Requests : At(r, "credential")'
  BY DEF OwnerCanSignIn
<1>1. ~raced /\ ~(faults > 0)
  BY Onwards
<1>2. ASSUME NEW r \in Requests, CreateUser(r), ~owner PROVE At(r, "credential")'
  BY <1>2 DEF CreateUser, Insertable, Go, At, TypeOK, RequestsOK, Locals
<1>3. ASSUME NEW r \in Requests, StorePasskey(r) \/ CreateCredential(r) PROVE passkeys' # {}
  BY <1>3 DEF StorePasskey, CreateCredential
<1>4. ASSUME NEW r \in Requests, DeletePasskey(r) PROVE passkeys' # {}
  BY <1>1, <1>4 DEF DeletePasskey, OneLeft
<1>5. CASE owner /\ UNCHANGED passkeys
  <2>1. CASE passkeys # {}
    BY <1>5, <2>1
  <2>2. ASSUME NEW r \in Requests, At(r, "credential"), ~CreateCredential(r) PROVE At(r, "credential")'
    BY <2>2, Departures, Sizes DEF WriteFails, Crash, TypeOK, ObserversOK
  <2> QED
    BY <1>1, <1>3, <1>5, <2>1, <2>2 DEF OwnerCanSignIn
<1> QED
  BY <1>2, <1>3, <1>4, <1>5, Writers

\* An owner always has a passkey to sign in with, from the enrolment on, as long
\* as no two requests race (raced) and nothing fails in between.
THEOREM OwnersSignIn == Spec => []OwnerCanSignIn
<1>1. Init => OneLeft /\ OwnerCanSignIn
  BY DEF Init, OneLeft, OwnerCanSignIn, At, Idle
<1>2. TypeOK /\ LocalsAgree /\ OneLeft /\ OwnerCanSignIn /\ [Next]_vars => OneLeft' /\ OwnerCanSignIn'
  <2>1. OneLeft /\ OwnerCanSignIn /\ UNCHANGED vars => OneLeft' /\ OwnerCanSignIn'
    BY DEF OneLeft, OwnerCanSignIn, vars, account, observers, At
  <2> QED
    BY <2>1, OneLeftStep, OwnerStep
<1> QED
  BY <1>1, <1>2, TypesCorrect, PTL DEF Spec

-----------------------------------------------------------------------------
(* Step-ups are of the session in which a passkey was asserted. *)

\* A session that is stepped up had a passkey asserted in it that recently.
Covers(until, token) ==
    until # None => asserted[token] # None /\ until <= asserted[token] + StepUpDuration + Patience

\* A request on its way from an assertion or a check is no longer on it than
\* Patience, and was right to set out.
OnItsWay(r) ==
    /\ Hurried(r) => request[r].now <= clock /\ clock <= request[r].now + Patience
    /\ At(r, "raise") => asserted[request[r].token] # None /\ request[r].now <= asserted[request[r].token]
    /\ request[r].step \in Guarded \cup {"store", "delete"} => HasStepUp(request[r].session, request[r].now)

\* The same of what a request has read of it, however long ago.
StepUpsCovered ==
    /\ \A token \in DOMAIN sessions :
          /\ sessions[token] # None => Covers(sessions[token].stepup, token)
          /\ asserted[token] # None => asserted[token] <= clock
    /\ \A r \in Requests :
          /\ request[r].step \in InSessionSteps => Covers(request[r].session.stepup, request[r].token)
          /\ OnItsWay(r)

\* An assertion in a session is only followed by later ones.
LEMMA AssertionsKept ==
    ASSUME TypeOK, LocalsAgree, StepUpsCovered, Next
    PROVE  \A token \in DOMAIN sessions :
              /\ asserted[token] # None => asserted'[token] # None /\ asserted[token] <= asserted'[token]
              /\ asserted'[token] # None => asserted'[token] <= clock'
<1> SUFFICES ASSUME NEW token \in DOMAIN sessions
             PROVE  /\ asserted[token] # None => asserted'[token] # None /\ asserted[token] <= asserted'[token]
                    /\ asserted'[token] # None => asserted'[token] <= clock'
  OBVIOUS
<1>1. /\ token \in DOMAIN asserted /\ asserted[token] \in Times \cup {None}
      /\ asserted[token] # None => asserted[token] <= clock
  BY DEF TypeOK, SessionsOK, StepUpsCovered
<1>2. clock \in Nat /\ clock' \in Nat /\ clock <= clock'
  BY Onwards
<1>3. asserted'[token] = asserted[token] \/ asserted'[token] = clock
  <2>1. ASSUME NEW r \in Requests, CreateSession(r) PROVE asserted'[token] = asserted[token]
    BY <1>1, <2>1, RowAdded DEF CreateSession, TypeOK, SessionsOK
  <2>2. ASSUME NEW r \in Requests, StepUp(r) PROVE asserted'[token] = asserted[token] \/ asserted'[token] = clock
    BY <1>1, <2>2 DEF StepUp, TypeOK, SessionsOK
  <2> QED
    BY <2>1, <2>2, Writers
<1> QED
  BY <1>1, <1>2, <1>3, Sizes DEF Times

LEMMA CoversKept ==
    ASSUME TypeOK, LocalsAgree, StepUpsCovered, Next, NEW token \in DOMAIN sessions,
           NEW until \in Nat \cup {None}, Covers(until, token)
    PROVE  Covers(until, token)'
<1>1. asserted[token] \in Times \cup {None}
  BY DEF TypeOK, SessionsOK
<1>2. until # None => /\ asserted[token] # None /\ until <= asserted[token] + StepUpDuration + Patience
                      /\ asserted'[token] # None /\ asserted[token] <= asserted'[token]
                      /\ asserted'[token] <= clock'
  BY AssertionsKept DEF Covers
<1>3. asserted'[token] \in Times \cup {None}
  <2>1. token \in DOMAIN sessions' /\ SessionsOK'
    BY TypeStep, SessionsStep DEF TypeOK, SessionsKept
  <2> QED
    BY <2>1 DEF SessionsOK
<1> QED
  BY <1>1, <1>2, <1>3, Sizes DEF Covers, Times

\* Only the passing of time moves the clock.
LEMMA ClockWriter == ASSUME Next PROVE Advance \/ clock' = clock
  BY Movers DEF Moved

\* A request stays on its way only as long as the clock allows.
LEMMA OnItsWayStep ==
    ASSUME TypeOK, LocalsAgree, StepUpsCovered, Next, NEW q \in Requests
    PROVE  OnItsWay(q)'
<1>1. /\ clock \in Nat /\ Patience \in Nat /\ clock <= clock' /\ clock' \in Nat
      /\ request[q].now \in Nat /\ OnItsWay(q)
  BY Onwards, Sizes DEF TypeOK, RequestsOK, Locals, Times, StepUpsCovered
<1>2. Hurried(q) => clock' <= request[q].now + Patience
  <2>1. CASE Advance
    BY <1>1, <2>1 DEF Advance
  <2>2. CASE clock' = clock
    BY <1>1, <2>2 DEF OnItsWay
  <2> QED
    BY <2>1, <2>2, ClockWriter
<1>3. CASE Hurried(q) /\ Kept(q)
  <2>1. At(q, "raise") => request[q].token \in DOMAIN sessions
    BY DEF LocalsAgree, Agrees, At, InSessionSteps
  <2>2. At(q, "raise") => asserted'[request[q].token] # None /\ request[q].now <= asserted'[request[q].token]
    <3>1. SUFFICES ASSUME At(q, "raise")
                   PROVE  asserted'[request[q].token] # None /\ request[q].now <= asserted'[request[q].token]
      OBVIOUS
    <3> DEFINE token == request[q].token
    <3>2. /\ token \in DOMAIN sessions /\ asserted[token] # None /\ request[q].now <= asserted[token]
      BY <1>1, <2>1, <3>1 DEF OnItsWay
    <3>3. asserted'[token] # None /\ asserted[token] <= asserted'[token]
      BY <3>2, AssertionsKept
    <3>4. asserted[token] \in Nat /\ asserted'[token] \in Nat
      BY <3>2, <3>3, Sizes, TypeStep, SessionsStep DEF TypeOK, SessionsOK, SessionsKept, Times
    <3> QED
      BY <1>1, <3>2, <3>3, <3>4
  <2> QED
    BY <1>1, <1>2, <1>3, <2>2 DEF OnItsWay, Kept, Hurried, At, HasStepUp
<1>4. CASE StepUp(q)
  <2>1. /\ request'[q].step = "raise" /\ request'[q].now = clock /\ clock' = clock
        /\ request'[q].token = request[q].token
    BY <1>4 DEF StepUp, TypeOK, RequestsOK, Locals
  <2>2. request[q].token \in DOMAIN asserted
    BY <1>4 DEF StepUp, At, LocalsAgree, Agrees, InSessionSteps, Plain, TypeOK, SessionsOK
  <2>3. asserted'[request[q].token] = clock
    BY <1>4, <2>2 DEF StepUp
  <2> QED
    BY <1>1, <2>1, <2>3, Sizes DEF OnItsWay, Hurried, At, Guarded
<1>5. CASE Admit(q)
  <2>1. /\ request'[q].step = request[q].kind /\ request'[q].now = clock /\ clock' = clock
        /\ request'[q].session = request[q].session
    BY <1>5 DEF Admit, TypeOK, RequestsOK, Locals
  <2>2. request[q].kind \in Guarded /\ HasStepUp(request[q].session, clock)
    BY <1>5 DEF Admit, At, LocalsAgree, Agrees
  <2> QED
    BY <1>1, <2>1, <2>2 DEF OnItsWay, Hurried, At, Guarded, HasStepUp
<1>6. CASE /\ request[q].step \in Guarded /\ request'[q].step \in {"store", "delete"}
           /\ request'[q].token = request[q].token /\ request'[q].session = request[q].session
           /\ request'[q].now = request[q].now
  BY <1>1, <1>2, <1>6 DEF OnItsWay, Hurried, At, HasStepUp
<1>7. CASE ~Hurried(q)'
  BY <1>7 DEF OnItsWay, Hurried, At
<1>8. Kept(q) /\ Hurried(q)' => Hurried(q)
  BY DEF Kept, Hurried
<1> QED
  BY <1>3, <1>4, <1>5, <1>6, <1>7, <1>8, Arrivals DEF Came

LEMMA StepUpsStep ==
    ASSUME TypeOK, LocalsAgree, StepUpsCovered, Next
    PROVE  StepUpsCovered'
<1>1. TypeOK' /\ LocalsAgree'
  BY TypeStep, LocalsStep
<1>2. ASSUME NEW token \in DOMAIN sessions'
      PROVE  /\ sessions'[token] # None => Covers(sessions[token].stepup, token)'
             /\ asserted'[token] # None => asserted'[token] <= clock'
  <2>1. CASE token \in DOMAIN sessions
    <3>1. asserted'[token] # None => asserted'[token] <= clock'
      BY <2>1, AssertionsKept
    <3>2. ASSUME sessions'[token] # None PROVE Covers(sessions[token].stepup, token)'
      <4>1. /\ sessions[token] # None /\ sessions[token] \in Session
            /\ Covers(sessions[token].stepup, token) /\ sessions[token].stepup \in Nat \cup {None}
        BY <2>1, <3>2, SessionsStep, Sizes DEF SessionsKept, StepUpsCovered, TypeOK, SessionsOK, Session
      <4>2. CASE sessions'[token].stepup = sessions[token].stepup
        <5>1. \A until \in Nat \cup {None} : Covers(until, token) => Covers(until, token)'
          BY <2>1, CoversKept
        <5> QED
          BY <4>1, <4>2, <5>1 DEF Covers
      <4>3. ASSUME NEW r \in Requests, Raise(r), request[r].token = token, Known(token)
            PROVE  Covers(sessions[token].stepup, token)'
        <5>1. PICK now \in request[r].now..clock : sessions' = Raised(token, now + StepUpDuration)
          BY <4>3 DEF Raise
        <5>2. sessions'[token].stepup = now + StepUpDuration
          BY <2>1, <4>1, <4>3, <5>1 DEF Raised, TypeOK, SessionsOK, Session
        <5>3. /\ asserted[token] # None /\ request[r].now <= asserted[token]
              /\ clock <= request[r].now + Patience /\ asserted' = asserted
          BY <4>3 DEF StepUpsCovered, OnItsWay, Hurried, Raise, At, observers
        <5>4. clock \in Nat /\ request[r].now \in Nat /\ asserted[token] \in Nat
          BY <2>1, <5>3, Sizes, Onwards DEF TypeOK, SessionsOK, RequestsOK, Locals, Times
        <5>5. now <= asserted[token] + Patience /\ now \in Nat
          BY <5>3, <5>4, Sizes
        <5> QED
          BY <5>2, <5>3, <5>4, <5>5, Sizes DEF Covers
      <4>4. ASSUME sessions'[token].stepup # sessions[token].stepup
            PROVE  \E r \in Requests : Raise(r) /\ request[r].token = token /\ Known(token)
        BY <2>1, <3>2, <4>1, <4>4, SessionsStep DEF SessionsKept, Known
      <4> QED
        BY <4>2, <4>3, <4>4
    <3> QED
      BY <3>1, <3>2
  <2>2. CASE token \notin DOMAIN sessions
    <3>1. sessions'[token] = NewSession(clock) /\ asserted'[token] = None
      BY <2>2, SessionsStep DEF SessionsKept
    <3>2. sessions'[token].stepup = None
      BY <3>1 DEF NewSession
    <3> QED
      BY <3>1, <3>2 DEF Covers
  <2> QED
    BY <2>1, <2>2
<1>3. ASSUME NEW q \in Requests, request'[q].step \in InSessionSteps
      PROVE  Covers(request[q].session.stepup, request[q].token)'
  <2>1. CASE InSession(q)
    <3>1. PICK token \in DOMAIN sessions :
             /\ sessions[token] # None /\ request'[q].token = token /\ request'[q].session = sessions[token]
      BY <2>1 DEF InSession, Enter, Known, Idle, RequestsOK, TypeOK
    <3>2. Covers(sessions[token].stepup, token) /\ sessions[token].stepup \in Nat \cup {None}
      BY <3>1, Sizes DEF StepUpsCovered, TypeOK, SessionsOK, Session
    <3> QED
      BY <3>1, <3>2, CoversKept
  <2>2. CASE /\ request[q].step \in InSessionSteps
             /\ request'[q].token = request[q].token /\ request'[q].session = request[q].session
    <3>1. /\ request[q].token \in DOMAIN sessions /\ request[q].session.stepup \in Nat \cup {None}
          /\ Covers(request[q].session.stepup, request[q].token)
      BY <2>2, Sizes DEF LocalsAgree, Agrees, Session, StepUpsCovered
    <3>2. \A token \in DOMAIN sessions, until \in Nat \cup {None} :
             Covers(until, token) => Covers(until, token)'
      BY CoversKept
    <3> QED
      BY <2>2, <3>1, <3>2
  <2> QED
    BY <1>3, <2>1, <2>2, Arrivals DEF Came
<1>4. ASSUME NEW q \in Requests PROVE OnItsWay(q)'
  BY <1>4, OnItsWayStep
<1> QED
  BY <1>2, <1>3, <1>4 DEF StepUpsCovered

\* What is guarded only takes effect within StepUpDuration of an assertion of a
\* passkey in the very same session, and the time that the request of the
\* assertion and the guarded one may take (requireStepUp and the handlers behind
\* it, handleStepUpFinish), for any overlap of requests.
THEOREM StepUpsAreFresh == Spec => FreshStepUp
<1>1. Init => StepUpsCovered
  <2> SUFFICES ASSUME Init PROVE StepUpsCovered
    OBVIOUS
  <2>1. \A r \in Requests : request[r].step = "idle"
    BY DEF Init, Idle
  <2>2. \A r \in Requests : request[r].step \notin InSessionSteps /\ OnItsWay(r)
    BY <2>1, Kinds DEF InSessionSteps, OnItsWay, Hurried, At, Guarded
  <2>3. CASE sessions = <<>>
    BY <2>2, <2>3 DEF StepUpsCovered
  <2>4. CASE /\ sessions = <<[created |-> 0, seen |-> 0, stepup |-> StepUpDuration]>>
             /\ asserted = <<0>> /\ clock = 0
    BY <2>2, <2>4, Sizes DEF StepUpsCovered, Covers
  <2> QED
    BY <2>3, <2>4 DEF Init
<1>2. TypeOK /\ LocalsAgree /\ StepUpsCovered /\ [Next]_vars => StepUpsCovered'
  <2>1. ASSUME StepUpsCovered, UNCHANGED vars PROVE StepUpsCovered'
    <3>1. UNCHANGED <<clock, sessions, asserted, request>>
      BY <2>1 DEF vars, observers
    <3> QED
      BY <2>1, <3>1 DEF StepUpsCovered, Covers, OnItsWay, Hurried, At, HasStepUp
  <2> QED
    BY <2>1, StepUpsStep
<1>3. ASSUME TypeOK, LocalsAgree, StepUpsCovered, NEW r \in Requests,
             Act(r) \/ StorePasskey(r) \/ DeletePasskey(r) \/ ConfirmTOTP(r) \/ DisableTOTP(r)
      PROVE  LET last == asserted[request[r].token]
             IN  last # None /\ clock < last + StepUpDuration + 2 * Patience
  <2>1. request[r].step \in Guarded \cup {"store", "delete"}
    BY <1>3 DEF Act, StorePasskey, DeletePasskey, ConfirmTOTP, DisableTOTP, At, Guarded
  <2>2. /\ clock <= request[r].now + Patience
        /\ request[r].session.stepup # None /\ request[r].session.stepup > request[r].now
    BY <1>3, <2>1 DEF StepUpsCovered, OnItsWay, Hurried, HasStepUp
  <2>3. /\ Covers(request[r].session.stepup, request[r].token)
        /\ request[r].session.stepup \in Nat \cup {None} /\ request[r].token \in DOMAIN asserted
    BY <1>3, <2>1, Sizes DEF StepUpsCovered, LocalsAgree, Agrees, InSessionSteps, Session, TypeOK, SessionsOK
  <2>4. /\ asserted[request[r].token] \in Nat \cup {None} /\ clock \in Nat
        /\ request[r].now \in Nat
    BY <1>3, <2>3, Sizes DEF TypeOK, SessionsOK, ObserversOK, RequestsOK, Locals, Times
  <2> DEFINE last == asserted[request[r].token]
             until == request[r].session.stepup
             now == request[r].now
  <2>5. last # None /\ until <= last + StepUpDuration + Patience
    BY <2>2, <2>3 DEF Covers
  <2>6. until \in Nat /\ last \in Nat /\ until > now /\ clock <= now + Patience
    BY <2>2, <2>3, <2>4, <2>5
  <2> HIDE DEF last, until, now
  <2>7. now \in Nat /\ clock \in Nat
    BY <2>4 DEF now
  <2>8. clock < last + StepUpDuration + 2 * Patience
    BY <2>5, <2>6, <2>7, Sizes
  <2> QED
    BY <2>5, <2>8 DEF last
<1>4. TypeOK /\ LocalsAgree /\ StepUpsCovered =>
         [\A r \in Requests :
            Act(r) \/ StorePasskey(r) \/ DeletePasskey(r) \/ ConfirmTOTP(r) \/ DisableTOTP(r) =>
                LET last == asserted[request[r].token]
                IN  last # None /\ clock < last + StepUpDuration + 2 * Patience]_vars
  BY <1>3
<1> QED
  BY <1>1, <1>2, <1>4, TypesCorrect, PTL DEF Spec, FreshStepUp

-----------------------------------------------------------------------------
(* Enrolments are in time. *)

\* The expiry that is stored is not later than a token allows.
InTime(token) == enrolExpires = None \/ enrolExpires <= born[token] + EnrolTTL

\* The stored expiry is that of the stored token, or of one before it, while no
\* other is being written: at each step of a request that writes or reads one.
TokensInTime ==
    /\ enrolExpires # None => enrolExpires <= clock + EnrolTTL
    /\ enrolHash # None => raced \/ InTime(enrolHash)
    /\ \A r \in Requests :
          /\ request[r].step \in TokenSteps =>
                /\ request[r].now <= clock /\ born[request[r].token] = request[r].now
                /\ raced \/ InTime(request[r].token)
          /\ At(r, "second") => raced \/ enrolHash \in {None, request[r].token}
          /\ At(r, "expiry") => raced \/ request[r].overtaken \/ InTime(request[r].token)
          /\ At(r, "user") => \/ raced \/ request[r].overtaken
                              \/ request[r].now <= born[request[r].token] + EnrolTTL

\* Neither key is written but by the request whose turn it is; it is overtaking
\* those that read, and racing with others that write.
LEMMA TokenWrites ==
    ASSUME TypeOK, LocalsAgree, Next
    PROVE  \/ enrolHash' \in {enrolHash, None} /\ enrolExpires' \in {enrolExpires, None}
           \/ \E r \in Requests :
                 /\ \A q \in Requests \ {r} : request[q].step \in TokenSteps => raced'
                 /\ \A q \in Requests : At(q, "expiry") => request'[q].overtaken
                 /\ \/ At(r, "first") /\ enrolHash' = request[r].token /\ enrolExpires' = enrolExpires
                    \/ /\ At(r, "second") /\ ~At(r, "second")'
                       /\ enrolExpires' = request[r].now + EnrolTTL /\ enrolHash' = enrolHash
<1>1. ASSUME NEW r \in Requests, NEW key \in {"hash", "expires"}, WriteToken(r, key)
      PROVE  /\ \A q \in Requests \ {r} : request[q].step \in TokenSteps => raced'
             /\ \A q \in Requests : At(q, "expiry") => request'[q].overtaken
             /\ \/ At(r, "first") /\ enrolHash' = request[r].token /\ enrolExpires' = enrolExpires
                \/ /\ At(r, "second") /\ ~At(r, "second")'
                   /\ enrolExpires' = request[r].now + EnrolTTL /\ enrolHash' = enrolHash
  <2>1. (At(r, "first") /\ key = "hash") \/ (At(r, "second") /\ key = "expires")
    BY <1>1 DEF WriteToken, WritesNow, Writes, At
  <2>2. \A q \in Requests \ {r} : request[q].step \in TokenSteps => raced'
    BY <1>1 DEF WriteToken, TokenSteps, At
  <2>3. \A q \in Requests \ {r} : At(q, "expiry") => request'[q].overtaken
    BY <1>1 DEF WriteToken, TypeOK, RequestsOK, Locals
  <2>4. At(r, "second") => request'[r] = Idle
    BY <1>1 DEF WriteToken, At
  <2>5. Idle.step = "idle"
    BY DEF Idle
  <2> QED
    BY <1>1, <2>1, <2>2, <2>3, <2>4, <2>5 DEF WriteToken, At
<1>2. ASSUME NEW r \in Requests, ConsumeToken(r) \/ ForgetExpiry(r)
      PROVE  enrolHash' \in {enrolHash, None} /\ enrolExpires' \in {enrolExpires, None}
  BY <1>2 DEF ConsumeToken, ForgetExpiry
<1> QED
  BY <1>1, <1>2, Writers

LEMMA TokensInTimeStep ==
    ASSUME TypeOK, LocalsAgree, TokensInTime, Next
    PROVE  TokensInTime'
<1>1. /\ clock \in Nat /\ clock' \in Nat /\ clock <= clock' /\ (raced => raced')
      /\ EnrolTTL \in Nat /\ None \notin Nat
  BY Onwards, Sizes
<1>2. /\ enrolExpires \in Nat \cup {None} /\ enrolHash \in DOMAIN born \cup {None}
      /\ \A token \in DOMAIN born : born[token] \in Nat /\ token \in DOMAIN born' /\ born'[token] = born[token]
      /\ \A r \in Requests : request[r].now \in Nat
  BY TokensKept, Sizes DEF TypeOK, EnrolmentOK, Times, RequestsOK, Locals
<1>3. \A r \in Requests : request[r].step \in EnrolSteps \cup TokenSteps => request[r].token \in DOMAIN born
  BY DEF LocalsAgree, Agrees
<1>4. \A token \in DOMAIN born :
         InTime(token) /\ enrolExpires' \in {enrolExpires, None} => InTime(token)'
  BY <1>2 DEF InTime
<1>5. enrolExpires' # None => enrolExpires' <= clock' + EnrolTTL
  BY <1>1, <1>2, TokenWrites DEF TokensInTime, TokenSteps, At
<1>6. ASSUME enrolHash' # None, ~raced' PROVE InTime(enrolHash)'
  <2>1. CASE enrolHash' \in {enrolHash, None} /\ enrolExpires' \in {enrolExpires, None}
    BY <1>1, <1>2, <1>4, <1>6, <2>1 DEF TokensInTime, InTime
  <2>2. ASSUME NEW r \in Requests,
               At(r, "first"), enrolHash' = request[r].token, enrolExpires' = enrolExpires
        PROVE  InTime(enrolHash)'
    <3>1. InTime(request[r].token) /\ request[r].token \in DOMAIN born
      BY <1>1, <1>3, <1>6, <2>2 DEF TokensInTime, TokenSteps, At
    <3> QED
      BY <1>2, <2>2, <3>1 DEF InTime
  <2>3. ASSUME NEW r \in Requests, At(r, "second"),
               enrolExpires' = request[r].now + EnrolTTL, enrolHash' = enrolHash
        PROVE  InTime(enrolHash)'
    <3>1. enrolHash = request[r].token /\ born[request[r].token] = request[r].now
      BY <1>1, <1>6, <2>3 DEF TokensInTime, TokenSteps, At
    <3>2. request[r].token \in DOMAIN born
      BY <1>3, <2>3 DEF TokenSteps, At
    <3>3. enrolHash' = request[r].token /\ born'[request[r].token] = request[r].now
      BY <1>2, <2>3, <3>1, <3>2
    <3> QED
      BY <2>3, <3>3 DEF InTime
  <2> QED
    BY <2>1, <2>2, <2>3, TokenWrites
<1>7. ASSUME NEW q \in Requests, request'[q].step \in TokenSteps
      PROVE  /\ request'[q].now <= clock' /\ born'[request'[q].token] = request'[q].now
             /\ raced' \/ InTime(request[q].token)'
  <2>1. CASE GenerateEnrolToken(q)
    <3>1. /\ request'[q].now = clock /\ request'[q].token = Len(born') /\ born' = Append(born, clock)
          /\ UNCHANGED <<clock, enrolExpires>>
      BY <2>1 DEF GenerateEnrolToken, Enter, Idle, TypeOK, RequestsOK, enrolment
    <3>2. born'[Len(born')] = clock
      BY <3>1, RowAdded DEF TypeOK, EnrolmentOK, ObserversOK
    <3> QED
      BY <1>1, <1>2, <3>1, <3>2 DEF TokensInTime, InTime
  <2>2. CASE /\ request[q].step \in TokenSteps
             /\ request'[q].now = request[q].now /\ request'[q].token = request[q].token
             /\ At(q, "second") => At(q, "second")'
    <3>1. /\ request[q].now <= clock /\ born[request[q].token] = request[q].now
          /\ raced \/ InTime(request[q].token)
      BY <2>2 DEF TokensInTime
    <3>2. raced' \/ enrolExpires' \in {enrolExpires, None}
      BY <2>2, TokenWrites
    <3> QED
      BY <1>1, <1>2, <1>3, <2>2, <3>1, <3>2 DEF InTime
  <2>3. CASE Kept(q)
    BY <1>7, <2>2, <2>3 DEF Kept, At
  <2>4. CASE At(q, "first") /\ request'[q] = [request[q] EXCEPT !.step = "second"]
    <3>1. /\ request'[q].now = request[q].now /\ request'[q].token = request[q].token
          /\ request[q].step = "first"
      BY <2>4 DEF At, TypeOK, RequestsOK, Locals
    <3> QED
      BY <2>2, <3>1 DEF TokenSteps, At
  <2> QED
    BY <1>7, <2>1, <2>3, <2>4, Arrivals DEF Came, TokenSteps, At
<1>8. ASSUME NEW q \in Requests, At(q, "second")', ~raced' PROVE enrolHash' \in {None, request'[q].token}
  <2>1. CASE Kept(q)
    <3>1. At(q, "second") /\ request'[q].token = request[q].token
      BY <1>8, <2>1 DEF Kept, At
    <3>2. enrolHash' \in {enrolHash, None}
      BY <1>8, <3>1, TokenWrites DEF TokenSteps, At
    <3> QED
      BY <1>1, <1>8, <3>1, <3>2 DEF TokensInTime
  <2>2. CASE WriteToken(q, "hash") /\ request'[q] = [request[q] EXCEPT !.step = "second"]
    BY <2>2 DEF WriteToken, TypeOK, RequestsOK, Locals
  <2> QED
    BY <1>8, <2>1, <2>2, Arrivals DEF Came, Writes
<1>9. ASSUME NEW q \in Requests, At(q, "expiry")', ~raced', ~request'[q].overtaken PROVE InTime(request[q].token)'
  <2>1. CASE Enrol(q)
    <3>1. /\ request'[q].token = enrolHash /\ enrolHash \in DOMAIN born /\ UNCHANGED enrolExpires
      BY <2>1 DEF Enrol, Enter, Idle, Valid, TypeOK, RequestsOK, enrolment
    <3>2. enrolHash # None
      BY <3>1, Sizes DEF TypeOK, EnrolmentOK
    <3> QED
      BY <1>1, <1>2, <1>9, <3>1, <3>2 DEF TokensInTime, InTime
  <2>2. CASE Kept(q)
    <3>1. /\ At(q, "expiry") /\ request'[q].token = request[q].token /\ ~request[q].overtaken
          /\ request[q].token \in DOMAIN born
      BY <1>3, <1>9, <2>2 DEF Kept, At, EnrolSteps
    <3>2. enrolExpires' \in {enrolExpires, None}
      BY <1>9, <3>1, TokenWrites
    <3> QED
      BY <1>1, <1>2, <1>9, <3>1, <3>2 DEF TokensInTime, InTime
  <2> QED
    BY <1>9, <2>1, <2>2, Arrivals DEF Came
<1>10. ASSUME NEW q \in Requests, At(q, "user")', ~raced', ~request'[q].overtaken
       PROVE  request'[q].now <= born'[request'[q].token] + EnrolTTL
  <2>1. CASE FinishRegistration(q)
    <3>1. /\ At(q, "expiry") /\ Timely(request[q].now) /\ request[q].token \in DOMAIN born
          /\ request'[q].now = request[q].now /\ request'[q].token = request[q].token
          /\ request'[q].overtaken = request[q].overtaken
      BY <1>3, <1>10, <2>1 DEF FinishRegistration, Leave, Idle, At, EnrolSteps, TypeOK, RequestsOK, Locals
    <3>2. InTime(request[q].token)
      BY <1>1, <1>10, <3>1 DEF TokensInTime
    <3> QED
      BY <1>1, <1>2, <3>1, <3>2 DEF Timely, InTime
  <2>2. CASE Kept(q)
    <3>1. /\ At(q, "user") /\ request'[q].now = request[q].now /\ request'[q].token = request[q].token
          /\ ~request[q].overtaken /\ request[q].token \in DOMAIN born
      BY <1>3, <1>10, <2>2 DEF Kept, At, EnrolSteps
    <3> QED
      BY <1>1, <1>2, <1>10, <3>1 DEF TokensInTime
  <2> QED
    BY <1>10, <2>1, <2>2, Arrivals DEF Came
<1> QED
  BY <1>5, <1>6, <1>7, <1>8, <1>9, <1>10 DEF TokensInTime

\* The owner is only created with a token that was made no longer ago than
\* EnrolTTL when the request arrived, even if making another token failed
\* half-way; unless another token was written while the request read this one, or
\* two of them were written at the same time.
THEOREM EnrolmentsInTime == Spec => EnrolTimely
<1>1. Init => TokensInTime
  <2> SUFFICES ASSUME Init PROVE TokensInTime
    OBVIOUS
  <2>1. \A r \in Requests : request[r].step = "idle"
    BY DEF Init, Idle
  <2>2. (enrolHash = None /\ enrolExpires = None) \/ (enrolHash = 1 /\ enrolExpires = EnrolTTL /\ born = <<0>>)
    BY DEF Init
  <2>3. clock = 0
    BY DEF Init
  <2> QED
    BY <2>1, <2>2, <2>3, Sizes DEF TokensInTime, InTime, TokenSteps, At
<1>2. TypeOK /\ LocalsAgree /\ TokensInTime /\ [Next]_vars => TokensInTime'
  <2>1. ASSUME TokensInTime, UNCHANGED vars PROVE TokensInTime'
    <3>1. UNCHANGED <<clock, enrolHash, enrolExpires, born, raced, request>>
      BY <2>1 DEF vars, enrolment, observers
    <3> QED
      BY <2>1, <3>1 DEF TokensInTime, InTime, At
  <2> QED
    BY <2>1, TokensInTimeStep
<1>3. TokensInTime =>
         [\A r \in Requests :
            CreateUser(r) /\ owner' # owner =>
                raced \/ request[r].overtaken \/ request[r].now <= born[request[r].token] + EnrolTTL]_vars
  BY DEF TokensInTime, CreateUser
<1> QED
  BY <1>1, <1>2, <1>3, TypesCorrect, PTL DEF Spec, EnrolTimely
===============================================================================
