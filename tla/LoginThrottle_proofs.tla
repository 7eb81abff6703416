------------------------ MODULE LoginThrottle_proofs ------------------------
(***************************************************************************)
(* Proofs about LoginThrottle, for any identities, sessions, policies and  *)
(* size of the registry, and any number of requests that overlap.          *)
(***************************************************************************)
EXTENDS LoginThrottle, FiniteSetTheorems, TLAPS

-----------------------------------------------------------------------------
(* The inductive invariant. *)

\* The clock is at most a unit behind the latest time it has shown, and only
\* once it has been set back; a request is at most a unit old.
Clocks ==
  /\ clock <= past.latest /\ past.latest <= clock + (IF past.stepped THEN 1 ELSE 0)
  /\ \A q \in Requests : OnItsWay(q) =>
       request[q].now <= past.latest /\ past.latest <= request[q].now + 1

\* A counter is at zero or has the time of its last attempt, which is past.
Counts(state, latest) == state.last <= latest /\ (state.attempts = 0 <=> state.last = 0)

\* A request that was admitted works on a session that was not locked.
Admitted(q) == OnItsWay(q) /\ request[q].at # "arrived"

Counters ==
  /\ \A i \in Identities : Counts(tracked[i], past.latest)
  /\ \A s \in Sessions, op \in Ops : Counts(sessions[s][op], past.latest)
  /\ \A q \in Requests : Admitted(q) =>
       /\ \A op \in Ops : Counts(request[q].copy[op], past.latest)
       /\ request[q].copy[request[q].op].attempts < Policy(request[q].op).max

\* Whoever holds the mutex of an account is the only one, and has read its file.
Mutexes ==
  /\ \A q \in Requests : At(q, "holding") =>
       mutex[request[q].identity] = q /\ request[q].seen = accounts[request[q].identity]

FilesAgree == \A i \in Identities : accounts[i].form = "absent" <=> accounts[i].credential = Nobody

\* No session, and no copy of one, is signed in without the credential.
Signed ==
  /\ \A s \in Sessions : sessions[s].user # Nobody => <<s, sessions[s].user>> \in past.proved
  /\ \A q \in Requests : Admitted(q) /\ request[q].copy.user # Nobody =>
       <<request[q].session, request[q].copy.user>> \in past.proved

\* What is counted on an account and may still be, without another look at the lock.
Guessing(i) ==
  {q \in Requests : Admitted(q) /\ request[q].op = "login" /\ request[q].identity = i}
Limit == LoginMax + Cardinality(Requests) - 1
Budget == \A i \in Identities : tracked[i].attempts + Cardinality(Guessing(i)) <= Limit

\* The guesses of an account that its counter has forgotten, `old`, came so long
\* before the others, and before those to come, that no window holds both.
Forgotten(guesses, old, state, latest) ==
  LET new == guesses \ old
  IN /\ Cardinality(new) = state.attempts
     /\ \A g \in old : g.at + LoginReset <= latest + 1
     /\ \A g \in old, h \in new : g.at + LoginReset <= h.at + 2
     /\ \A h \in new : h.at <= state.last + 1
Guesses ==
  \A i \in Identities :
    /\ IsFiniteSet(past.guessed[i])
    /\ \A g \in past.guessed[i] : g.at <= past.latest /\ g.nth <= Cardinality(past.guessed[i])
    /\ \E old \in SUBSET past.guessed[i] :
         Forgotten(past.guessed[i], old, tracked[i], past.latest)

\* A session that has created an account and whose requests do not overlap has
\* its counter, or the window of sign-ups is over.
Alone(s) ==
  \A q, p \in Requests : OnItsWay(q) /\ OnItsWay(p) /\ request[q].session = s
                           /\ request[p].session = s => q = p
Over(created, latest) == latest >= created + SignReset
Recorded(state, created) == state.attempts > 0 /\ state.last >= created
SignUps ==
  \A s \in Sessions \ past.overlapped :
    /\ Alone(s)
    /\ past.created[s] # 0 =>
         /\ \/ Recorded(sessions[s].sign, past.created[s])
            \/ Over(past.created[s], past.latest)
         /\ \A q \in Requests : Admitted(q) /\ request[q].session = s =>
              /\ \/ Recorded(request[q].copy.sign, past.created[s])
                 \/ Over(past.created[s], past.latest)
              /\ request[q].op = "sign" => Over(past.created[s], past.latest)

IInv ==
  /\ ThrottleTypeOK /\ Clocks /\ Counters /\ Mutexes /\ FilesAgree /\ Signed
  /\ Budget /\ Guesses /\ GuessesBounded /\ LocksArePassing

-----------------------------------------------------------------------------
(* The constants and the operators of the model. *)

LEMMA Policies ==
  /\ LoginMax \in Nat /\ LoginMax > 0 /\ LoginReset \in Nat /\ LoginReset > 0
  /\ SignMax \in Nat /\ SignMax > 0 /\ SignReset \in Nat /\ SignReset > 0
  /\ MaxTracked \in Nat /\ MaxTime \in Nat /\ MaxTime > 0
  /\ Policy("login") = [max |-> LoginMax, reset |-> LoginReset]
  /\ Policy("sign") = [max |-> SignMax, reset |-> SignReset]
  BY ThrottleAssumption DEF Policy

LEMMA RequestCount ==
  /\ Cardinality(Requests) \in Nat /\ IsFiniteSet(Requests) /\ IsFiniteSet(Identities)
  /\ \A q \in Requests : q # Nobody
  /\ Limit \in Int
  BY ThrottleAssumption, Policies, FS_CardinalityType DEF Limit

LEMMA NoLock == 0 \in 0..MaxTime /\ 0 \in 0..(MaxTime + LoginReset + SignReset)
  BY Policies

\* The greater of two numbers is one of them.
LEMMA MaxOfTwo ==
  ASSUME NEW a \in Int, NEW b \in Int
  PROVE  Max({a, b}) \in {a, b} /\ Max({a, b}) >= a /\ Max({a, b}) >= b
<1>1. \E x \in {a, b} : \A y \in {a, b} : x >= y
  <2>1. CASE a >= b
    BY <2>1
  <2>2. CASE ~(a >= b)
    BY <2>2
  <2> QED BY <2>1, <2>2
<1> QED BY <1>1 DEF Max

\* Reading a counter keeps it or finds it expired.
LEMMA ActiveCases ==
  ASSUME NEW state, NEW op \in Ops, NEW now
  PROVE  \/ active_get(state, op, now) = state
         \/ active_get(state, op, now) = NoAttempt /\ state.last = 0
         \/ active_get(state, op, now) = NoAttempt /\ now - state.last >= Policy(op).reset
  BY DEF active_get

\* An active counter is one that has not expired.
LEMMA ActiveLater ==
  ASSUME NEW state, NEW op \in Ops, NEW now, active_get(state, op, now) # NoAttempt
  PROVE  active_get(state, op, now) = state /\ ~(now - state.last >= Policy(op).reset)
  BY DEF active_get

LEMMA ActiveType ==
  ASSUME NEW most \in Nat, NEW state \in Attempts(most), NEW op \in Ops, NEW now \in Time
  PROVE  active_get(state, op, now) \in Attempts(most)
  BY ActiveCases, Policies DEF Attempts, NoAttempt

\* A lock ends one window after the last attempt.
LEMMA LockCases ==
  ASSUME NEW most \in Nat, NEW state \in Attempts(most), NEW op \in Ops
  PROVE  /\ lockedUntil_get(state, op) \in 0..(MaxTime + LoginReset + SignReset)
         /\ lockedUntil_get(state, op) = 0 <=> state.attempts < Policy(op).max
         /\ lockedUntil_get(state, op) # 0 =>
              lockedUntil_get(state, op) = state.last + Policy(op).reset
  BY Policies DEF lockedUntil_get, Attempts, Ops

\* A lock that is found when a counter is read ends after the time it is read at.
LEMMA LockIsLater ==
  ASSUME NEW most \in Nat, NEW state \in Attempts(most), NEW op \in Ops, NEW now \in Time,
         lockedUntil_get(active_get(state, op, now), op) # 0
  PROVE  /\ now < lockedUntil_get(active_get(state, op, now), op)
         /\ lockedUntil_get(active_get(state, op, now), op) = state.last + Policy(op).reset
<1> DEFINE active == active_get(state, op, now)
<1>1. active # NoAttempt
  BY Policies DEF lockedUntil_get, NoAttempt, Ops
<1>2. active = state /\ ~(now - state.last >= Policy(op).reset)
  BY <1>1, ActiveLater
<1>3. lockedUntil_get(state, op) = state.last + Policy(op).reset
  BY <1>2, LockCases
<1>4. Policy(op).reset \in Nat /\ now \in Nat /\ state.last \in Nat
  BY Policies DEF Attempts, Ops, Time
<1> QED BY <1>2, <1>3, <1>4

-----------------------------------------------------------------------------
(* Types. *)

LEMMA NothingTypes ==
  /\ \A most \in Nat : NoAttempt \in Attempts(most)
  /\ FreshSession \in Session /\ NoAccount \in Account
  BY Policies DEF NoAttempt, Attempts, FreshSession, Session, NoAccount, Account

\* What the type of a request on its way says of it.
LEMMA RequestType ==
  ASSUME ThrottleTypeOK, NEW q \in Requests, OnItsWay(q)
  PROVE  /\ request[q] \in Request
         /\ request[q].session \in Sessions /\ request[q].identity \in Identities
         /\ request[q].op \in Ops /\ request[q].now \in Time
         /\ request[q].copy \in Session /\ request[q].credential \in Credentials
         /\ request[q].seen \in Account
<1>1. request[q] \in Request
  BY DEF ThrottleTypeOK, OnItsWay
<1> QED BY <1>1 DEF Request

\* The counters of a session, by operation.
LEMMA SessionCounters ==
  ASSUME NEW copy \in Session, NEW op \in Ops
  PROVE  copy[op] \in Attempts(Policy(op).max) /\ Policy(op).max \in Nat
  BY Policies DEF Session, Ops

LEMMA SessionWith ==
  ASSUME NEW copy \in Session, NEW op \in Ops, NEW state \in Attempts(Policy(op).max)
  PROVE  /\ [copy EXCEPT ![op] = state] \in Session
         /\ [copy EXCEPT ![op] = state].user = copy.user
         /\ [copy EXCEPT ![op] = state][op] = state
         /\ \A other \in Ops \ {op} : [copy EXCEPT ![op] = state][other] = copy[other]
<1>1. CASE op = "login"
  BY <1>1, Policies DEF Session, Ops
<1>2. CASE op = "sign"
  BY <1>2, Policies DEF Session, Ops
<1> QED BY <1>1, <1>2 DEF Ops

\* A counter that is not at its maximum can be raised.
LEMMA RecordedType ==
  ASSUME NEW most \in Nat, NEW state \in Attempts(most), state.attempts < most,
         NEW now \in Time
  PROVE  attemptRecorded_get(state, now) \in Attempts(most)
  BY Policies DEF attemptRecorded_get, Attempts, Time

LEMMA AnsweredType ==
  ASSUME ThrottleTypeOK, NEW q \in Requests, OnItsWay(q), NEW copy \in Session, NEW error,
         NEW until \in 0..(MaxTime + LoginReset + SignReset), Answered(q, copy, error, until)
  PROVE  /\ request' \in [Requests -> Request \cup {Nobody}]
         /\ answer' \in [now: 0..MaxTime, until: 0..(MaxTime + LoginReset + SignReset)]
         /\ sessions' \in [Sessions -> Session]
<1>1. request[q].now \in 0..MaxTime /\ 0 \in 0..MaxTime
  BY RequestType, Policies DEF Time
<1>2. request' \in [Requests -> Request \cup {Nobody}]
  BY DEF Answered, ThrottleTypeOK
<1>3. answer' \in [now: 0..MaxTime, until: 0..(MaxTime + LoginReset + SignReset)]
  <2>1. answer' = [now |-> IF until = 0 THEN 0 ELSE request[q].now, until |-> until]
    BY DEF Answered
  <2> QED BY <1>1, <2>1
<1>4. sessions' \in [Sessions -> Session]
  BY DEF Answered, ThrottleTypeOK
<1> QED BY <1>2, <1>3, <1>4

LEMMA RetainedType ==
  ASSUME ThrottleTypeOK, NEW now \in Time
  PROVE  Retained(now) \in [Identities -> Attempts(LoginMax + Cardinality(Requests))]
  BY ActiveType, RequestCount, Policies DEF Retained, ThrottleTypeOK, Ops

\* The registry after a wrong credential of an account.
LEMMA RecordType ==
  ASSUME ThrottleTypeOK, NEW i \in Identities, NEW now \in Time,
         tracked[i].attempts < LoginMax + Cardinality(Requests)
  PROVE  attempt_record(i, now) \in [Identities -> Attempts(LoginMax + Cardinality(Requests))]
<1> DEFINE kept == Retained(now)
<1>1. kept \in [Identities -> Attempts(LoginMax + Cardinality(Requests))]
  BY RetainedType
<1>2. kept[i] \in Attempts(LoginMax + Cardinality(Requests))
  BY <1>1
<1>3. kept[i].attempts < LoginMax + Cardinality(Requests)
  BY ActiveCases, Policies, RequestCount DEF Retained, NoAttempt, Ops
<1>4. attemptRecorded_get(kept[i], now) \in Attempts(LoginMax + Cardinality(Requests))
  BY <1>2, <1>3, RecordedType, Policies, RequestCount
<1> QED BY <1>1, <1>4 DEF attempt_record

\* The accounts in the registry.
Active(attempts) == {i \in Identities : attempts[i] # NoAttempt}

LEMMA ActiveFinite ==
  ASSUME NEW attempts
  PROVE  IsFiniteSet(Active(attempts)) /\ Cardinality(Active(attempts)) \in Nat
  BY RequestCount, FS_Subset, FS_CardinalityType DEF Active

LEMMA FewerActive ==
  ASSUME NEW before, NEW after, Cardinality(Active(before)) <= MaxTracked,
         \A i \in Identities : before[i] = NoAttempt => after[i] = NoAttempt
  PROVE  Cardinality(Active(after)) <= MaxTracked
<1>1. Active(after) \subseteq Active(before)
  BY DEF Active
<1>2. Cardinality(Active(after)) <= Cardinality(Active(before))
  BY <1>1, ActiveFinite, FS_Subset
<1> QED BY <1>2, ActiveFinite, Policies

LEMMA RegistryBounded ==
  ASSUME ThrottleTypeOK, NEW i \in Identities, NEW now \in Time
  PROVE  /\ Cardinality(Active(Retained(now))) <= MaxTracked
         /\ Cardinality(Active(attempt_record(i, now))) <= MaxTracked
<1> DEFINE kept == Retained(now)
<1>1. Cardinality(Active(kept)) <= MaxTracked
  <2>1. Cardinality(Active(tracked)) <= MaxTracked
    BY DEF ThrottleTypeOK, Active
  <2>2. \A j \in Identities : tracked[j] = NoAttempt => kept[j] = NoAttempt
    BY DEF Retained, active_get
  <2> QED BY <2>1, <2>2, FewerActive
<1>2. CASE Crowded(kept, i)
  BY <1>1, <1>2 DEF attempt_record
<1>3. CASE ~Crowded(kept, i)
  <2> DEFINE after == [kept EXCEPT ![i] = attemptRecorded_get(kept[i], now)]
  <2>1. attempt_record(i, now) = after
    BY <1>3 DEF attempt_record
  <2>2. \A j \in Identities \ {i} : after[j] = kept[j]
    BY DEF Retained
  <2>3. CASE kept[i] # NoAttempt
    <3>1. \A j \in Identities : kept[j] = NoAttempt => after[j] = NoAttempt
      BY <2>2, <2>3
    <3> HIDE DEF after
    <3> QED BY <1>1, <2>1, <3>1, FewerActive
  <2>4. CASE kept[i] = NoAttempt
    <3>1. Cardinality(Active(kept)) < MaxTracked
      BY <1>3, <2>4, ActiveFinite, Policies DEF Crowded, Active
    <3>2. Active(after) \subseteq Active(kept) \cup {i}
      BY <2>2 DEF Active
    <3> HIDE DEF after, kept
    <3>3. /\ IsFiniteSet(Active(kept) \cup {i})
          /\ Cardinality(Active(kept) \cup {i}) <= Cardinality(Active(kept)) + 1
      <4>1. IsFiniteSet(Active(kept)) /\ Cardinality(Active(kept)) \in Nat
        BY ActiveFinite
      <4>2. Cardinality(Active(kept) \cup {i}) =
              IF i \in Active(kept) THEN Cardinality(Active(kept)) ELSE Cardinality(Active(kept)) + 1
        BY <4>1, FS_AddElement
      <4>3. IsFiniteSet(Active(kept) \cup {i})
        BY <4>1, FS_AddElement
      <4> QED BY <4>1, <4>2, <4>3
    <3>4. Cardinality(Active(after)) <= Cardinality(Active(kept) \cup {i})
      BY <3>2, <3>3, FS_Subset
    <3>5. Cardinality(Active(kept) \cup {i}) \in Nat /\ Cardinality(Active(after)) \in Nat
      BY <3>3, ActiveFinite, FS_CardinalityType
    <3>6. Cardinality(Active(after)) <= MaxTracked
      BY <3>1, <3>3, <3>4, <3>5, ActiveFinite, Policies
    <3> QED BY <1>1, <2>1, <3>6 DEF kept
  <2> QED BY <2>3, <2>4
<1> QED BY <1>1, <1>2, <1>3

\* The guesses of an account are finitely many, and one fewer when one is refused.
LEMMA GuessingFinite ==
  ASSUME NEW i \in Identities
  PROVE  /\ IsFiniteSet(Guessing(i)) /\ Cardinality(Guessing(i)) \in Nat
         /\ Cardinality(Guessing(i)) <= Cardinality(Requests)
  BY RequestCount, FS_Subset, FS_CardinalityType DEF Guessing

LEMMA SomeGuessing ==
  ASSUME NEW i \in Identities, NEW q \in Guessing(i)
  PROVE  Cardinality(Guessing(i)) > 0
  BY GuessingFinite, FS_EmptySet

\* The session a request is answered with, after each of the operations.
LEMMA AdmitCopy ==
  ASSUME ThrottleTypeOK, NEW q \in Requests, OnItsWay(q)
  PROVE  LET r == request[q]
             counter == active_get(sessions[r.session][r.op], r.op, r.now)
             copy == [sessions[r.session] EXCEPT ![r.op] = counter]
         IN /\ counter \in Attempts(Policy(r.op).max)
            /\ copy \in Session
            /\ copy.user = sessions[r.session].user
            /\ copy[r.op] = counter
            /\ \A other \in Ops \ {r.op} : copy[other] = sessions[r.session][other]
            /\ lockedUntil_get(counter, r.op) \in 0..(MaxTime + LoginReset + SignReset)
<1> DEFINE r == request[q]
           counter == active_get(sessions[r.session][r.op], r.op, r.now)
<1>1. r.session \in Sessions /\ r.op \in Ops /\ r.now \in Time
  BY RequestType
<1>2. sessions[r.session] \in Session
  BY <1>1 DEF ThrottleTypeOK
<1>3. counter \in Attempts(Policy(r.op).max)
  BY <1>1, <1>2, SessionCounters, ActiveType
<1>4. lockedUntil_get(counter, r.op) \in 0..(MaxTime + LoginReset + SignReset)
  BY <1>1, <1>2, <1>3, SessionCounters, LockCases
<1> HIDE DEF counter, r
<1>5. /\ [sessions[r.session] EXCEPT ![r.op] = counter] \in Session
      /\ [sessions[r.session] EXCEPT ![r.op] = counter].user = sessions[r.session].user
      /\ [sessions[r.session] EXCEPT ![r.op] = counter][r.op] = counter
      /\ \A other \in Ops \ {r.op} :
           [sessions[r.session] EXCEPT ![r.op] = counter][other] = sessions[r.session][other]
  BY <1>1, <1>2, <1>3, SessionWith
<1> QED BY <1>3, <1>4, <1>5 DEF r, counter

LEMMA RefusedCopy ==
  ASSUME ThrottleTypeOK, Counters, NEW q \in Requests, Holds(q, "login")
  PROVE  LET r == request[q]
             counter == attemptRecorded_get(r.copy.login, r.now)
         IN /\ counter \in Attempts(LoginMax)
            /\ [r.copy EXCEPT !.login = counter] \in Session
            /\ lockedUntil_get(counter, "login") \in 0..(MaxTime + LoginReset + SignReset)
<1> DEFINE r == request[q]
           counter == attemptRecorded_get(r.copy.login, r.now)
<1>1. OnItsWay(q) /\ Admitted(q) /\ r.op = "login"
  BY DEF Holds, At, Admitted
<1>2. r.now \in Time /\ r.copy \in Session
  BY <1>1, RequestType
<1>3. r.copy.login \in Attempts(LoginMax) /\ r.copy.login.attempts < LoginMax
  BY <1>1, <1>2, Policies DEF Session, Counters
<1>4. counter \in Attempts(LoginMax)
  BY <1>2, <1>3, RecordedType, Policies
<1>5. lockedUntil_get(counter, "login") \in 0..(MaxTime + LoginReset + SignReset)
  BY <1>4, LockCases, Policies DEF Ops
<1> HIDE DEF counter, r
<1>6. [r.copy EXCEPT !.login = counter] \in Session
  BY <1>2, <1>4 DEF Session
<1> QED BY <1>4, <1>5, <1>6 DEF counter, r

LEMMA SignUpCopy ==
  ASSUME ThrottleTypeOK, Counters, NEW q \in Requests, Holds(q, "sign")
  PROVE  LET r == request[q]
             counter == attemptRecorded_get(r.copy.sign, clock)
         IN counter \in Attempts(SignMax) /\ [r.copy EXCEPT !.sign = counter] \in Session
<1> DEFINE r == request[q]
           counter == attemptRecorded_get(r.copy.sign, clock)
<1>1. OnItsWay(q) /\ Admitted(q) /\ r.op = "sign"
  BY DEF Holds, At, Admitted
<1>2. clock \in Time /\ r.copy \in Session
  BY <1>1, RequestType DEF ThrottleTypeOK
<1>3. r.copy.sign \in Attempts(SignMax) /\ r.copy.sign.attempts < SignMax
  BY <1>1, <1>2, Policies DEF Session, Counters
<1>4. counter \in Attempts(SignMax)
  BY <1>2, <1>3, RecordedType, Policies
<1> HIDE DEF counter, r
<1>5. [r.copy EXCEPT !.sign = counter] \in Session
  BY <1>2, <1>4 DEF Session
<1> QED BY <1>4, <1>5 DEF counter, r

LEMMA RecordedUntilType ==
  ASSUME ThrottleTypeOK, NEW i \in Identities, NEW now \in Time,
         tracked[i].attempts < LoginMax + Cardinality(Requests)
  PROVE  RecordedUntil(i, now) \in 0..(MaxTime + LoginReset + SignReset)
<1>1. now + LoginReset \in 0..(MaxTime + LoginReset + SignReset)
  BY Policies DEF Time
<1>2. attempt_record(i, now)[i] \in Attempts(LoginMax + Cardinality(Requests))
  BY RecordType
<1>3. lockedUntil_get(attempt_record(i, now)[i], "login") \in 0..(MaxTime + LoginReset + SignReset)
  BY <1>2, LockCases, Policies, RequestCount DEF Ops
<1> QED BY <1>1, <1>3 DEF RecordedUntil

LEMMA BelowLimit ==
  ASSUME ThrottleTypeOK, Budget, NEW q \in Requests, Holds(q, "login")
  PROVE  tracked[request[q].identity].attempts < LoginMax + Cardinality(Requests)
<1> DEFINE i == request[q].identity
<1>1. OnItsWay(q) /\ i \in Identities /\ q \in Guessing(i)
  BY RequestType DEF Holds, At, Guessing, Admitted
<1>2. Cardinality(Guessing(i)) > 0 /\ Cardinality(Guessing(i)) \in Nat
  BY <1>1, SomeGuessing, GuessingFinite
<1>3. tracked[i].attempts + Cardinality(Guessing(i)) <= Limit
  BY <1>1 DEF Budget
<1>4. tracked[i].attempts \in Nat
  BY <1>1 DEF ThrottleTypeOK, Attempts
<1> QED BY <1>2, <1>3, <1>4, Policies, RequestCount DEF Limit

LEMMA TypeInit == ThrottleInit => ThrottleTypeOK
<1> SUFFICES ASSUME ThrottleInit PROVE ThrottleTypeOK
  OBVIOUS
<1>1. /\ case \in ThrottleCases /\ clock \in Time /\ accounts \in [Identities -> Account]
      /\ calls \in 0..case.calls
  BY ThrottleAssumption, Policies DEF ThrottleInit, Time
<1>2. tracked \in [Identities -> Attempts(LoginMax + Cardinality(Requests))]
  BY NothingTypes, Policies, RequestCount DEF ThrottleInit
<1>3. Cardinality({i \in Identities : tracked[i] # NoAttempt}) <= MaxTracked
  <2>1. {i \in Identities : tracked[i] # NoAttempt} = {}
    BY DEF ThrottleInit
  <2> QED BY <2>1, FS_EmptySet, Policies
<1>4. sessions \in [Sessions -> Session]
  BY NothingTypes DEF ThrottleInit
<1>5. /\ mutex \in [Identities -> Requests \cup {Nobody}]
      /\ request \in [Requests -> Request \cup {Nobody}]
  BY DEF ThrottleInit
<1>6. answer \in [now: 0..MaxTime, until: 0..(MaxTime + LoginReset + SignReset)]
  BY Policies DEF ThrottleInit
<1>7. past \in History
  BY Policies DEF ThrottleInit, History, Time
<1> QED BY <1>1, <1>2, <1>3, <1>4, <1>5, <1>6, <1>7 DEF ThrottleTypeOK

LEMMA TypeStep ==
  ThrottleTypeOK /\ Counters /\ Budget /\ Guesses /\ [ThrottleNext]_throttleVars
    => ThrottleTypeOK'
<1> SUFFICES ASSUME ThrottleTypeOK, Counters, Budget, Guesses, [ThrottleNext]_throttleVars
             PROVE  ThrottleTypeOK'
  OBVIOUS
<1>1. ASSUME NEW q \in Requests, Arrive(q) PROVE ThrottleTypeOK'
  <2>1. PICK r \in case.requests :
          /\ request' = [request EXCEPT ![q] =
               [at |-> "arrived", op |-> r.op, session |-> r.session, identity |-> r.identity,
                credential |-> r.credential, now |-> clock, copy |-> FreshSession,
                seen |-> NoAccount]]
          /\ past' = IF \E other \in Requests : OnItsWay(other) /\ request[other].session = r.session
                       THEN [past EXCEPT !.overlapped = @ \cup {r.session}] ELSE past
    BY <1>1 DEF Arrive
  <2>2. /\ r.op \in Ops /\ r.session \in Sessions /\ r.identity \in Identities
        /\ r.credential \in Credentials /\ case.calls \in Nat
    BY ThrottleAssumption DEF ThrottleTypeOK
  <2>3. request' \in [Requests -> Request \cup {Nobody}]
    BY <2>1, <2>2, NothingTypes DEF ThrottleTypeOK, Request
  <2>4. past' \in History
    BY <2>1, <2>2 DEF ThrottleTypeOK, History
  <2>5. calls' \in 0..case.calls
    BY <1>1, <2>2 DEF Arrive, ThrottleTypeOK
  <2> QED BY <1>1, <2>3, <2>4, <2>5 DEF Arrive, ThrottleTypeOK
<1>2. ASSUME NEW q \in Requests, Admit(q) PROVE ThrottleTypeOK'
  <2> DEFINE r == request[q]
             counter == active_get(sessions[r.session][r.op], r.op, r.now)
             copy == [sessions[r.session] EXCEPT ![r.op] = counter]
             locked == lockedUntil_get(counter, r.op)
             accountLocked == IF r.op = "sign" THEN 0
                              ELSE lockedUntil_get(Retained(r.now)[r.identity], r.op)
  <2>1. OnItsWay(q) /\ r.now \in Time /\ r.identity \in Identities /\ r.op \in Ops
    BY <1>2, RequestType DEF Admit, At
  <2>2. copy \in Session /\ locked \in 0..(MaxTime + LoginReset + SignReset)
    BY <2>1, AdmitCopy
  <2>3. accountLocked \in 0..(MaxTime + LoginReset + SignReset)
    BY <2>1, RetainedType, LockCases, Policies, RequestCount
  <2>4. /\ tracked' = Retained(r.now) \/ tracked' = tracked
        /\ \/ Answered(q, copy, TRUE, locked)
           \/ Answered(q, copy, TRUE, accountLocked)
           \/ /\ request' = [request EXCEPT ![q].at = "queued", ![q].copy = copy]
              /\ UNCHANGED <<sessions, answer>>
        /\ UNCHANGED <<case, clock, accounts, mutex, calls, past>>
    BY <1>2 DEF Admit
  <2> HIDE DEF copy, counter, locked, accountLocked
  <2>5. /\ tracked' \in [Identities -> Attempts(LoginMax + Cardinality(Requests))]
        /\ Cardinality(Active(tracked')) <= MaxTracked
    <3>1. Cardinality(Active(tracked)) <= MaxTracked
      BY DEF ThrottleTypeOK, Active
    <3> QED BY <2>1, <2>4, <3>1, RetainedType, RegistryBounded DEF ThrottleTypeOK
  <2>6. /\ request' \in [Requests -> Request \cup {Nobody}]
        /\ answer' \in [now: 0..MaxTime, until: 0..(MaxTime + LoginReset + SignReset)]
        /\ sessions' \in [Sessions -> Session]
    <3>1. CASE Answered(q, copy, TRUE, locked)
      BY <2>1, <2>2, <3>1, AnsweredType
    <3>2. CASE Answered(q, copy, TRUE, accountLocked)
      BY <2>1, <2>2, <2>3, <3>2, AnsweredType
    <3>3. CASE /\ request' = [request EXCEPT ![q].at = "queued", ![q].copy = copy]
               /\ UNCHANGED <<sessions, answer>>
      <4>1. [r EXCEPT !.at = "queued", !.copy = copy] \in Request
        BY <2>1, <2>2, RequestType DEF Request
      <4>2. request' = [request EXCEPT ![q] = [r EXCEPT !.at = "queued", !.copy = copy]]
        BY <3>3 DEF ThrottleTypeOK
      <4> QED BY <3>3, <4>1, <4>2 DEF ThrottleTypeOK
    <3> QED BY <2>4, <3>1, <3>2, <3>3
  <2> QED BY <2>4, <2>5, <2>6 DEF ThrottleTypeOK, Active
<1>3. ASSUME NEW q \in Requests, Acquire(q) PROVE ThrottleTypeOK'
  <2>1. OnItsWay(q) /\ request[q].identity \in Identities /\ request[q] \in Request
    BY <1>3, RequestType DEF Acquire, At
  <2>2. [request[q] EXCEPT !.at = "holding", !.seen = accounts[request[q].identity]] \in Request
    BY <2>1 DEF Request, ThrottleTypeOK
  <2>3. request' = [request EXCEPT ![q] =
          [request[q] EXCEPT !.at = "holding", !.seen = accounts[request[q].identity]]]
    BY <1>3 DEF Acquire, ThrottleTypeOK
  <2>4. request' \in [Requests -> Request \cup {Nobody}]
    BY <2>2, <2>3 DEF ThrottleTypeOK
  <2> QED BY <1>3, <2>4 DEF Acquire, ThrottleTypeOK
<1>4. ASSUME NEW q \in Requests, LoginRefused(q) PROVE ThrottleTypeOK'
  <2> DEFINE r == request[q]
             counter == attemptRecorded_get(r.copy.login, r.now)
             copy == [r.copy EXCEPT !.login = counter]
             until == Max({lockedUntil_get(counter, "login"), RecordedUntil(r.identity, r.now)})
  <2>1. Holds(q, "login") /\ OnItsWay(q)
    BY <1>4 DEF LoginRefused, Holds, At
  <2>2. r.now \in Time /\ r.identity \in Identities
    BY <2>1, RequestType
  <2>3. tracked[r.identity].attempts < LoginMax + Cardinality(Requests)
    BY <2>1, BelowLimit
  <2>4. copy \in Session /\ lockedUntil_get(counter, "login") \in 0..(MaxTime + LoginReset + SignReset)
    BY <2>1, RefusedCopy
  <2>5. until \in 0..(MaxTime + LoginReset + SignReset)
    <3>1. RecordedUntil(r.identity, r.now) \in 0..(MaxTime + LoginReset + SignReset)
      BY <2>2, <2>3, RecordedUntilType
    <3>2. until \in {lockedUntil_get(counter, "login"), RecordedUntil(r.identity, r.now)}
      BY <2>4, <3>1, MaxOfTwo
    <3> QED BY <2>4, <3>1, <3>2
  <2>6. /\ Answered(q, copy, TRUE, until)
        /\ tracked' = attempt_record(r.identity, r.now)
        /\ mutex' = [mutex EXCEPT ![r.identity] = Nobody]
        /\ UNCHANGED <<case, clock, accounts, calls>>
    BY <1>4 DEF LoginRefused, Release
  <2>7. past' \in History
    <3>1. CASE past' = past
      BY <3>1 DEF ThrottleTypeOK
    <3>2. CASE past' # past
      <4>1. past' = [past EXCEPT !.guessed[r.identity] =
                       @ \cup {[at |-> r.now, nth |-> Cardinality(@) + 1]}]
        BY <1>4, <3>2 DEF LoginRefused
      <4>2. past.guessed \in [Identities -> SUBSET [at: Time, nth: Nat]]
        BY DEF ThrottleTypeOK, History
      <4>3. Cardinality(past.guessed[r.identity]) + 1 \in Nat
        BY <2>2, FS_CardinalityType DEF Guesses
      <4> QED BY <2>2, <4>1, <4>2, <4>3 DEF ThrottleTypeOK, History
    <3> QED BY <3>1, <3>2
  <2> HIDE DEF copy, counter, until
  <2>8. /\ tracked' \in [Identities -> Attempts(LoginMax + Cardinality(Requests))]
        /\ Cardinality(Active(tracked')) <= MaxTracked
    BY <2>2, <2>3, <2>6, RecordType, RegistryBounded
  <2>9. /\ request' \in [Requests -> Request \cup {Nobody}]
        /\ answer' \in [now: 0..MaxTime, until: 0..(MaxTime + LoginReset + SignReset)]
        /\ sessions' \in [Sessions -> Session]
    BY <2>1, <2>4, <2>5, <2>6, AnsweredType
  <2> QED BY <2>6, <2>7, <2>8, <2>9 DEF ThrottleTypeOK, Active

<1>5. ASSUME NEW q \in Requests, LoginAccepted(q) PROVE ThrottleTypeOK'
  <2> DEFINE r == request[q]
             copy == [r.copy EXCEPT !.login = NoAttempt, !.user = r.identity]
  <2>1. OnItsWay(q)
    BY <1>5 DEF LoginAccepted, Holds, At
  <2>2. /\ r.identity \in Identities /\ r.copy \in Session /\ r.session \in Sessions
        /\ r.credential \in Credentials
    BY <2>1, RequestType
  <2>3. copy \in Session
    BY <2>2, NothingTypes, Policies DEF Session
  <2>4. /\ Answered(q, copy, FALSE, 0)
        /\ accounts' = [accounts EXCEPT ![r.identity] =
                          [form |-> "argon2", credential |-> r.credential]]
        /\ tracked' = [tracked EXCEPT ![r.identity] = NoAttempt]
        /\ mutex' = [mutex EXCEPT ![r.identity] = Nobody]
        /\ past' = [past EXCEPT !.guessed[r.identity] = {},
                                !.proved = @ \cup {<<r.session, r.identity>>}]
        /\ UNCHANGED <<case, clock, calls>>
    BY <1>5 DEF LoginAccepted, Release
  <2> HIDE DEF copy
  <2>5. /\ request' \in [Requests -> Request \cup {Nobody}]
        /\ answer' \in [now: 0..MaxTime, until: 0..(MaxTime + LoginReset + SignReset)]
        /\ sessions' \in [Sessions -> Session]
    BY <2>1, <2>3, <2>4, AnsweredType, NoLock
  <2>6. /\ tracked' \in [Identities -> Attempts(LoginMax + Cardinality(Requests))]
        /\ Cardinality(Active(tracked')) <= MaxTracked
    <3>1. Cardinality(Active(tracked)) <= MaxTracked
      BY DEF ThrottleTypeOK, Active
    <3>2. \A i \in Identities : tracked[i] = NoAttempt => tracked'[i] = NoAttempt
      BY <2>4 DEF ThrottleTypeOK
    <3>3. tracked' \in [Identities -> Attempts(LoginMax + Cardinality(Requests))]
      <4>1. NoAttempt \in Attempts(LoginMax + Cardinality(Requests))
        BY NothingTypes, Policies, RequestCount
      <4> QED BY <2>4, <4>1 DEF ThrottleTypeOK
    <3> QED BY <3>1, <3>2, <3>3, FewerActive
  <2>7. accounts' \in [Identities -> Account]
    BY <2>2, <2>4 DEF ThrottleTypeOK, Account
  <2>8. past' \in History
    <3>1. /\ [past.guessed EXCEPT ![r.identity] = {}] \in [Identities -> SUBSET [at: Time, nth: Nat]]
          /\ past.proved \cup {<<r.session, r.identity>>} \in SUBSET (Sessions \X Identities)
      BY <2>2 DEF ThrottleTypeOK, History
    <3>2. past' = [past EXCEPT !.guessed = [past.guessed EXCEPT ![r.identity] = {}],
                               !.proved = past.proved \cup {<<r.session, r.identity>>}]
      BY <2>4
    <3> QED BY <3>1, <3>2 DEF ThrottleTypeOK, History
  <2> QED BY <2>4, <2>5, <2>6, <2>7, <2>8 DEF ThrottleTypeOK, Active
<1>6. ASSUME NEW q \in Requests, StoreFails(q) PROVE ThrottleTypeOK'
  <2>1. OnItsWay(q) /\ Answered(q, request[q].copy, TRUE, 0)
    BY <1>6 DEF StoreFails, Holds, At
  <2>2. /\ request' \in [Requests -> Request \cup {Nobody}]
        /\ answer' \in [now: 0..MaxTime, until: 0..(MaxTime + LoginReset + SignReset)]
        /\ sessions' \in [Sessions -> Session]
    BY <2>1, RequestType, AnsweredType, NoLock
  <2> QED BY <1>6, <2>2 DEF StoreFails, Release, ThrottleTypeOK
<1>7. ASSUME NEW q \in Requests, SignUp(q) PROVE ThrottleTypeOK'
  <2> DEFINE r == request[q]
             copy == [r.copy EXCEPT !.sign = attemptRecorded_get(r.copy.sign, clock)]
  <2>1. OnItsWay(q) /\ Holds(q, "sign")
    BY <1>7 DEF SignUp, Holds, At
  <2>2. /\ copy \in Session /\ r.identity \in Identities /\ r.session \in Sessions
        /\ r.credential \in Credentials
    BY <2>1, RequestType, SignUpCopy
  <2>3. /\ Answered(q, copy, FALSE, 0)
        /\ accounts' = accounts \/ accounts' =
             [accounts EXCEPT ![r.identity] = [form |-> "argon2", credential |-> r.credential]]
        /\ mutex' = [mutex EXCEPT ![r.identity] = Nobody]
        /\ past' = past \/ past' = [past EXCEPT !.created[r.session] = clock]
        /\ UNCHANGED <<case, clock, tracked, calls>>
    BY <1>7 DEF SignUp, Release
  <2> HIDE DEF copy
  <2>4. /\ request' \in [Requests -> Request \cup {Nobody}]
        /\ answer' \in [now: 0..MaxTime, until: 0..(MaxTime + LoginReset + SignReset)]
        /\ sessions' \in [Sessions -> Session]
    BY <2>1, <2>2, <2>3, AnsweredType, NoLock
  <2>5. accounts' \in [Identities -> Account]
    BY <2>2, <2>3 DEF ThrottleTypeOK, Account
  <2>6. past' \in History
    <3>1. clock \in 0..MaxTime
      BY DEF ThrottleTypeOK, Time
    <3>2. CASE past' = past
      BY <3>2 DEF ThrottleTypeOK
    <3>3. CASE past' = [past EXCEPT !.created[r.session] = clock]
      BY <2>2, <3>1, <3>3 DEF ThrottleTypeOK, History
    <3> QED BY <2>3, <3>2, <3>3
  <2> QED BY <2>3, <2>4, <2>5, <2>6 DEF ThrottleTypeOK
<1>8. CASE Tick
  <2>1. clock + 1 \in Time /\ clock \in Time /\ past.latest \in Time
    BY <1>8, Policies DEF Tick, ThrottleTypeOK, Time, History
  <2>2. Max({past.latest, clock + 1}) \in Time
    <3>1. past.latest \in Int /\ clock + 1 \in Int
      BY <2>1 DEF Time
    <3>2. Max({past.latest, clock + 1}) \in {past.latest, clock + 1}
      BY <3>1, MaxOfTwo
    <3> QED BY <2>1, <3>2
  <2>3. past' \in History
    BY <1>8, <2>2 DEF Tick, ThrottleTypeOK, History
  <2> QED BY <1>8, <2>1, <2>3 DEF Tick, ThrottleTypeOK
<1>9. CASE StepBack
  <2>1. clock - 1 \in Time
    BY <1>9, Policies DEF StepBack, ThrottleTypeOK, Time
  <2>2. past' \in History
    BY <1>9 DEF StepBack, ThrottleTypeOK, History
  <2> QED BY <1>9, <2>1, <2>2 DEF StepBack, ThrottleTypeOK
<1>10. CASE Restart
  <2>1. tracked' \in [Identities -> Attempts(LoginMax + Cardinality(Requests))]
    BY <1>10, NothingTypes, Policies, RequestCount DEF Restart
  <2>2. Cardinality({i \in Identities : tracked'[i] # NoAttempt}) <= MaxTracked
    <3>1. {i \in Identities : tracked'[i] # NoAttempt} = {}
      BY <1>10 DEF Restart
    <3> QED BY <3>1, FS_EmptySet, Policies
  <2>3. sessions' \in [Sessions -> Session]
    BY <1>10, NothingTypes DEF Restart
  <2>4. past' \in History
    <3>1. /\ [i \in Identities |-> {}] \in [Identities -> SUBSET [at: Time, nth: Nat]]
          /\ [s \in Sessions |-> 0] \in [Sessions -> 0..MaxTime]
      BY NoLock
    <3> QED BY <1>10, <3>1 DEF Restart, ThrottleTypeOK, History
  <2> QED BY <1>10, <2>1, <2>2, <2>3, <2>4 DEF Restart, ThrottleTypeOK
<1>11. CASE UNCHANGED throttleVars
  BY <1>11 DEF throttleVars, ThrottleTypeOK
<1> QED BY <1>1, <1>2, <1>3, <1>4, <1>5, <1>6, <1>7, <1>8, <1>9, <1>10, <1>11
        DEF ThrottleNext

-----------------------------------------------------------------------------
(* What a step does to the clocks and to the requests. *)

\* Answering a request changes no other, and at most its own session.
LEMMA AnsweredOnly ==
  ASSUME ThrottleTypeOK, NEW q \in Requests, OnItsWay(q), NEW copy, NEW error, NEW until,
         Answered(q, copy, error, until)
  PROVE  /\ ~OnItsWay(q)'
         /\ \A p \in Requests \ {q} : request'[p] = request[p]
         /\ \A s \in Sessions : \/ sessions'[s] = sessions[s]
                                \/ s = request[q].session /\ sessions'[s] = copy
<1>1. /\ request' = [request EXCEPT ![q] = Nobody]
      /\ sessions' = sessions \/ sessions' = [sessions EXCEPT ![request[q].session] = copy]
  BY DEF Answered
<1>2. ~OnItsWay(q)' /\ \A p \in Requests \ {q} : request'[p] = request[p]
  BY <1>1 DEF ThrottleTypeOK, OnItsWay
<1>3. \A s \in Sessions : \/ sessions'[s] = sessions[s]
                          \/ s = request[q].session /\ sessions'[s] = copy
  <2>1. sessions = [s \in Sessions |-> sessions[s]]
    BY DEF ThrottleTypeOK
  <2>2. CASE sessions' = sessions
    BY <2>2
  <2>3. CASE sessions' = [sessions EXCEPT ![request[q].session] = copy]
    BY <2>1, <2>3
  <2> QED BY <1>1, <2>2, <2>3
<1> QED BY <1>2, <1>3

\* The clocks change only when time passes or is set back.
LEMMA ClocksKept ==
  ASSUME ThrottleTypeOK, [ThrottleNext]_throttleVars, ~Tick, ~StepBack
  PROVE  clock' = clock /\ past'.latest = past.latest /\ past'.stepped = past.stepped
<1> USE DEF ThrottleTypeOK, History
<1>1. ASSUME NEW q \in Requests, Arrive(q)
      PROVE  clock' = clock /\ past'.latest = past.latest /\ past'.stepped = past.stepped
  BY <1>1 DEF Arrive
<1>2. ASSUME NEW q \in Requests, Admit(q) \/ Acquire(q) \/ StoreFails(q)
      PROVE  clock' = clock /\ past'.latest = past.latest /\ past'.stepped = past.stepped
  BY <1>2 DEF Admit, Acquire, StoreFails
<1>3. ASSUME NEW q \in Requests, LoginRefused(q) \/ LoginAccepted(q) \/ SignUp(q)
      PROVE  clock' = clock /\ past'.latest = past.latest /\ past'.stepped = past.stepped
  BY <1>3 DEF LoginRefused, LoginAccepted, SignUp
<1>4. CASE Restart
  BY <1>4 DEF Restart
<1>5. CASE UNCHANGED throttleVars
  BY <1>5 DEF throttleVars
<1> QED BY <1>1, <1>2, <1>3, <1>4, <1>5 DEF ThrottleNext

\* A request keeps what it came with until it is answered.
Keeps(q) ==
  /\ OnItsWay(q)
  /\ \A f \in {"op", "session", "identity", "credential", "now"} : request'[q][f] = request[q][f]

LEMMA Carried ==
  ASSUME ThrottleTypeOK, [ThrottleNext]_throttleVars, NEW q \in Requests, OnItsWay(q)'
  PROVE  Arrive(q) \/ Keeps(q)
<1> USE DEF OnItsWay, Keeps
<1>1. ASSUME NEW p \in Requests, Arrive(p) PROVE Arrive(q) \/ Keeps(q)
  BY <1>1 DEF Arrive, ThrottleTypeOK
<1>2. ASSUME NEW p \in Requests, Admit(p) PROVE Keeps(q)
  <2> DEFINE r == request[p]
             counter == active_get(sessions[r.session][r.op], r.op, r.now)
             copy == [sessions[r.session] EXCEPT ![r.op] = counter]
  <2>1. PICK until : \/ Answered(p, copy, TRUE, until)
                     \/ request' = [request EXCEPT ![p].at = "queued", ![p].copy = copy]
    BY <1>2 DEF Admit
  <2> HIDE DEF copy, counter, r
  <2>2. OnItsWay(p) /\ request[p] \in Request
    BY <1>2, RequestType DEF Admit, At
  <2>3. CASE Answered(p, copy, TRUE, until)
    BY <2>2, <2>3, AnsweredOnly
  <2>4. CASE request' = [request EXCEPT ![p].at = "queued", ![p].copy = copy]
    BY <2>2, <2>4 DEF ThrottleTypeOK, Request
  <2> QED BY <2>1, <2>3, <2>4
<1>3. ASSUME NEW p \in Requests, Acquire(p) PROVE Keeps(q)
  <2>1. OnItsWay(p) /\ request[p] \in Request
    BY <1>3, RequestType DEF Acquire, At
  <2> QED BY <1>3, <2>1 DEF Acquire, ThrottleTypeOK, Request
<1>4. ASSUME NEW p \in Requests,
             LoginRefused(p) \/ LoginAccepted(p) \/ StoreFails(p) \/ SignUp(p)
      PROVE  Keeps(q)
  <2>1. OnItsWay(p)
    BY <1>4 DEF LoginRefused, LoginAccepted, StoreFails, SignUp, Holds, At
  <2>2. PICK copy, error, until : Answered(p, copy, error, until)
    BY <1>4 DEF LoginRefused, LoginAccepted, StoreFails, SignUp
  <2> QED BY <2>1, <2>2, AnsweredOnly
<1>5. CASE Tick \/ StepBack \/ UNCHANGED throttleVars
  BY <1>5 DEF Tick, StepBack, throttleVars
<1>6. CASE Restart
  BY <1>6 DEF Restart
<1> QED BY <1>1, <1>2, <1>3, <1>4, <1>5, <1>6 DEF ThrottleNext

LEMMA ClocksStep ==
  ThrottleTypeOK /\ Clocks /\ [ThrottleNext]_throttleVars => Clocks'
<1> SUFFICES ASSUME ThrottleTypeOK, Clocks, [ThrottleNext]_throttleVars PROVE Clocks'
  OBVIOUS
<1>1. /\ clock \in Nat /\ past.latest \in Nat /\ past.stepped \in BOOLEAN
      /\ \A q \in Requests : OnItsWay(q) => request[q].now \in Nat
  BY RequestType DEF ThrottleTypeOK, Time, History
<1>2. CASE Tick
  <2>1. /\ clock' = clock + 1 /\ request' = request
        /\ past' = [past EXCEPT !.latest = Max({past.latest, clock + 1})]
        /\ \A q \in Requests : OnItsWay(q) => request[q].now >= clock
    BY <1>2 DEF Tick
  <2>2. past'.latest = Max({past.latest, clock + 1}) /\ past'.stepped = past.stepped
    BY <2>1 DEF ThrottleTypeOK, History
  <2>3. past'.latest = IF past.latest > clock THEN past.latest ELSE clock + 1
    <3>1. /\ past'.latest \in {past.latest, clock + 1}
          /\ past'.latest >= past.latest /\ past'.latest >= clock + 1
      <4>1. past.latest \in Int /\ clock + 1 \in Int
        BY <1>1
      <4> QED BY <2>2, <4>1, MaxOfTwo
    <3> QED BY <1>1, <3>1
  <2>4. \A q \in Requests : OnItsWay(q)' => OnItsWay(q) /\ request'[q] = request[q]
    BY <2>1 DEF OnItsWay
  <2>5. clock' <= past'.latest /\ past'.latest <= clock' + (IF past'.stepped THEN 1 ELSE 0)
    BY <1>1, <2>1, <2>2, <2>3 DEF Clocks
  <2>6. ASSUME NEW q \in Requests, OnItsWay(q)'
        PROVE  request'[q].now <= past'.latest /\ past'.latest <= request'[q].now + 1
    BY <1>1, <2>1, <2>3, <2>4, <2>6 DEF Clocks
  <2> QED BY <2>5, <2>6 DEF Clocks
<1>3. CASE StepBack
  <2>1. /\ clock' = clock - 1 /\ request' = request /\ ~past.stepped
        /\ past'.latest = past.latest /\ past'.stepped = TRUE
    BY <1>3 DEF StepBack, ThrottleTypeOK, History
  <2>2. \A q \in Requests : OnItsWay(q)' => OnItsWay(q) /\ request'[q] = request[q]
    BY <2>1 DEF OnItsWay
  <2> QED BY <1>1, <2>1, <2>2 DEF Clocks
<1>4. CASE ~Tick /\ ~StepBack
  <2>1. clock' = clock /\ past'.latest = past.latest /\ past'.stepped = past.stepped
    BY <1>4, ClocksKept
  <2>2. ASSUME NEW q \in Requests, OnItsWay(q)'
        PROVE  request'[q].now <= past.latest /\ past.latest <= request'[q].now + 1
    <3>1. CASE Arrive(q)
      <4>1. request'[q].now = clock
        BY <3>1 DEF Arrive, ThrottleTypeOK
      <4> QED BY <1>1, <4>1 DEF Clocks
    <3>2. CASE Keeps(q)
      BY <1>1, <3>2 DEF Keeps, Clocks
    <3> QED BY <2>2, <3>1, <3>2, Carried
  <2> QED BY <2>1, <2>2 DEF Clocks
<1> QED BY <1>2, <1>3, <1>4

\* The copy of a session that an operation on it leaves, when it is answered.
AdmitCopyOf(q) ==
  [sessions[request[q].session] EXCEPT ![request[q].op] =
     active_get(sessions[request[q].session][request[q].op], request[q].op, request[q].now)]
RefusedCopyOf(q) ==
  [request[q].copy EXCEPT !.login = attemptRecorded_get(request[q].copy.login, request[q].now)]
AcceptedCopyOf(q) ==
  [request[q].copy EXCEPT !.login = NoAttempt, !.user = request[q].identity]
SignUpCopyOf(q) ==
  [request[q].copy EXCEPT !.sign = attemptRecorded_get(request[q].copy.sign, clock)]

\* A request that is past the check of the lock was so before, with the same
\* copy of its session, or passes it now.
LEMMA AdmittedStep ==
  ASSUME ThrottleTypeOK, [ThrottleNext]_throttleVars, NEW q \in Requests, Admitted(q)'
  PROVE  \/ Admitted(q) /\ Keeps(q) /\ request'[q].copy = request[q].copy
         \/ Admit(q) /\ Keeps(q) /\ request'[q].copy = AdmitCopyOf(q)
<1> USE DEF OnItsWay, Admitted
<1> DEFINE Stays == Admitted(q) /\ request'[q].copy = request[q].copy
           Passes == Admit(q) /\ request'[q].copy = AdmitCopyOf(q)
<1>1. ASSUME NEW p \in Requests, Arrive(p) PROVE Stays
  BY <1>1 DEF Arrive, ThrottleTypeOK
<1>2. ASSUME NEW p \in Requests, Admit(p) PROVE Stays \/ Passes
  <2>1. PICK until : \/ Answered(p, AdmitCopyOf(p), TRUE, until)
                     \/ request' = [request EXCEPT ![p].at = "queued", ![p].copy = AdmitCopyOf(p)]
    BY <1>2 DEF Admit, AdmitCopyOf
  <2>2. OnItsWay(p) /\ request[p] \in Request
    BY <1>2, RequestType DEF Admit, At
  <2>3. CASE Answered(p, AdmitCopyOf(p), TRUE, until)
    BY <2>2, <2>3, AnsweredOnly
  <2>4. CASE request' = [request EXCEPT ![p].at = "queued", ![p].copy = AdmitCopyOf(p)]
    <3>1. CASE p = q
      BY <1>2, <2>2, <2>4, <3>1 DEF ThrottleTypeOK, Request
    <3>2. CASE p # q
      BY <2>4, <3>2 DEF ThrottleTypeOK
    <3> QED BY <3>1, <3>2
  <2> QED BY <2>1, <2>3, <2>4
<1>3. ASSUME NEW p \in Requests, Acquire(p) PROVE Stays
  <2>1. OnItsWay(p) /\ request[p] \in Request
    BY <1>3, RequestType DEF Acquire, At
  <2> QED BY <1>3, <2>1 DEF Acquire, At, ThrottleTypeOK, Request
<1>4. ASSUME NEW p \in Requests,
             LoginRefused(p) \/ LoginAccepted(p) \/ StoreFails(p) \/ SignUp(p)
      PROVE  Stays
  <2>1. OnItsWay(p)
    BY <1>4 DEF LoginRefused, LoginAccepted, StoreFails, SignUp, Holds, At
  <2>2. PICK copy, error, until : Answered(p, copy, error, until)
    BY <1>4 DEF LoginRefused, LoginAccepted, StoreFails, SignUp
  <2> QED BY <2>1, <2>2, AnsweredOnly
<1>5. ASSUME Tick \/ StepBack \/ UNCHANGED throttleVars PROVE Stays
  <2>1. request' = request
    BY <1>5 DEF Tick, StepBack, throttleVars
  <2> QED BY <2>1
<1>6. CASE Restart
  BY <1>6 DEF Restart
<1>7. Stays \/ Passes
  BY <1>1, <1>2, <1>3, <1>4, <1>5, <1>6 DEF ThrottleNext
<1>8. Keeps(q)
  <2>1. CASE Stays
    BY <2>1, Carried DEF Arrive
  <2>2. CASE Passes
    BY <2>2, Carried DEF Arrive, Admit, At
  <2> QED BY <1>7, <2>1, <2>2
<1> QED BY <1>7, <1>8

\* A session is as it was, new after a restart, or what one of its requests leaves.
LEMMA SessionStep ==
  ASSUME ThrottleTypeOK, [ThrottleNext]_throttleVars, NEW s \in Sessions
  PROVE  \/ sessions'[s] = sessions[s]
         \/ Restart /\ sessions'[s] = FreshSession
         \/ \E q \in Requests :
              /\ OnItsWay(q) /\ request[q].session = s
              /\ \/ Admit(q) /\ sessions'[s] = AdmitCopyOf(q)
                 \/ LoginRefused(q) /\ sessions'[s] = RefusedCopyOf(q)
                 \/ LoginAccepted(q) /\ sessions'[s] = AcceptedCopyOf(q)
                 \/ StoreFails(q) /\ sessions'[s] = request[q].copy
                 \/ SignUp(q) /\ sessions'[s] = SignUpCopyOf(q)
<1>1. ASSUME NEW q \in Requests, Admit(q)
      PROVE  \/ sessions'[s] = sessions[s]
             \/ OnItsWay(q) /\ request[q].session = s /\ sessions'[s] = AdmitCopyOf(q)
  <2>1. OnItsWay(q)
    BY <1>1 DEF Admit, At
  <2>2. PICK until : Answered(q, AdmitCopyOf(q), TRUE, until) \/ sessions' = sessions
    BY <1>1 DEF Admit, AdmitCopyOf
  <2> QED BY <2>1, <2>2, AnsweredOnly
<1>2. ASSUME NEW q \in Requests, LoginRefused(q)
      PROVE  \/ sessions'[s] = sessions[s]
             \/ OnItsWay(q) /\ request[q].session = s /\ sessions'[s] = RefusedCopyOf(q)
  <2>1. OnItsWay(q) /\ \E until : Answered(q, RefusedCopyOf(q), TRUE, until)
    BY <1>2 DEF LoginRefused, Holds, At, RefusedCopyOf
  <2> QED BY <2>1, AnsweredOnly
<1>3. ASSUME NEW q \in Requests, LoginAccepted(q)
      PROVE  \/ sessions'[s] = sessions[s]
             \/ OnItsWay(q) /\ request[q].session = s /\ sessions'[s] = AcceptedCopyOf(q)
  <2>1. OnItsWay(q) /\ Answered(q, AcceptedCopyOf(q), FALSE, 0)
    BY <1>3 DEF LoginAccepted, Holds, At, AcceptedCopyOf
  <2> QED BY <2>1, AnsweredOnly
<1>4. ASSUME NEW q \in Requests, StoreFails(q)
      PROVE  \/ sessions'[s] = sessions[s]
             \/ OnItsWay(q) /\ request[q].session = s /\ sessions'[s] = request[q].copy
  <2>1. OnItsWay(q) /\ Answered(q, request[q].copy, TRUE, 0)
    BY <1>4 DEF StoreFails, Holds, At
  <2> QED BY <2>1, AnsweredOnly
<1>5. ASSUME NEW q \in Requests, SignUp(q)
      PROVE  \/ sessions'[s] = sessions[s]
             \/ OnItsWay(q) /\ request[q].session = s /\ sessions'[s] = SignUpCopyOf(q)
  <2>1. OnItsWay(q) /\ Answered(q, SignUpCopyOf(q), FALSE, 0)
    BY <1>5 DEF SignUp, Holds, At, SignUpCopyOf
  <2> QED BY <2>1, AnsweredOnly
<1>6. ASSUME NEW q \in Requests, Arrive(q) \/ Acquire(q) PROVE sessions'[s] = sessions[s]
  BY <1>6 DEF Arrive, Acquire
<1>7. ASSUME Tick \/ StepBack \/ UNCHANGED throttleVars PROVE sessions'[s] = sessions[s]
  <2>1. sessions' = sessions
    BY <1>7 DEF Tick, StepBack, throttleVars
  <2> QED BY <2>1
<1>8. CASE Restart
  BY <1>8 DEF Restart
<1> QED BY <1>1, <1>2, <1>3, <1>4, <1>5, <1>6, <1>7, <1>8 DEF ThrottleNext

\* The latest time of the clock only grows.
LEMMA LatestGrows ==
  ASSUME ThrottleTypeOK, [ThrottleNext]_throttleVars
  PROVE  past.latest \in Nat /\ past'.latest \in Nat /\ past.latest <= past'.latest
<1>1. past.latest \in Nat /\ clock \in Nat
  BY DEF ThrottleTypeOK, History, Time
<1>2. CASE Tick
  <2>1. past'.latest = Max({past.latest, clock + 1})
    BY <1>2 DEF Tick, ThrottleTypeOK, History
  <2>2. past.latest \in Int /\ clock + 1 \in Int
    BY <1>1
  <2>3. past'.latest \in {past.latest, clock + 1} /\ past'.latest >= past.latest
    BY <2>1, <2>2, MaxOfTwo
  <2> QED BY <1>1, <2>3
<1>3. CASE StepBack
  BY <1>1, <1>3 DEF StepBack, ThrottleTypeOK, History
<1>4. CASE ~Tick /\ ~StepBack
  BY <1>1, <1>4, ClocksKept
<1> QED BY <1>2, <1>3, <1>4

-----------------------------------------------------------------------------
(* The counters, the mutexes, the files and who is signed in. *)

Sane(copy, latest) == \A op \in Ops : Counts(copy[op], latest)

\* Time passing, reading a counter and raising it leave it a counter.
LEMMA CountsLater ==
  ASSUME NEW most \in Nat, NEW state \in Attempts(most), NEW latest \in Nat,
         NEW later \in Nat, latest <= later, Counts(state, latest)
  PROVE  Counts(state, later)
  BY DEF Counts, Attempts

LEMMA CountsNothing ==
  ASSUME NEW latest \in Nat
  PROVE  Counts(NoAttempt, latest) /\ Sane(FreshSession, latest)
  BY DEF Counts, NoAttempt, Sane, FreshSession, Ops

LEMMA CountsActive ==
  ASSUME NEW state, NEW op \in Ops, NEW now, NEW latest \in Nat, Counts(state, latest)
  PROVE  Counts(active_get(state, op, now), latest)
  BY CountsNothing, ActiveCases

LEMMA CountsRecorded ==
  ASSUME NEW most \in Nat, NEW state \in Attempts(most), NEW now \in Time,
         NEW latest \in Nat, now <= latest
  PROVE  Counts(attemptRecorded_get(state, now), latest)
  BY DEF Counts, Attempts, attemptRecorded_get, Time

\* What an answered request leaves of its session has counters.
LEMMA AnsweredSane ==
  ASSUME ThrottleTypeOK, Clocks, Counters, NEW q \in Requests, OnItsWay(q)
  PROVE  /\ Sane(AdmitCopyOf(q), past.latest)
         /\ Admitted(q) => /\ Sane(request[q].copy, past.latest)
                           /\ Sane(RefusedCopyOf(q), past.latest)
                           /\ Sane(AcceptedCopyOf(q), past.latest)
                           /\ Sane(SignUpCopyOf(q), past.latest)
<1> DEFINE r == request[q]
<1>1. /\ r.session \in Sessions /\ r.op \in Ops /\ r.now \in Time /\ r.copy \in Session
      /\ sessions[r.session] \in Session
      /\ clock \in Time /\ past.latest \in Nat /\ r.now <= past.latest /\ clock <= past.latest
  BY RequestType DEF ThrottleTypeOK, History, Time, Clocks
<1>2. Sane(AdmitCopyOf(q), past.latest)
  <2>1. Sane(sessions[r.session], past.latest)
    BY <1>1 DEF Counters, Sane
  <2>2. Counts(AdmitCopyOf(q)[r.op], past.latest)
    BY <1>1, <2>1, AdmitCopy, CountsActive DEF AdmitCopyOf, Sane
  <2>3. \A other \in Ops \ {r.op} : AdmitCopyOf(q)[other] = sessions[r.session][other]
    BY AdmitCopy DEF AdmitCopyOf
  <2> QED BY <2>1, <2>2, <2>3 DEF Sane
<1>3. ASSUME Admitted(q)
      PROVE  /\ Sane(r.copy, past.latest) /\ Sane(RefusedCopyOf(q), past.latest)
             /\ Sane(AcceptedCopyOf(q), past.latest) /\ Sane(SignUpCopyOf(q), past.latest)
  <2>1. Sane(r.copy, past.latest)
    BY <1>3 DEF Counters, Sane
  <2>2. r.copy.login \in Attempts(LoginMax) /\ r.copy.sign \in Attempts(SignMax)
    BY <1>1 DEF Session
  <2>3. /\ Counts(r.copy.login, past.latest) /\ Counts(r.copy.sign, past.latest)
        /\ Counts(NoAttempt, past.latest)
        /\ Counts(attemptRecorded_get(r.copy.login, r.now), past.latest)
        /\ Counts(attemptRecorded_get(r.copy.sign, clock), past.latest)
    BY <1>1, <2>1, <2>2, CountsNothing, CountsRecorded, Policies DEF Sane, Ops
  <2>4. /\ RefusedCopyOf(q).login = attemptRecorded_get(r.copy.login, r.now)
        /\ RefusedCopyOf(q).sign = r.copy.sign
        /\ AcceptedCopyOf(q).login = NoAttempt /\ AcceptedCopyOf(q).sign = r.copy.sign
        /\ SignUpCopyOf(q).login = r.copy.login
        /\ SignUpCopyOf(q).sign = attemptRecorded_get(r.copy.sign, clock)
    BY <1>1 DEF Session, RefusedCopyOf, AcceptedCopyOf, SignUpCopyOf
  <2> QED BY <2>1, <2>3, <2>4 DEF Sane, Ops
<1> QED BY <1>2, <1>3

LEMMA CountersStep ==
  ThrottleTypeOK /\ Clocks /\ Counters /\ [ThrottleNext]_throttleVars => Counters'
<1> SUFFICES ASSUME ThrottleTypeOK, Clocks, Counters, [ThrottleNext]_throttleVars
             PROVE  Counters'
  OBVIOUS
<1>1. past.latest \in Nat /\ past'.latest \in Nat /\ past.latest <= past'.latest
  BY LatestGrows
<1>2. ASSUME NEW copy \in Session, Sane(copy, past.latest) PROVE Sane(copy, past'.latest)
  BY <1>1, <1>2, SessionCounters, CountsLater DEF Sane
<1>3. ASSUME NEW i \in Identities PROVE Counts(tracked'[i], past'.latest)
  <2>1. /\ tracked[i] \in Attempts(LoginMax + Cardinality(Requests))
        /\ LoginMax + Cardinality(Requests) \in Nat
    BY Policies, RequestCount DEF ThrottleTypeOK
  <2>2. Counts(tracked[i], past'.latest)
    BY <1>1, <2>1, CountsLater DEF Counters
  <2>3. ASSUME NEW now PROVE Counts(Retained(now)[i], past'.latest)
    BY <1>1, <2>2, CountsActive DEF Retained, Ops
  <2>4. ASSUME NEW q \in Requests, LoginRefused(q) PROVE Counts(tracked'[i], past'.latest)
    <3> DEFINE r == request[q]
               kept == Retained(r.now)
    <3>1. OnItsWay(q) /\ tracked' = attempt_record(r.identity, r.now)
      BY <2>4 DEF LoginRefused, Holds, At
    <3>2. r.now \in Time /\ r.now <= past'.latest /\ r.now \in Nat
      BY <1>1, <3>1, RequestType DEF Clocks, Time
    <3>3. tracked'[i] = kept[i] \/ tracked'[i] = attemptRecorded_get(kept[i], r.now)
      BY <3>1 DEF attempt_record, Retained
    <3>4. kept[i] \in Attempts(LoginMax + Cardinality(Requests))
      BY <3>2, RetainedType
    <3> HIDE DEF kept, r
    <3>5. Counts(attemptRecorded_get(kept[i], r.now), past'.latest)
      BY <1>1, <2>1, <3>2, <3>4, CountsRecorded
    <3> QED BY <2>3, <3>3, <3>5 DEF kept
  <2>5. ASSUME NEW q \in Requests, Admit(q) PROVE Counts(tracked'[i], past'.latest)
    <3>1. tracked' = tracked \/ tracked' = Retained(request[q].now)
      BY <2>5 DEF Admit
    <3> QED BY <2>2, <2>3, <3>1
  <2>6. ASSUME NEW q \in Requests, LoginAccepted(q) PROVE Counts(tracked'[i], past'.latest)
    <3>1. tracked'[i] = tracked[i] \/ tracked'[i] = NoAttempt
      BY <2>6 DEF LoginAccepted, ThrottleTypeOK
    <3> QED BY <1>1, <2>2, <3>1, CountsNothing
  <2>7. CASE Restart
    BY <1>1, <2>7, CountsNothing DEF Restart
  <2>8. ASSUME \/ \E q \in Requests : Arrive(q) \/ Acquire(q) \/ StoreFails(q) \/ SignUp(q)
               \/ Tick \/ StepBack \/ UNCHANGED throttleVars
        PROVE  Counts(tracked'[i], past'.latest)
    <3>1. tracked' = tracked
      BY <2>8 DEF Arrive, Acquire, StoreFails, SignUp, Tick, StepBack, throttleVars
    <3> QED BY <2>2, <3>1
  <2> QED BY <2>4, <2>5, <2>6, <2>7, <2>8 DEF ThrottleNext
<1>4. ASSUME NEW s \in Sessions PROVE Sane(sessions'[s], past'.latest)
  <2>1. CASE sessions'[s] = sessions[s]
    <3>1. sessions[s] \in Session /\ Sane(sessions[s], past.latest)
      BY DEF ThrottleTypeOK, Counters, Sane
    <3> QED BY <1>2, <2>1, <3>1
  <2>2. CASE sessions'[s] = FreshSession
    BY <1>1, <2>2, CountsNothing
  <2>3. ASSUME NEW q \in Requests, OnItsWay(q), Admit(q), sessions'[s] = AdmitCopyOf(q)
        PROVE  Sane(sessions'[s], past'.latest)
    BY <1>2, <2>3, AnsweredSane, AdmitCopy DEF AdmitCopyOf
  <2>4. ASSUME NEW q \in Requests, OnItsWay(q), LoginRefused(q), sessions'[s] = RefusedCopyOf(q)
        PROVE  Sane(sessions'[s], past'.latest)
    <3>1. Admitted(q) /\ Holds(q, "login")
      BY <2>4 DEF LoginRefused, Holds, At, Admitted
    <3> QED BY <1>2, <2>4, <3>1, AnsweredSane, RefusedCopy DEF RefusedCopyOf
  <2>5. ASSUME NEW q \in Requests, OnItsWay(q), LoginAccepted(q), sessions'[s] = AcceptedCopyOf(q)
        PROVE  Sane(sessions'[s], past'.latest)
    <3>1. Admitted(q) /\ AcceptedCopyOf(q) \in Session
      BY <2>5, RequestType, NothingTypes, Policies
         DEF LoginAccepted, Holds, At, Admitted, AcceptedCopyOf, Session
    <3> QED BY <1>2, <2>5, <3>1, AnsweredSane
  <2>6. ASSUME NEW q \in Requests, OnItsWay(q), StoreFails(q), sessions'[s] = request[q].copy
        PROVE  Sane(sessions'[s], past'.latest)
    <3>1. Admitted(q)
      BY <2>6 DEF StoreFails, Holds, At, Admitted
    <3> QED BY <1>2, <2>6, <3>1, AnsweredSane, RequestType
  <2>7. ASSUME NEW q \in Requests, OnItsWay(q), SignUp(q), sessions'[s] = SignUpCopyOf(q)
        PROVE  Sane(sessions'[s], past'.latest)
    <3>1. Admitted(q) /\ Holds(q, "sign")
      BY <2>7 DEF SignUp, Holds, At, Admitted
    <3> QED BY <1>2, <2>7, <3>1, AnsweredSane, SignUpCopy DEF SignUpCopyOf
  <2> QED BY <2>1, <2>2, <2>3, <2>4, <2>5, <2>6, <2>7, SessionStep
<1>5. ASSUME NEW q \in Requests, Admitted(q)'
      PROVE  /\ Sane(request'[q].copy, past'.latest)
             /\ request'[q].copy[request'[q].op].attempts < Policy(request'[q].op).max
  <2>1. CASE Admitted(q) /\ Keeps(q) /\ request'[q].copy = request[q].copy
    <3>1. request[q].copy \in Session /\ Sane(request[q].copy, past.latest)
      BY <2>1, RequestType, AnsweredSane DEF Admitted
    <3> QED BY <1>2, <2>1, <3>1 DEF Counters, Keeps
  <2>2. CASE Admit(q) /\ Keeps(q) /\ request'[q].copy = AdmitCopyOf(q)
    <3> DEFINE r == request[q]
               counter == active_get(sessions[r.session][r.op], r.op, r.now)
    <3>1. OnItsWay(q) /\ r.op \in Ops
      BY <2>2, RequestType DEF Keeps
    <3>2. /\ AdmitCopyOf(q) \in Session /\ Sane(AdmitCopyOf(q), past.latest)
          /\ AdmitCopyOf(q)[r.op] = counter /\ counter \in Attempts(Policy(r.op).max)
      BY <3>1, AdmitCopy, AnsweredSane DEF AdmitCopyOf
    <3>3. lockedUntil_get(counter, r.op) = 0
      <4>1. SUFFICES ASSUME lockedUntil_get(counter, r.op) # 0 PROVE FALSE
        OBVIOUS
      <4>2. Answered(q, AdmitCopyOf(q), TRUE, lockedUntil_get(counter, r.op))
        BY <2>2, <4>1 DEF Admit, AdmitCopyOf
      <4> QED BY <1>5, <3>1, <4>2, AnsweredOnly DEF Admitted
    <3>4. counter.attempts < Policy(r.op).max
      BY <3>1, <3>2, <3>3, LockCases, Policies DEF Ops
    <3> QED BY <1>2, <2>2, <3>2, <3>4 DEF Keeps
  <2> QED BY <1>5, <2>1, <2>2, AdmittedStep
<1> QED BY <1>3, <1>4, <1>5 DEF Counters, Sane

\* Nobody takes the mutex of an account from its holder, and nobody else stores
\* the account.
LEMMA MutexesStep ==
  ThrottleTypeOK /\ Mutexes /\ [ThrottleNext]_throttleVars => Mutexes'
<1> SUFFICES ASSUME ThrottleTypeOK, Mutexes, [ThrottleNext]_throttleVars,
                    NEW q \in Requests, At(q, "holding")'
             PROVE  /\ mutex'[request'[q].identity] = q
                    /\ request'[q].seen = accounts'[request'[q].identity]
  BY DEF Mutexes
<1> DEFINE Holder(p) == /\ mutex'[request'[p].identity] = p
                        /\ request'[p].seen = accounts'[request'[p].identity]
<1>1. request'[q] # Nobody /\ request'[q].at = "holding"
  BY DEF At, OnItsWay
\* Another request that holds a mutex holds that of another account.
<1>2. ASSUME NEW p \in Requests, At(p, "queued") \/ At(p, "holding"), p # q,
             request'[q] = request[q],
             At(p, "queued") => mutex[request[p].identity] = Nobody,
             NEW m, mutex' = [mutex EXCEPT ![request[p].identity] = m],
             NEW a, accounts' = accounts \/ accounts' = [accounts EXCEPT ![request[p].identity] = a]
      PROVE  Holder(q)
  <2>1. At(q, "holding") /\ request[q].identity \in Identities
    BY <1>1, <1>2, RequestType DEF At, OnItsWay
  <2>2. mutex[request[q].identity] = q /\ request[q].seen = accounts[request[q].identity]
    BY <2>1 DEF Mutexes
  <2>3. request[p].identity # request[q].identity
    BY <1>2, <2>1, <2>2, ThrottleAssumption DEF Mutexes
  <2> QED BY <1>2, <2>1, <2>2, <2>3 DEF ThrottleTypeOK
<1>3. ASSUME UNCHANGED <<mutex, accounts>>, request'[q] = request[q] PROVE Holder(q)
  BY <1>1, <1>3 DEF Mutexes, At, OnItsWay
<1>4. ASSUME NEW p \in Requests, Arrive(p) PROVE Holder(q)
  <2>1. request'[q] = request[q]
    BY <1>1, <1>4 DEF Arrive, ThrottleTypeOK
  <2> QED BY <1>3, <1>4, <2>1 DEF Arrive
<1>5. ASSUME NEW p \in Requests, Admit(p) PROVE Holder(q)
  <2>1. PICK until : \/ Answered(p, AdmitCopyOf(p), TRUE, until)
                     \/ request' = [request EXCEPT ![p].at = "queued", ![p].copy = AdmitCopyOf(p)]
    BY <1>5 DEF Admit, AdmitCopyOf
  <2>2. OnItsWay(p) /\ request[p] \in Request
    BY <1>5, RequestType DEF Admit, At
  <2>3. p # q
    <3>1. CASE Answered(p, AdmitCopyOf(p), TRUE, until)
      BY <1>1, <2>2, <3>1, AnsweredOnly DEF OnItsWay
    <3>2. CASE request' = [request EXCEPT ![p].at = "queued", ![p].copy = AdmitCopyOf(p)]
      BY <1>1, <2>2, <3>2 DEF ThrottleTypeOK, Request
    <3> QED BY <2>1, <3>1, <3>2
  <2>4. request'[q] = request[q]
    BY <2>1, <2>2, <2>3, AnsweredOnly DEF ThrottleTypeOK
  <2> QED BY <1>3, <1>5, <2>4 DEF Admit
<1>6. ASSUME NEW p \in Requests, Acquire(p) PROVE Holder(q)
  <2>1. /\ OnItsWay(p) /\ request[p] \in Request /\ request[p].identity \in Identities
        /\ accounts' = accounts /\ mutex[request[p].identity] = Nobody
    BY <1>6, RequestType DEF Acquire, At
  <2>2. CASE p = q
    BY <1>6, <2>1, <2>2 DEF Acquire, ThrottleTypeOK, Request
  <2>3. CASE p # q
    <3>1. request'[q] = request[q] /\ At(p, "queued")
      BY <1>6, <2>3 DEF Acquire, ThrottleTypeOK
    <3>2. mutex' = [mutex EXCEPT ![request[p].identity] = p]
      BY <1>6 DEF Acquire
    <3> QED BY <1>2, <2>1, <2>3, <3>1, <3>2
  <2> QED BY <2>2, <2>3
<1>7. ASSUME NEW p \in Requests,
             LoginRefused(p) \/ LoginAccepted(p) \/ StoreFails(p) \/ SignUp(p)
      PROVE  Holder(q)
  <2>1. OnItsWay(p) /\ At(p, "holding")
    BY <1>7 DEF LoginRefused, LoginAccepted, StoreFails, SignUp, Holds, At
  <2>2. PICK copy, error, until : Answered(p, copy, error, until)
    BY <1>7 DEF LoginRefused, LoginAccepted, StoreFails, SignUp
  <2>3. p # q /\ request'[q] = request[q]
    BY <1>1, <2>1, <2>2, AnsweredOnly DEF OnItsWay
  <2>4. mutex' = [mutex EXCEPT ![request[p].identity] = Nobody]
    BY <1>7 DEF LoginRefused, LoginAccepted, StoreFails, SignUp, Release
  <2>5. \/ accounts' = accounts
        \/ accounts' = [accounts EXCEPT ![request[p].identity] =
                          [form |-> "argon2", credential |-> request[p].credential]]
    BY <1>7 DEF LoginRefused, LoginAccepted, StoreFails, SignUp
  <2>6. ~At(p, "queued")
    BY <2>1 DEF At
  <2> QED BY <1>2, <2>1, <2>3, <2>4, <2>5, <2>6
<1>8. CASE Tick \/ StepBack \/ UNCHANGED throttleVars
  <2>1. UNCHANGED <<mutex, accounts, request>>
    BY <1>8 DEF Tick, StepBack, throttleVars
  <2> QED BY <1>3, <2>1
<1>9. CASE Restart
  BY <1>1, <1>9 DEF Restart
<1> QED BY <1>4, <1>5, <1>6, <1>7, <1>8, <1>9 DEF ThrottleNext

\* An account exists exactly when it has a credential, which no step changes.
LEMMA FilesStep ==
  ASSUME ThrottleTypeOK, Mutexes, FilesAgree, [ThrottleNext]_throttleVars
  PROVE  /\ FilesAgree'
         /\ \A i \in Identities : accounts[i].credential # Nobody =>
              accounts'[i].credential = accounts[i].credential
<1> DEFINE Kept == \A i \in Identities : accounts[i].credential # Nobody =>
                     accounts'[i].credential = accounts[i].credential
<1>1. ASSUME accounts' = accounts PROVE FilesAgree' /\ Kept
  BY <1>1 DEF FilesAgree
<1>2. ASSUME NEW q \in Requests, At(q, "holding"),
             accounts' = [accounts EXCEPT ![request[q].identity] =
                            [form |-> "argon2", credential |-> request[q].credential]],
             \/ request[q].seen.form = "absent"
             \/ request[q].seen.credential = request[q].credential
      PROVE  FilesAgree' /\ Kept
  <2>1. OnItsWay(q) /\ request[q].seen = accounts[request[q].identity]
    BY <1>2 DEF At, Mutexes
  <2>2. request[q].identity \in Identities /\ request[q].credential # Nobody
    BY <2>1, RequestType, ThrottleAssumption
  <2>3. accounts'[request[q].identity].credential = request[q].credential
    BY <1>2, <2>2 DEF ThrottleTypeOK
  <2>4. \A i \in Identities \ {request[q].identity} : accounts'[i] = accounts[i]
    BY <1>2 DEF ThrottleTypeOK
  <2>5. accounts'[request[q].identity].form # "absent"
    BY <1>2, <2>2 DEF ThrottleTypeOK
  <2> QED BY <1>2, <2>1, <2>2, <2>3, <2>4, <2>5 DEF FilesAgree
<1>3. ASSUME NEW q \in Requests, LoginAccepted(q) PROVE FilesAgree' /\ Kept
  BY <1>2, <1>3 DEF LoginAccepted, Holds, Matches
<1>4. ASSUME NEW q \in Requests, SignUp(q) PROVE FilesAgree' /\ Kept
  BY <1>1, <1>2, <1>4 DEF SignUp, Holds
<1>5. ASSUME \/ \E q \in Requests : \/ Arrive(q) \/ Admit(q) \/ Acquire(q)
                                    \/ LoginRefused(q) \/ StoreFails(q)
             \/ Tick \/ StepBack \/ Restart \/ UNCHANGED throttleVars
      PROVE  accounts' = accounts
  BY <1>5 DEF Arrive, Admit, Acquire, LoginRefused, StoreFails, Tick, StepBack, Restart,
              throttleVars
<1> QED BY <1>1, <1>3, <1>4, <1>5 DEF ThrottleNext

\* What was proved stays proved.
LEMMA ProvedGrows ==
  ASSUME ThrottleTypeOK, [ThrottleNext]_throttleVars
  PROVE  /\ past.proved \subseteq past'.proved
         /\ \A q \in Requests : LoginAccepted(q) =>
              <<request[q].session, request[q].identity>> \in past'.proved
<1> USE DEF ThrottleTypeOK, History
<1>1. ASSUME NEW q \in Requests, LoginAccepted(q)
      PROVE  past'.proved = past.proved \cup {<<request[q].session, request[q].identity>>}
  BY <1>1 DEF LoginAccepted
<1>2. ASSUME NEW q \in Requests, \/ Arrive(q) \/ Admit(q) \/ Acquire(q) \/ StoreFails(q)
      PROVE  past'.proved = past.proved
  BY <1>2 DEF Arrive, Admit, Acquire, StoreFails
<1>3. ASSUME NEW q \in Requests, LoginRefused(q) \/ SignUp(q)
      PROVE  past'.proved = past.proved
  BY <1>3 DEF LoginRefused, SignUp
<1>4. ASSUME Tick \/ StepBack \/ Restart PROVE past'.proved = past.proved
  BY <1>4 DEF Tick, StepBack, Restart
<1>5. ASSUME UNCHANGED throttleVars PROVE past'.proved = past.proved
  BY <1>5 DEF throttleVars
<1> QED BY <1>1, <1>2, <1>3, <1>4, <1>5 DEF ThrottleNext

LEMMA SignedStep ==
  ThrottleTypeOK /\ Signed /\ [ThrottleNext]_throttleVars => Signed'
<1> SUFFICES ASSUME ThrottleTypeOK, Signed, [ThrottleNext]_throttleVars PROVE Signed'
  OBVIOUS
<1>1. past.proved \subseteq past'.proved
  BY ProvedGrows
\* Signing up, and failing to sign in, leave the user of the session.
<1>2. ASSUME NEW q \in Requests, OnItsWay(q)
      PROVE  /\ AdmitCopyOf(q).user = sessions[request[q].session].user
             /\ RefusedCopyOf(q).user = request[q].copy.user
             /\ AcceptedCopyOf(q).user = request[q].identity
             /\ SignUpCopyOf(q).user = request[q].copy.user
             /\ request[q].session \in Sessions
  <2>1. request[q].copy \in Session /\ request[q].session \in Sessions
    BY <1>2, RequestType
  <2>2. AdmitCopyOf(q).user = sessions[request[q].session].user
    BY <1>2, AdmitCopy DEF AdmitCopyOf
  <2> QED BY <2>1, <2>2 DEF Session, RefusedCopyOf, AcceptedCopyOf, SignUpCopyOf
<1>3. ASSUME NEW s \in Sessions, sessions'[s].user # Nobody
      PROVE  <<s, sessions'[s].user>> \in past'.proved
  <2>1. CASE sessions'[s] = sessions[s] \/ sessions'[s] = FreshSession
    BY <1>1, <1>3, <2>1 DEF Signed, FreshSession
  <2>2. ASSUME NEW q \in Requests, OnItsWay(q), request[q].session = s,
               \/ Admit(q) /\ sessions'[s] = AdmitCopyOf(q)
               \/ LoginRefused(q) /\ sessions'[s] = RefusedCopyOf(q)
               \/ LoginAccepted(q) /\ sessions'[s] = AcceptedCopyOf(q)
               \/ StoreFails(q) /\ sessions'[s] = request[q].copy
               \/ SignUp(q) /\ sessions'[s] = SignUpCopyOf(q)
        PROVE  <<s, sessions'[s].user>> \in past'.proved
    <3>1. CASE Admit(q) /\ sessions'[s] = AdmitCopyOf(q)
      BY <1>1, <1>2, <1>3, <2>2, <3>1 DEF Signed
    <3>2. CASE LoginAccepted(q) /\ sessions'[s] = AcceptedCopyOf(q)
      BY <1>2, <2>2, <3>2, ProvedGrows
    <3>3. CASE /\ LoginRefused(q) \/ StoreFails(q) \/ SignUp(q)
               /\ sessions'[s].user = request[q].copy.user
      <4>1. Admitted(q)
        BY <2>2, <3>3 DEF LoginRefused, StoreFails, SignUp, Holds, At, Admitted
      <4> QED BY <1>1, <1>3, <2>2, <3>3, <4>1 DEF Signed
    <3> QED BY <1>2, <2>2, <3>1, <3>2, <3>3
  <2> QED BY <2>1, <2>2, SessionStep
<1>4. ASSUME NEW q \in Requests, Admitted(q)', request'[q].copy.user # Nobody
      PROVE  <<request'[q].session, request'[q].copy.user>> \in past'.proved
  <2>1. CASE Admitted(q) /\ Keeps(q) /\ request'[q].copy = request[q].copy
    BY <1>1, <1>4, <2>1 DEF Signed, Keeps
  <2>2. CASE Admit(q) /\ Keeps(q) /\ request'[q].copy = AdmitCopyOf(q)
    BY <1>1, <1>2, <1>4, <2>2 DEF Signed, Keeps
  <2> QED BY <1>4, <2>1, <2>2, AdmittedStep
<1> QED BY <1>3, <1>4 DEF Signed

-----------------------------------------------------------------------------
(* Guesses. *)

\* What a step does to the counter of an account and to what it has counted:
\* nothing, find it expired, clear both, or count one more.
Expires(i, now) == tracked[i] # NoAttempt /\ now - tracked[i].last >= LoginReset
Counted(i, now) == attemptRecorded_get(Retained(now)[i], now)
Guess(i, now) == [at |-> now, nth |-> Cardinality(past.guessed[i]) + 1]

LEMMA RetainedCases ==
  ASSUME ThrottleTypeOK, Counters, NEW i \in Identities, NEW now \in Time
  PROVE  \/ Retained(now)[i] = tracked[i]
         \/ Retained(now)[i] = NoAttempt /\ Expires(i, now)
<1>1. tracked[i].last = 0 => tracked[i] = NoAttempt
  BY DEF Counters, Counts, NoAttempt, ThrottleTypeOK, Attempts
<1>2. Retained(now)[i] = active_get(tracked[i], "login", now)
  BY DEF Retained
<1> QED BY <1>1, <1>2, ActiveCases, Policies DEF Expires, Ops

LEMMA CounterStep ==
  ASSUME ThrottleTypeOK, Counters, [ThrottleNext]_throttleVars, NEW i \in Identities
  PROVE  \/ tracked'[i] = tracked[i] /\ past'.guessed[i] = past.guessed[i]
         \/ /\ tracked'[i] = NoAttempt /\ past'.guessed[i] = past.guessed[i]
            /\ \E q \in Requests : OnItsWay(q) /\ Expires(i, request[q].now)
         \/ tracked'[i] = NoAttempt /\ past'.guessed[i] = {}
         \/ \E q \in Guessing(i) :
              /\ LoginRefused(q)
              /\ tracked'[i] = Counted(i, request[q].now)
              /\ past'.guessed[i] = past.guessed[i] \cup {Guess(i, request[q].now)}
<1> DEFINE Same == tracked'[i] = tracked[i] /\ past'.guessed[i] = past.guessed[i]
           Expired == /\ tracked'[i] = NoAttempt /\ past'.guessed[i] = past.guessed[i]
                      /\ \E q \in Requests : OnItsWay(q) /\ Expires(i, request[q].now)
<1>1. past.guessed \in [Identities -> SUBSET [at: Time, nth: Nat]]
  BY DEF ThrottleTypeOK, History
<1>2. ASSUME NEW q \in Requests, OnItsWay(q), tracked'[i] = Retained(request[q].now)[i],
             past'.guessed[i] = past.guessed[i]
      PROVE  Same \/ Expired
  BY <1>2, RetainedCases, RequestType
<1>3. ASSUME tracked' = tracked, past'.guessed = past.guessed PROVE Same
  BY <1>3
<1>4. ASSUME NEW q \in Requests, Admit(q) PROVE Same \/ Expired
  <2>1. /\ OnItsWay(q) /\ past' = past
        /\ tracked' = tracked \/ tracked' = Retained(request[q].now)
    BY <1>4 DEF Admit, At
  <2> QED BY <1>2, <1>3, <2>1
<1>5. ASSUME NEW q \in Requests, LoginRefused(q)
      PROVE  \/ Same \/ Expired
             \/ /\ q \in Guessing(i)
                /\ tracked'[i] = Counted(i, request[q].now)
                /\ past'.guessed[i] = past.guessed[i] \cup {Guess(i, request[q].now)}
  <2> DEFINE r == request[q]
  <2>1. OnItsWay(q) /\ q \in Guessing(r.identity) /\ r.identity \in Identities
    BY <1>5, RequestType DEF LoginRefused, Holds, At, Guessing, Admitted
  <2>2. CASE Crowded(Retained(r.now), r.identity)
    <3>1. tracked' = Retained(r.now) /\ past' = past
      BY <1>5, <2>2 DEF LoginRefused, attempt_record
    <3> QED BY <1>2, <2>1, <3>1
  <2>3. CASE ~Crowded(Retained(r.now), r.identity)
    <3>1. tracked' = [Retained(r.now) EXCEPT ![r.identity] =
                        attemptRecorded_get(Retained(r.now)[r.identity], r.now)]
      BY <1>5, <2>3 DEF LoginRefused, attempt_record
    <3>2. past'.guessed = [past.guessed EXCEPT ![r.identity] =
                             @ \cup {[at |-> r.now, nth |-> Cardinality(@) + 1]}]
      <4>1. past' = [past EXCEPT !.guessed[r.identity] =
                        @ \cup {[at |-> r.now, nth |-> Cardinality(@) + 1]}]
        BY <1>5, <2>3 DEF LoginRefused
      <4> QED BY <4>1 DEF ThrottleTypeOK, History
    <3>3. CASE r.identity = i
      BY <1>1, <2>1, <3>1, <3>2, <3>3 DEF Counted, Guess, Retained
    <3>4. CASE r.identity # i
      <4>1. tracked'[i] = Retained(r.now)[i] /\ past'.guessed[i] = past.guessed[i]
        BY <1>1, <3>1, <3>2, <3>4 DEF Retained
      <4> QED BY <1>2, <2>1, <4>1
    <3> QED BY <3>3, <3>4
  <2> QED BY <2>2, <2>3
<1>6. ASSUME NEW q \in Requests, LoginAccepted(q)
      PROVE  Same \/ (tracked'[i] = NoAttempt /\ past'.guessed[i] = {})
  <2>1. /\ tracked' = [tracked EXCEPT ![request[q].identity] = NoAttempt]
        /\ past'.guessed = [past.guessed EXCEPT ![request[q].identity] = {}]
    BY <1>6 DEF LoginAccepted, ThrottleTypeOK, History
  <2>2. CASE request[q].identity = i
    BY <1>1, <2>1, <2>2 DEF ThrottleTypeOK
  <2>3. CASE request[q].identity # i
    BY <1>1, <2>1, <2>3 DEF ThrottleTypeOK
  <2> QED BY <2>2, <2>3
<1>7. ASSUME NEW q \in Requests, Arrive(q) \/ Acquire(q) \/ StoreFails(q) \/ SignUp(q) PROVE Same
  <2>1. tracked' = tracked
    BY <1>7 DEF Arrive, Acquire, StoreFails, SignUp
  <2>2. past'.guessed = past.guessed
    <3>1. CASE Arrive(q)
      BY <3>1 DEF Arrive, ThrottleTypeOK, History
    <3>2. CASE Acquire(q) \/ StoreFails(q)
      BY <3>2 DEF Acquire, StoreFails
    <3>3. CASE SignUp(q)
      BY <3>3 DEF SignUp, ThrottleTypeOK, History
    <3> QED BY <1>7, <3>1, <3>2, <3>3
  <2> QED BY <1>3, <2>1, <2>2
<1>8. CASE Tick \/ StepBack \/ UNCHANGED throttleVars
  <2>1. tracked' = tracked
    BY <1>8 DEF Tick, StepBack, throttleVars
  <2>2. past'.guessed = past.guessed
    BY <1>8 DEF Tick, StepBack, throttleVars, ThrottleTypeOK, History
  <2> QED BY <1>3, <2>1, <2>2
<1>9. CASE Restart
  BY <1>9 DEF Restart, ThrottleTypeOK, History
<1> QED BY <1>4, <1>5, <1>6, <1>7, <1>8, <1>9 DEF ThrottleNext

LEMMA BudgetInit == ThrottleInit => Budget
<1> SUFFICES ASSUME ThrottleInit, NEW i \in Identities
             PROVE  tracked[i].attempts + Cardinality(Guessing(i)) <= Limit
  BY DEF Budget
<1>1. tracked[i].attempts = 0 /\ Guessing(i) = {}
  BY DEF ThrottleInit, NoAttempt, Guessing, Admitted, OnItsWay
<1> QED BY <1>1, FS_EmptySet, Policies, RequestCount DEF Limit

\* Whoever passes the check of the lock finds the counter below its maximum, and
\* whoever is refused is on its way no more.
LEMMA BudgetStep ==
  ThrottleTypeOK /\ Counters /\ Budget /\ [ThrottleNext]_throttleVars => Budget'
<1> SUFFICES ASSUME ThrottleTypeOK, Counters, Budget, [ThrottleNext]_throttleVars,
                    NEW i \in Identities
             PROVE  tracked'[i].attempts + Cardinality(Guessing(i)') <= Limit
  BY DEF Budget
<1> DEFINE before == Guessing(i)
           after == Guessing(i)'
<1>1. /\ tracked[i].attempts \in Nat /\ Cardinality(before) \in Nat /\ IsFiniteSet(before)
      /\ tracked[i].attempts + Cardinality(before) <= Limit
      /\ Limit \in Int
  BY GuessingFinite, RequestCount DEF ThrottleTypeOK, Attempts, Budget
<1>2. after \subseteq Requests
  BY DEF Guessing
<1>3. /\ IsFiniteSet(after) /\ Cardinality(after) \in Nat
      /\ Cardinality(after) <= Cardinality(Requests)
  BY <1>2, RequestCount, FS_Subset, FS_CardinalityType
\* A request that is in the set now was there before, or passes the check.
<1>4. ASSUME NEW q \in after PROVE q \in before \/ Admit(q)
  <2>1. Admitted(q)' /\ request'[q].op = "login" /\ request'[q].identity = i /\ q \in Requests
    BY DEF Guessing
  <2> QED BY <2>1, AdmittedStep DEF Keeps, Guessing
<1>5. ASSUME tracked'[i].attempts \in Nat, tracked'[i].attempts <= tracked[i].attempts,
             after \subseteq before
      PROVE  tracked'[i].attempts + Cardinality(after) <= Limit
  <2>1. Cardinality(after) <= Cardinality(before)
    BY <1>1, <1>5, FS_Subset
  <2> HIDE DEF after, before
  <2> QED BY <1>1, <1>3, <1>5, <2>1
<1>6. CASE after \subseteq before /\ ~\E q \in before : LoginRefused(q)
  <2>1. tracked'[i] = tracked[i] \/ tracked'[i] = NoAttempt
    BY <1>6, CounterStep
  <2>2. tracked'[i].attempts \in Nat /\ tracked'[i].attempts <= tracked[i].attempts
    BY <1>1, <2>1 DEF NoAttempt
  <2> QED BY <1>5, <1>6, <2>2
<1>7. ASSUME NEW q \in before, LoginRefused(q)
      PROVE  tracked'[i].attempts + Cardinality(after) <= Limit
  <2>1. q \in Requests /\ OnItsWay(q) /\ \E copy, until : Answered(q, copy, TRUE, until)
    BY <1>7 DEF LoginRefused, Holds, At, Guessing
  <2>2. q \notin after
    BY <2>1, AnsweredOnly DEF Guessing, Admitted
  <2>3. \A p \in Requests : ~Admit(p)
    <3>1. ASSUME NEW p \in Requests, Admit(p) PROVE FALSE
      <4>1. p # q
        BY <1>7, <3>1 DEF Admit, LoginRefused, Holds, At
      <4>2. request'[q] = request[q]
        <5>1. PICK until : \/ Answered(p, AdmitCopyOf(p), TRUE, until)
                           \/ request' = [request EXCEPT ![p].at = "queued",
                                                         ![p].copy = AdmitCopyOf(p)]
          BY <3>1 DEF Admit, AdmitCopyOf
        <5> QED BY <2>1, <4>1, <5>1 DEF Answered, ThrottleTypeOK
      <4> QED BY <2>1, <4>2, AnsweredOnly DEF OnItsWay
    <3> QED BY <3>1
  <2>4. after \subseteq before \ {q}
    <3> HIDE DEF after, before
    <3> QED BY <1>2, <1>4, <2>2, <2>3
  <2>5. Cardinality(after) <= Cardinality(before) - 1
    <3>1. /\ IsFiniteSet(before \ {q})
          /\ Cardinality(before \ {q}) = Cardinality(before) - 1
      BY <1>1, <1>7, FS_RemoveElement
    <3> QED BY <2>4, <3>1, FS_Subset
  <2>6. tracked'[i].attempts \in Nat /\ tracked'[i].attempts <= tracked[i].attempts + 1
    <3>1. \/ tracked'[i] = tracked[i] \/ tracked'[i] = NoAttempt
          \/ \E p \in Guessing(i) : tracked'[i] = Counted(i, request[p].now)
      BY CounterStep
    <3>2. ASSUME NEW p \in Guessing(i), tracked'[i] = Counted(i, request[p].now)
          PROVE  tracked'[i].attempts \in Nat /\ tracked'[i].attempts <= tracked[i].attempts + 1
      <4>1. request[p].now \in Time
        BY <3>2, RequestType DEF Guessing, Admitted
      <4>2. Retained(request[p].now)[i] = tracked[i] \/ Retained(request[p].now)[i] = NoAttempt
        BY <4>1, RetainedCases
      <4>3. tracked'[i].attempts = Retained(request[p].now)[i].attempts + 1
        BY <3>2 DEF Counted, attemptRecorded_get
      <4> QED BY <1>1, <4>2, <4>3 DEF NoAttempt
    <3> QED BY <1>1, <3>1, <3>2 DEF NoAttempt
  <2> HIDE DEF after, before
  <2> QED BY <1>1, <1>3, <2>5, <2>6
<1>8. ASSUME NEW q \in after, q \notin before
      PROVE  tracked'[i].attempts + Cardinality(after) <= Limit
  <2> DEFINE r == request[q]
             counter == active_get(sessions[r.session][r.op], r.op, r.now)
             copy == [sessions[r.session] EXCEPT ![r.op] = counter]
             locked == lockedUntil_get(counter, r.op)
             accountLocked == IF r.op = "sign" THEN 0
                              ELSE lockedUntil_get(Retained(r.now)[r.identity], r.op)
  <2>1. Admit(q) /\ q \in Requests /\ Admitted(q)'
    BY <1>4, <1>8 DEF Guessing
  <2>2. Keeps(q) /\ request'[q].op = "login" /\ request'[q].identity = i
    BY <1>8, <2>1, AdmittedStep DEF Guessing
  <2>3. OnItsWay(q) /\ r.op = "login" /\ r.identity = i /\ r.now \in Time
    BY <2>1, <2>2, RequestType DEF Keeps
  <2>4. locked = 0 /\ accountLocked = 0
    <3>1. \A until : ~Answered(q, copy, TRUE, until)
      BY <2>1, <2>3, AnsweredOnly DEF Admitted
    <3>2. IF locked # 0 THEN Answered(q, copy, TRUE, locked)
          ELSE accountLocked # 0 => Answered(q, copy, TRUE, accountLocked)
      BY <2>1 DEF Admit
    <3> HIDE DEF copy, locked, accountLocked
    <3> QED BY <3>1, <3>2
  <2>5. tracked' = Retained(r.now)
    BY <2>1, <2>3, <2>4 DEF Admit
  <2>6. lockedUntil_get(Retained(r.now)[i], "login") = 0
    BY <2>3, <2>4
  <2>7. Retained(r.now)[i] \in Attempts(LoginMax + Cardinality(Requests))
    BY <2>3, RetainedType
  <2>8. tracked'[i].attempts < LoginMax /\ tracked'[i].attempts \in Nat
    <3>1. LoginMax + Cardinality(Requests) \in Nat /\ "login" \in Ops
      BY Policies, RequestCount DEF Ops
    <3> QED BY <2>5, <2>6, <2>7, <3>1, LockCases, Policies DEF Attempts
  <2> HIDE DEF after
  <2> QED BY <1>3, <2>8, Policies, RequestCount DEF Limit
<1> QED BY <1>6, <1>7, <1>8

\* Guesses that are forgotten now are forgotten later.
LEMMA ForgottenLater ==
  ASSUME NEW guesses \in SUBSET [at: Time, nth: Nat], NEW old \in SUBSET guesses, NEW state,
         NEW latest \in Nat, NEW later \in Nat, latest <= later,
         Forgotten(guesses, old, state, latest)
  PROVE  Forgotten(guesses, old, state, later)
<1>1. \A g \in old : g.at \in Nat /\ g.at + LoginReset <= latest + 1
  BY DEF Forgotten, Time
<1>2. \A g \in old : g.at + LoginReset <= later + 1
  BY <1>1, Policies
<1> QED BY <1>2 DEF Forgotten

\* A counter that has expired, or never counted, has forgotten all the guesses.
LEMMA ForgottenAll ==
  ASSUME NEW guesses \in SUBSET [at: Time, nth: Nat], NEW most \in Nat,
         NEW state \in Attempts(most), NEW latest \in Nat, NEW now \in Time, now <= latest,
         now - state.last >= LoginReset,
         \E old \in SUBSET guesses : Forgotten(guesses, old, state, latest)
  PROVE  Forgotten(guesses, guesses, NoAttempt, latest)
<1>1. PICK old \in SUBSET guesses : Forgotten(guesses, old, state, latest)
  OBVIOUS
<1>2. guesses \ guesses = {} /\ Cardinality(guesses \ guesses) = 0
  BY FS_EmptySet
<1>3. ASSUME NEW g \in guesses PROVE g.at + LoginReset <= latest + 1
  <2>1. g.at \in Nat /\ state.last \in Nat /\ now \in Nat
    BY DEF Time, Attempts
  <2>2. CASE g \in old
    BY <1>1, <2>2 DEF Forgotten
  <2>3. CASE g \notin old
    <3>1. g.at <= state.last + 1
      BY <1>1, <2>3 DEF Forgotten
    <3> QED BY <2>1, <3>1, Policies
  <2> QED BY <2>2, <2>3
<1> QED BY <1>2, <1>3 DEF Forgotten, NoAttempt

\* One guess more, of a request that is at most a unit old, leaves the forgotten ones.
LEMMA ForgottenMore ==
  ASSUME NEW guesses \in SUBSET [at: Time, nth: Nat], IsFiniteSet(guesses),
         NEW old \in SUBSET guesses, NEW most \in Nat, NEW state \in Attempts(most),
         NEW latest \in Nat, NEW now \in Time, now <= latest, latest <= now + 1,
         \A g \in guesses : g.at <= latest /\ g.nth <= Cardinality(guesses),
         Forgotten(guesses, old, state, latest)
  PROVE  LET guess == [at |-> now, nth |-> Cardinality(guesses) + 1]
         IN Forgotten(guesses \cup {guess}, old, attemptRecorded_get(state, now), latest)
<1> DEFINE guess == [at |-> now, nth |-> Cardinality(guesses) + 1]
           new == guesses \ old
           recorded == attemptRecorded_get(state, now)
<1>1. Cardinality(guesses) \in Nat /\ IsFiniteSet(new)
  BY FS_CardinalityType, FS_Difference
<1>2. guess \notin guesses
  BY <1>1
<1>3. (guesses \cup {guess}) \ old = new \cup {guess}
  BY <1>2
<1>4. Cardinality(new \cup {guess}) = recorded.attempts
  <2>1. Cardinality(new \cup {guess}) = Cardinality(new) + 1
    BY <1>1, <1>2, FS_AddElement
  <2> QED BY <2>1 DEF Forgotten, attemptRecorded_get
<1>5. ASSUME NEW g \in old PROVE g.at + LoginReset <= guess.at + 2
  <2>1. g.at \in Nat /\ now \in Nat /\ g.at + LoginReset <= latest + 1
    BY DEF Forgotten, Time
  <2> QED BY <2>1, Policies
<1>6. ASSUME NEW h \in new PROVE h.at <= recorded.last + 1
  <2>1. h.at \in Nat /\ now \in Nat /\ h.at <= latest /\ recorded.last = now
    BY DEF Time, attemptRecorded_get
  <2> QED BY <2>1
<1>7. guess.at <= recorded.last + 1
  BY DEF attemptRecorded_get, Time
<1> HIDE DEF guess, recorded, new
<1>8. /\ \A g \in old : g.at + LoginReset <= latest + 1
      /\ \A g \in old, h \in new : g.at + LoginReset <= h.at + 2
  BY DEF Forgotten, new
<1>9. Forgotten(guesses \cup {guess}, old, recorded, latest)
  BY <1>3, <1>4, <1>5, <1>6, <1>7, <1>8 DEF Forgotten
<1> QED BY <1>9 DEF guess, recorded

\* No window holds both forgotten guesses and others.
LEMMA WindowsApart ==
  ASSUME NEW guesses \in SUBSET [at: Time, nth: Nat], IsFiniteSet(guesses),
         NEW old \in SUBSET guesses, NEW state, NEW latest, NEW t \in Time,
         Forgotten(guesses, old, state, latest), NEW most \in Int, state.attempts <= most,
         Cardinality(GuessesWithin(old, t)) <= most
  PROVE  Cardinality(GuessesWithin(guesses, t)) <= most
<1> DEFINE window == GuessesWithin(guesses, t)
<1>1. CASE window \cap old = {}
  <2>1. window \subseteq guesses \ old
    BY <1>1 DEF GuessesWithin
  <2>2. IsFiniteSet(guesses \ old) /\ Cardinality(guesses \ old) = state.attempts
    BY FS_Difference DEF Forgotten
  <2>3. Cardinality(window) <= state.attempts /\ Cardinality(window) \in Nat /\ state.attempts \in Nat
    BY <2>1, <2>2, FS_Subset, FS_CardinalityType
  <2> QED BY <2>3
<1>2. CASE window \cap old # {}
  <2>1. PICK g \in old : t <= g.at /\ g.at < t + LoginReset - 2
    BY <1>2 DEF GuessesWithin
  <2>2. ASSUME NEW h \in window, h \notin old PROVE FALSE
    <3>1. h \in guesses \ old /\ h.at < t + LoginReset - 2
      BY <2>2 DEF GuessesWithin
    <3>2. g.at + LoginReset <= h.at + 2
      BY <3>1 DEF Forgotten
    <3>3. g.at \in Nat /\ h.at \in Nat /\ t \in Nat
      BY <3>1 DEF Time
    <3> QED BY <2>1, <3>1, <3>2, <3>3, Policies
  <2>3. window = GuessesWithin(old, t)
    BY <2>2 DEF GuessesWithin
  <2> QED BY <2>3
<1> QED BY <1>1, <1>2

LEMMA GuessesInit == ThrottleInit => Guesses /\ GuessesBounded
<1> SUFFICES ASSUME ThrottleInit PROVE Guesses /\ GuessesBounded
  OBVIOUS
<1>1. \A i \in Identities : past.guessed[i] = {} /\ tracked[i] = NoAttempt
  BY DEF ThrottleInit
<1>2. Guesses
  <2>1. {} \ {} = {} /\ Forgotten({}, {}, NoAttempt, past.latest)
    BY FS_EmptySet DEF Forgotten, NoAttempt
  <2> QED BY <1>1, <2>1, FS_EmptySet DEF Guesses
<1>3. GuessesBounded
  <2>1. \A i \in Identities, t \in Time : GuessesWithin(past.guessed[i], t) = {}
    BY <1>1 DEF GuessesWithin
  <2>2. 0 <= LoginMax + Cardinality(Requests) - 1
    BY Policies, RequestCount
  <2> QED BY <2>1, <2>2, FS_EmptySet DEF GuessesBounded
<1> QED BY <1>2, <1>3

LEMMA GuessesStep ==
  ThrottleTypeOK /\ Clocks /\ Counters /\ Guesses /\ [ThrottleNext]_throttleVars => Guesses'
<1> SUFFICES ASSUME ThrottleTypeOK, Clocks, Counters, Guesses, [ThrottleNext]_throttleVars,
                    NEW i \in Identities
             PROVE  /\ IsFiniteSet(past'.guessed[i])
                    /\ \A g \in past'.guessed[i] :
                         g.at <= past'.latest /\ g.nth <= Cardinality(past'.guessed[i])
                    /\ \E old \in SUBSET past'.guessed[i] :
                         Forgotten(past'.guessed[i], old, tracked'[i], past'.latest)
  BY DEF Guesses
<1> DEFINE G == past.guessed[i]
           most == LoginMax + Cardinality(Requests)
           Good(guesses, state, latest) ==
             /\ IsFiniteSet(guesses)
             /\ \A g \in guesses : g.at <= latest /\ g.nth <= Cardinality(guesses)
             /\ \E old \in SUBSET guesses : Forgotten(guesses, old, state, latest)
<1>1. /\ G \in SUBSET [at: Time, nth: Nat]
      /\ most \in Nat /\ tracked[i] \in Attempts(most)
      /\ past.latest \in Nat /\ past'.latest \in Nat /\ past.latest <= past'.latest
  BY Policies, RequestCount, LatestGrows DEF ThrottleTypeOK, History
<1>2. IsFiniteSet(G) /\ \A g \in G : g.at <= past.latest /\ g.nth <= Cardinality(G)
  BY DEF Guesses
<1>3. \A g \in G : g.at <= past'.latest
  BY <1>1, <1>2 DEF Time
<1>4. PICK old \in SUBSET G : Forgotten(G, old, tracked[i], past.latest)
  BY DEF Guesses
<1>5. Forgotten(G, old, tracked[i], past'.latest)
  BY <1>1, <1>4, ForgottenLater
\* The counter of the account has expired at the time of some request.
<1>6. ASSUME NEW q \in Requests, OnItsWay(q), Expires(i, request[q].now)
      PROVE  Forgotten(G, G, NoAttempt, past'.latest)
  <2>1. /\ request[q].now \in Time /\ request[q].now <= past'.latest
        /\ request[q].now - tracked[i].last >= LoginReset
    BY <1>1, <1>6, RequestType DEF Clocks, Expires, Time
  <2> QED BY <1>1, <1>5, <2>1, ForgottenAll
<1>7. CASE tracked'[i] = tracked[i] /\ past'.guessed[i] = G
  BY <1>2, <1>3, <1>5, <1>7
<1>8. CASE /\ tracked'[i] = NoAttempt /\ past'.guessed[i] = G
           /\ \E q \in Requests : OnItsWay(q) /\ Expires(i, request[q].now)
  <2>1. Forgotten(G, G, NoAttempt, past'.latest)
    BY <1>6, <1>8
  <2> HIDE DEF G
  <2> QED BY <1>2, <1>3, <1>8, <2>1
<1>9. CASE tracked'[i] = NoAttempt /\ past'.guessed[i] = {}
  <2>1. {} \ {} = {} /\ Forgotten({}, {}, NoAttempt, past'.latest)
    BY FS_EmptySet DEF Forgotten, NoAttempt
  <2> QED BY <1>9, <2>1, FS_EmptySet
<1>10. ASSUME NEW q \in Guessing(i), LoginRefused(q),
              tracked'[i] = Counted(i, request[q].now),
              past'.guessed[i] = G \cup {Guess(i, request[q].now)}
       PROVE  Good(past'.guessed[i], tracked'[i], past'.latest)
  <2> DEFINE now == request[q].now
             kept == Retained(now)[i]
  <2>1. q \in Requests /\ OnItsWay(q) /\ now \in Time /\ now <= past.latest /\ past.latest <= now + 1
    BY <1>10, RequestType DEF Guessing, Admitted, Clocks
  <2>2. past'.latest = past.latest
    BY <1>10 DEF LoginRefused, ThrottleTypeOK, History
  <2>3. kept \in Attempts(most) /\ now \in Nat
    BY <2>1, RetainedType DEF Time
  <2>4. \E some \in SUBSET G : Forgotten(G, some, kept, past.latest)
    <3>1. CASE kept = tracked[i]
      BY <1>4, <3>1
    <3>2. CASE kept = NoAttempt /\ Expires(i, now)
      BY <1>6, <2>1, <2>2, <3>2
    <3> QED BY <2>1, <3>1, <3>2, RetainedCases
  <2>5. PICK some \in SUBSET G : Forgotten(G, some, kept, past.latest)
    BY <2>4
  <2>6. tracked'[i] = attemptRecorded_get(kept, now)
    BY <1>10 DEF Counted
  <2>7. past'.guessed[i] = G \cup {[at |-> now, nth |-> Cardinality(G) + 1]}
    BY <1>10 DEF Guess
  <2> HIDE DEF kept, now, G, most
  <2>8. Forgotten(past'.guessed[i], some, tracked'[i], past'.latest)
    BY <1>1, <1>2, <2>1, <2>2, <2>3, <2>5, <2>6, <2>7, ForgottenMore
  <2>9. Cardinality(G) \in Nat
    BY <1>2, FS_CardinalityType
  <2>10. [at |-> now, nth |-> Cardinality(G) + 1] \notin G
    BY <1>2, <2>9
  <2>11. /\ IsFiniteSet(past'.guessed[i])
         /\ Cardinality(past'.guessed[i]) = Cardinality(G) + 1
    BY <1>2, <2>7, <2>10, FS_AddElement
  <2>12. \A g \in G : g.nth \in Nat
    BY <1>1
  <2>13. \A g \in past'.guessed[i] : g.at <= past'.latest /\ g.nth <= Cardinality(past'.guessed[i])
    BY <1>2, <2>1, <2>2, <2>7, <2>9, <2>11, <2>12
  <2> QED BY <2>7, <2>8, <2>11, <2>13
<1> QED BY <1>7, <1>8, <1>9, <1>10, CounterStep

LEMMA WindowStep ==
  ASSUME ThrottleTypeOK, Clocks, Counters, Budget, Guesses, GuessesBounded,
         [ThrottleNext]_throttleVars, ThrottleTypeOK', Budget'
  PROVE  GuessesBounded'
<1> SUFFICES ASSUME NEW i \in Identities, NEW t \in Time
             PROVE  Cardinality(GuessesWithin(past'.guessed[i], t)) <= Limit
  BY DEF GuessesBounded, Limit
<1> DEFINE G == past.guessed[i]
           H == past'.guessed[i]
<1>1. Cardinality(GuessesWithin(G, t)) <= Limit /\ Limit \in Int /\ 0 <= Limit
  BY Policies, RequestCount DEF GuessesBounded, Limit
<1>2. CASE H = {}
  <2>1. GuessesWithin(H, t) = {}
    BY <1>2 DEF GuessesWithin
  <2> QED BY <1>1, <2>1, FS_EmptySet
<1>3. CASE H # {} /\ H # G
  <2>1. PICK q \in Guessing(i) : /\ tracked'[i] = Counted(i, request[q].now)
                                 /\ H = G \cup {Guess(i, request[q].now)}
    BY <1>3, CounterStep
  <2> DEFINE now == request[q].now
             kept == Retained(now)[i]
             most == LoginMax + Cardinality(Requests)
  <2>2. /\ q \in Requests /\ OnItsWay(q) /\ now \in Time
        /\ now <= past.latest /\ past.latest <= now + 1
    BY <2>1, RequestType DEF Guessing, Admitted, Clocks
  <2>3. /\ G \in SUBSET [at: Time, nth: Nat] /\ H \in SUBSET [at: Time, nth: Nat]
        /\ IsFiniteSet(G) /\ IsFiniteSet(H)
        /\ \A g \in G : g.at <= past.latest /\ g.nth <= Cardinality(G)
        /\ past.latest \in Nat /\ most \in Nat
        /\ tracked[i] \in Attempts(most) /\ kept \in Attempts(most)
    <3>1. IsFiniteSet(G) /\ IsFiniteSet(H)
      <4>1. IsFiniteSet(G)
        BY DEF Guesses
      <4>2. IsFiniteSet(G \cup {Guess(i, request[q].now)})
        BY <4>1, FS_AddElement
      <4> QED BY <2>1, <4>1, <4>2
    <3>2. kept \in Attempts(most)
      BY <2>2, RetainedType
    <3> QED BY <3>1, <3>2, LatestGrows, Policies, RequestCount DEF Guesses, ThrottleTypeOK, History
  <2>4. \E some \in SUBSET G : Forgotten(G, some, kept, past.latest)
    <3>1. PICK some \in SUBSET G : Forgotten(G, some, tracked[i], past.latest)
      BY DEF Guesses
    <3>2. CASE kept = tracked[i]
      BY <3>1, <3>2
    <3>3. CASE kept = NoAttempt /\ Expires(i, now)
      <4>1. now - tracked[i].last >= LoginReset
        BY <3>3 DEF Expires
      <4> HIDE DEF kept, now, most, G
      <4> QED BY <2>2, <2>3, <3>1, <3>3, <4>1, ForgottenAll
    <3> QED BY <2>2, <3>2, <3>3, RetainedCases
  <2>5. PICK some \in SUBSET G : Forgotten(G, some, kept, past.latest)
    BY <2>4
  <2>6. /\ tracked'[i] = attemptRecorded_get(kept, now)
        /\ H = G \cup {[at |-> now, nth |-> Cardinality(G) + 1]}
    BY <2>1 DEF Counted, Guess
  <2>7. tracked'[i].attempts <= Limit
    <3>1. /\ tracked'[i].attempts + Cardinality(Guessing(i)') <= Limit
          /\ tracked'[i].attempts \in Nat
      BY DEF Budget, ThrottleTypeOK, Attempts
    <3>2. Guessing(i)' \subseteq Requests
      BY DEF Guessing
    <3>3. Cardinality(Guessing(i)') \in Nat
      BY <3>2, RequestCount, FS_Subset, FS_CardinalityType
    <3> QED BY <1>1, <3>1, <3>3
  <2>8. Cardinality(GuessesWithin(some, t)) <= Limit
    <3>1. GuessesWithin(some, t) \subseteq GuessesWithin(G, t) /\ GuessesWithin(G, t) \subseteq G
      BY DEF GuessesWithin
    <3>2. IsFiniteSet(GuessesWithin(G, t))
      BY <2>3, <3>1, FS_Subset
    <3>3. /\ Cardinality(GuessesWithin(some, t)) <= Cardinality(GuessesWithin(G, t))
          /\ Cardinality(GuessesWithin(some, t)) \in Nat
          /\ Cardinality(GuessesWithin(G, t)) \in Nat
      BY <3>1, <3>2, FS_Subset, FS_CardinalityType
    <3> QED BY <1>1, <3>3
  <2> HIDE DEF kept, now, most, G, H
  <2>9. Forgotten(H, some, tracked'[i], past.latest)
    BY <2>2, <2>3, <2>5, <2>6, ForgottenMore
  <2>10. some \in SUBSET H
    BY <2>6
  <2> QED BY <1>1, <2>3, <2>7, <2>8, <2>9, <2>10, WindowsApart DEF H
<1>4. CASE H = G
  BY <1>1, <1>4
<1> QED BY <1>2, <1>3, <1>4

-----------------------------------------------------------------------------
(* Locks. *)

LEMMA Resets ==
  /\ Max({LoginReset, SignReset}) \in Nat
  /\ \A op \in Ops : Policy(op).reset \in Nat /\ 0 < Policy(op).reset
                     /\ Policy(op).reset <= Max({LoginReset, SignReset})
<1>1. LoginReset \in Int /\ SignReset \in Int
  BY Policies
<1>2. /\ Max({LoginReset, SignReset}) \in {LoginReset, SignReset}
      /\ Max({LoginReset, SignReset}) >= LoginReset /\ Max({LoginReset, SignReset}) >= SignReset
  BY <1>1, MaxOfTwo
<1> QED BY <1>2, Policies DEF Ops

\* A time until which a request may be told that it is locked.
Passing(q, until) ==
  until # 0 => request[q].now < until /\ until <= past.latest + Max({LoginReset, SignReset})

\* The two counters a wrong credential raises lock it for one window or not at all.
LEMMA RefusedUntil ==
  ASSUME ThrottleTypeOK, Clocks, Counters, Budget, NEW q \in Requests, Holds(q, "login")
  PROVE  LET r == request[q]
             counter == attemptRecorded_get(r.copy.login, r.now)
             until == Max({lockedUntil_get(counter, "login"), RecordedUntil(r.identity, r.now)})
         IN until \in Nat /\ Passing(q, until)
<1> DEFINE r == request[q]
           counter == attemptRecorded_get(r.copy.login, r.now)
           lock == lockedUntil_get(counter, "login")
           recorded == RecordedUntil(r.identity, r.now)
<1>1. OnItsWay(q) /\ r.now \in Nat /\ r.now <= past.latest /\ past.latest \in Nat
  <2>1. OnItsWay(q)
    BY DEF Holds, At
  <2> QED BY <2>1, RequestType DEF Clocks, Time, ThrottleTypeOK, History
<1>2. lock \in {0, r.now + LoginReset}
  BY Policies DEF lockedUntil_get, attemptRecorded_get
<1>3. recorded \in {0, r.now + LoginReset}
  <2>1. CASE Crowded(Retained(r.now), r.identity)
    BY <2>1 DEF RecordedUntil
  <2>2. CASE ~Crowded(Retained(r.now), r.identity)
    <3>1. attempt_record(r.identity, r.now)[r.identity] =
            attemptRecorded_get(Retained(r.now)[r.identity], r.now)
      BY <1>1, <2>2, RequestType DEF attempt_record, Retained
    <3>2. recorded = lockedUntil_get(attemptRecorded_get(Retained(r.now)[r.identity], r.now), "login")
      BY <2>2, <3>1 DEF RecordedUntil
    <3> QED BY <3>2, Policies DEF lockedUntil_get, attemptRecorded_get
  <2> QED BY <2>1, <2>2
<1> HIDE DEF lock, recorded
<1>4. lock \in Int /\ recorded \in Int
  BY <1>1, <1>2, <1>3, Policies
<1>5. Max({lock, recorded}) \in {0, r.now + LoginReset}
  BY <1>2, <1>3, <1>4, MaxOfTwo
<1>6. LoginReset <= Max({LoginReset, SignReset}) /\ Max({LoginReset, SignReset}) \in Nat
  BY Resets, Policies DEF Ops
<1>7. Max({lock, recorded}) \in Nat /\ Passing(q, Max({lock, recorded}))
  BY <1>1, <1>5, <1>6, Policies DEF Passing
<1> QED BY <1>7 DEF lock, recorded

\* Whoever is told of a lock when it arrives is told of one it has found active.
LEMMA FoundPassing ==
  ASSUME ThrottleTypeOK, Clocks, NEW q \in Requests, OnItsWay(q), NEW op \in Ops,
         NEW most \in Nat, NEW state \in Attempts(most), Counts(state, past.latest)
  PROVE  Passing(q, lockedUntil_get(active_get(state, op, request[q].now), op))
<1> DEFINE now == request[q].now
           until == lockedUntil_get(active_get(state, op, now), op)
<1>1. SUFFICES ASSUME until # 0
               PROVE  now < until /\ until <= past.latest + Max({LoginReset, SignReset})
  BY DEF Passing
<1>2. now \in Time /\ past.latest \in Nat /\ state.last \in Nat /\ state.last <= past.latest
  BY RequestType DEF ThrottleTypeOK, History, Time, Attempts, Counts
<1>3. now < until /\ until = state.last + Policy(op).reset
  BY <1>1, <1>2, LockIsLater
<1>4. /\ Policy(op).reset \in Nat /\ Max({LoginReset, SignReset}) \in Nat
      /\ Policy(op).reset <= Max({LoginReset, SignReset})
  BY Resets
<1> HIDE DEF until
<1> QED BY <1>2, <1>3, <1>4

LEMMA LocksStep ==
  ASSUME ThrottleTypeOK, Clocks, Counters, Budget, LocksArePassing,
         [ThrottleNext]_throttleVars
  PROVE  LocksArePassing'
<1> DEFINE window == Max({LoginReset, SignReset})
<1>1. past.latest \in Nat /\ past'.latest \in Nat /\ past.latest <= past'.latest /\ window \in Nat
  BY LatestGrows, Resets
<1>2. ASSUME answer' = answer PROVE LocksArePassing'
  <2>1. answer.until \in Nat
    BY Policies DEF ThrottleTypeOK
  <2> QED BY <1>1, <1>2, <2>1 DEF LocksArePassing
<1>3. ASSUME NEW q \in Requests, NEW copy, NEW error, NEW until, Answered(q, copy, error, until),
             until = 0 \/ (until \in Nat /\ Passing(q, until))
      PROVE  LocksArePassing'
  <2>1. answer' = [now |-> IF until = 0 THEN 0 ELSE request[q].now, until |-> until]
    BY <1>3 DEF Answered
  <2> QED BY <1>1, <1>3, <2>1 DEF LocksArePassing, Passing
<1>4. ASSUME NEW q \in Requests, Admit(q) PROVE LocksArePassing'
  <2> DEFINE r == request[q]
             locked == lockedUntil_get(active_get(sessions[r.session][r.op], r.op, r.now), r.op)
             accountLocked == lockedUntil_get(active_get(tracked[r.identity], "login", r.now), "login")
  <2>1. /\ OnItsWay(q) /\ r.session \in Sessions /\ r.op \in Ops /\ r.identity \in Identities
        /\ r.now \in Time
    BY <1>4, RequestType DEF Admit, At
  <2>2. Passing(q, locked)
    <3>1. /\ sessions[r.session][r.op] \in Attempts(Policy(r.op).max) /\ Policy(r.op).max \in Nat
          /\ Counts(sessions[r.session][r.op], past.latest)
      BY <2>1, SessionCounters DEF ThrottleTypeOK, Counters
    <3> HIDE DEF r
    <3> QED BY <2>1, <3>1, FoundPassing DEF r
  <2>3. Passing(q, accountLocked)
    <3>1. /\ tracked[r.identity] \in Attempts(LoginMax + Cardinality(Requests))
          /\ LoginMax + Cardinality(Requests) \in Nat
          /\ Counts(tracked[r.identity], past.latest)
      BY <2>1, Policies, RequestCount DEF ThrottleTypeOK, Counters
    <3>2. "login" \in Ops
      BY DEF Ops
    <3> QED BY <2>1, <3>1, <3>2, FoundPassing
  <2>4. locked \in Nat /\ accountLocked \in Nat
    <3>1. locked \in 0..(MaxTime + LoginReset + SignReset)
      BY <2>1, AdmitCopy
    <3>2. Retained(r.now)[r.identity] \in Attempts(LoginMax + Cardinality(Requests))
      BY <2>1, RetainedType
    <3>3. accountLocked = lockedUntil_get(Retained(r.now)[r.identity], "login")
      BY <2>1 DEF Retained
    <3>4. accountLocked \in 0..(MaxTime + LoginReset + SignReset)
      BY <3>2, <3>3, LockCases, Policies, RequestCount DEF Ops
    <3> QED BY <3>1, <3>4
  <2>5. \/ \E copy : Answered(q, copy, TRUE, locked)
        \/ r.op # "sign" /\ \E copy : Answered(q, copy, TRUE, accountLocked)
        \/ answer' = answer
    <3>1. Retained(r.now)[r.identity] = active_get(tracked[r.identity], "login", r.now)
      BY <2>1 DEF Retained
    <3>2. r.op = "sign" \/ r.op = "login"
      BY <2>1 DEF Ops
    <3> QED BY <1>4, <3>1, <3>2 DEF Admit
  <2> QED BY <1>2, <1>3, <2>2, <2>3, <2>4, <2>5
<1>5. ASSUME NEW q \in Requests, LoginRefused(q) PROVE LocksArePassing'
  <2>1. Holds(q, "login")
    BY <1>5 DEF LoginRefused
  <2> DEFINE r == request[q]
             counter == attemptRecorded_get(r.copy.login, r.now)
             until == Max({lockedUntil_get(counter, "login"), RecordedUntil(r.identity, r.now)})
  <2>2. \E copy : Answered(q, copy, TRUE, until)
    BY <1>5 DEF LoginRefused
  <2>3. until \in Nat /\ Passing(q, until)
    BY <2>1, RefusedUntil
  <2> HIDE DEF until
  <2> QED BY <1>3, <2>2, <2>3
<1>6. ASSUME NEW q \in Requests, LoginAccepted(q) \/ StoreFails(q) \/ SignUp(q)
      PROVE  LocksArePassing'
  <2>1. \E copy, error : Answered(q, copy, error, 0)
    BY <1>6 DEF LoginAccepted, StoreFails, SignUp
  <2> QED BY <1>3, <2>1
<1>7. ASSUME \/ \E q \in Requests : Arrive(q) \/ Acquire(q)
             \/ Tick \/ StepBack \/ Restart \/ UNCHANGED throttleVars
      PROVE  LocksArePassing'
  <2>1. answer' = answer
    BY <1>7 DEF Arrive, Acquire, Tick, StepBack, Restart, throttleVars
  <2> QED BY <1>2, <2>1
<1> QED BY <1>4, <1>5, <1>6, <1>7 DEF ThrottleNext

-----------------------------------------------------------------------------
(* The invariant, and what follows from it. *)

LEMMA ThrottleInvInit == ThrottleInit => IInv
<1> SUFFICES ASSUME ThrottleInit PROVE IInv
  OBVIOUS
<1>1. ThrottleTypeOK /\ Budget /\ Guesses /\ GuessesBounded
  BY TypeInit, BudgetInit, GuessesInit
<1>2. /\ past.latest = 1 /\ clock = 1
      /\ \A q \in Requests : ~OnItsWay(q)
  BY DEF ThrottleInit, OnItsWay
<1>3. Clocks
  BY <1>1, <1>2 DEF Clocks, ThrottleTypeOK, History
<1>4. Counters
  <2>1. \A i \in Identities : Counts(tracked[i], past.latest)
    BY <1>2, CountsNothing DEF ThrottleInit
  <2>2. \A s \in Sessions, op \in Ops : Counts(sessions[s][op], past.latest)
    BY <1>2, CountsNothing DEF ThrottleInit, Sane
  <2> QED BY <1>2, <2>1, <2>2 DEF Counters, Admitted
<1>5. Mutexes /\ Signed
  BY <1>2 DEF Mutexes, Signed, At, Admitted, ThrottleInit, FreshSession
<1>6. FilesAgree
  BY ThrottleAssumption DEF FilesAgree, ThrottleInit
<1>7. LocksArePassing
  BY DEF LocksArePassing, ThrottleInit
<1> QED BY <1>1, <1>3, <1>4, <1>5, <1>6, <1>7 DEF IInv

LEMMA ThrottleInvStep == IInv /\ [ThrottleNext]_throttleVars => IInv'
<1> SUFFICES ASSUME IInv, [ThrottleNext]_throttleVars PROVE IInv'
  OBVIOUS
<1> USE DEF IInv
<1>1. ThrottleTypeOK'
  BY TypeStep
<1>2. Clocks' /\ Counters' /\ Mutexes' /\ Signed'
  BY ClocksStep, CountersStep, MutexesStep, SignedStep
<1>3. FilesAgree'
  BY FilesStep
<1>4. Budget'
  BY BudgetStep
<1>5. Guesses'
  BY GuessesStep
<1>6. GuessesBounded'
  BY <1>1, <1>4, WindowStep
<1>7. LocksArePassing'
  BY LocksStep
<1> QED BY <1>1, <1>2, <1>3, <1>4, <1>5, <1>6, <1>7

\* What the proofs below rest on: it holds in every state of every behaviour.
THEOREM ThrottleInvariant == ThrottleSpec => []IInv
<1>1. ThrottleInit => IInv
  BY ThrottleInvInit
<1>2. IInv /\ [ThrottleNext]_throttleVars => IInv'
  BY ThrottleInvStep
<1> QED BY <1>1, <1>2, PTL DEF ThrottleSpec

\* The counters, registry, sessions, mutexes, requests and answers have their
\* types: no counter grows beyond its maximum and the requests that overlap, and
\* the registry holds no more accounts than MAX_TRACKED_ACCOUNTS
\* (user_back.rs:332 and :453).
THEOREM ThrottleTypes == ThrottleSpec => []ThrottleTypeOK
<1>1. IInv => ThrottleTypeOK
  BY DEF IInv
<1> QED BY <1>1, ThrottleInvariant, PTL

\* However many sessions guess, and however their requests overlap, an account
\* sees no more wrong credentials within a window than its policy allows, and one
\* more for each other request (user_back.rs:644).
THEOREM GuessesAreBounded == ThrottleSpec => []GuessesBounded
<1>1. IInv => GuessesBounded
  BY DEF IInv
<1> QED BY <1>1, ThrottleInvariant, PTL

\* Every lock that is told ends after it is told, and at most one window after
\* the latest time of the server (user_back.rs:338-363).
THEOREM LocksPass == ThrottleSpec => []LocksArePassing
<1>1. IInv => LocksArePassing
  BY DEF IInv
<1> QED BY <1>1, ThrottleInvariant, PTL

-----------------------------------------------------------------------------
(* Sign-ups. *)

\* A session creates an account only by signing up, and what has overlapped stays so.
LEMMA CreatedStep ==
  ASSUME ThrottleTypeOK, [ThrottleNext]_throttleVars
  PROVE  /\ past.overlapped \subseteq past'.overlapped
         /\ \A s \in Sessions :
              \/ past'.created[s] = past.created[s]
              \/ past'.created[s] = 0
              \/ \E q \in Requests : SignUp(q) /\ request[q].session = s /\ past'.created[s] = clock
<1> DEFINE Kept == past'.overlapped = past.overlapped /\ past'.created = past.created
<1>1. past.created \in [Sessions -> 0..MaxTime]
  BY DEF ThrottleTypeOK, History
<1>2. ASSUME NEW q \in Requests, Arrive(q)
      PROVE  past.overlapped \subseteq past'.overlapped /\ past'.created = past.created
  BY <1>2 DEF Arrive, ThrottleTypeOK, History
<1>3. ASSUME NEW q \in Requests, Admit(q) \/ Acquire(q) \/ StoreFails(q) PROVE Kept
  BY <1>3 DEF Admit, Acquire, StoreFails
<1>4. ASSUME NEW q \in Requests, LoginRefused(q) \/ LoginAccepted(q) PROVE Kept
  BY <1>4 DEF LoginRefused, LoginAccepted, ThrottleTypeOK, History
<1>5. ASSUME NEW q \in Requests, SignUp(q)
      PROVE  /\ past'.overlapped = past.overlapped
             /\ \A s \in Sessions : \/ past'.created[s] = past.created[s]
                                    \/ request[q].session = s /\ past'.created[s] = clock
  <2>1. past' = past \/ past' = [past EXCEPT !.created[request[q].session] = clock]
    BY <1>5 DEF SignUp
  <2> QED BY <1>1, <2>1 DEF ThrottleTypeOK, History
<1>6. CASE Tick \/ StepBack
  <2>1. Kept
    BY <1>6 DEF Tick, StepBack, ThrottleTypeOK, History
  <2> QED BY <2>1
<1>7. CASE Restart
  BY <1>7 DEF Restart, ThrottleTypeOK, History
<1>8. CASE UNCHANGED throttleVars
  BY <1>8 DEF throttleVars
<1> QED BY <1>2, <1>3, <1>4, <1>5, <1>6, <1>7, <1>8 DEF ThrottleNext

\* A counter of sign-ups that is read and found expired has waited for its window.
LEMMA ReadSign ==
  ASSUME NEW state \in Attempts(SignMax), NEW now \in Nat, NEW latest \in Nat, now <= latest,
         NEW created \in Nat, Counts(state, latest),
         Recorded(state, created) \/ Over(created, latest)
  PROVE  LET read == active_get(state, "sign", now)
         IN /\ Recorded(read, created) \/ Over(created, latest)
            /\ read.attempts = 0 => Over(created, latest)
<1>1. state.last \in Nat /\ state.attempts \in Nat /\ SignReset \in Nat
  BY Policies DEF Attempts
<1>2. CASE active_get(state, "sign", now) = state
  BY <1>1, <1>2 DEF Recorded, Over
<1>3. CASE state.last = 0
  BY <1>1, <1>3 DEF Recorded, Over, Counts
<1>4. CASE now - state.last >= SignReset
  <2>1. Recorded(state, created) => Over(created, latest)
    BY <1>1, <1>4 DEF Recorded, Over
  <2> QED BY <2>1
<1> QED BY <1>2, <1>3, <1>4, ActiveCases, Policies DEF Ops

LEMMA SignUpsStep ==
  ASSUME SignMax = 1, ThrottleTypeOK, Clocks, Counters, SignUps, [ThrottleNext]_throttleVars
  PROVE  SignUps'
<1>1. /\ past.latest \in Nat /\ past'.latest \in Nat /\ past.latest <= past'.latest
      /\ SignReset \in Nat
  BY LatestGrows, Policies
<1>2. SUFFICES ASSUME NEW s \in Sessions, s \notin past'.overlapped
               PROVE  /\ Alone(s)'
                      /\ past'.created[s] # 0 =>
                           /\ \/ Recorded(sessions'[s].sign, past'.created[s])
                              \/ Over(past'.created[s], past'.latest)
                           /\ \A q \in Requests : Admitted(q)' /\ request'[q].session = s =>
                                /\ \/ Recorded(request'[q].copy.sign, past'.created[s])
                                   \/ Over(past'.created[s], past'.latest)
                                /\ request'[q].op = "sign" => Over(past'.created[s], past'.latest)
  BY DEF SignUps
<1>3. /\ s \notin past.overlapped /\ Alone(s)
      /\ past.created[s] \in Nat /\ past'.created[s] \in Nat
  <2>1. s \notin past.overlapped
    BY <1>2, CreatedStep
  <2>2. past.created[s] \in Nat /\ clock \in Nat
    BY DEF ThrottleTypeOK, History, Time
  <2> QED BY <2>1, <2>2, CreatedStep DEF SignUps
<1>4. Alone(s)'
  <2> SUFFICES ASSUME NEW q \in Requests, NEW p \in Requests, OnItsWay(q)', OnItsWay(p)',
                      request'[q].session = s, request'[p].session = s
               PROVE  q = p
    BY DEF Alone
  <2>1. ASSUME NEW a \in Requests, NEW b \in Requests, a # b, Arrive(a),
               OnItsWay(b)', request'[a].session = s, request'[b].session = s
        PROVE  FALSE
    <3>1. request'[b] = request[b]
      BY <2>1 DEF Arrive, ThrottleTypeOK
    <3>2. PICK r \in case.requests :
            /\ request' = [request EXCEPT ![a] =
                 [at |-> "arrived", op |-> r.op, session |-> r.session, identity |-> r.identity,
                  credential |-> r.credential, now |-> clock, copy |-> FreshSession,
                  seen |-> NoAccount]]
            /\ past' = IF \E other \in Requests : OnItsWay(other) /\ request[other].session = r.session
                         THEN [past EXCEPT !.overlapped = @ \cup {r.session}] ELSE past
      BY <2>1 DEF Arrive
    <3>3. r.session = s
      BY <2>1, <3>2 DEF ThrottleTypeOK
    <3>4. OnItsWay(b) /\ request[b].session = r.session
      BY <2>1, <3>1, <3>3 DEF OnItsWay
    <3>5. s \in past'.overlapped
      BY <3>2, <3>3, <3>4 DEF ThrottleTypeOK, History
    <3> QED BY <1>2, <3>5
  <2>2. CASE Keeps(q) /\ Keeps(p)
    BY <1>3, <2>2 DEF Keeps, Alone
  <2> QED BY <2>1, <2>2, Carried
<1>5. ASSUME past'.created[s] # 0, past'.created[s] = past.created[s]
      PROVE  /\ \/ Recorded(sessions'[s].sign, past'.created[s])
                \/ Over(past'.created[s], past'.latest)
             /\ \A q \in Requests : Admitted(q)' /\ request'[q].session = s =>
                  /\ \/ Recorded(request'[q].copy.sign, past'.created[s])
                     \/ Over(past'.created[s], past'.latest)
                  /\ request'[q].op = "sign" => Over(past'.created[s], past'.latest)
  <2> DEFINE created == past.created[s]
             Remembers(state) == Recorded(state, created) \/ Over(created, past.latest)
  <2>1. /\ Remembers(sessions[s].sign)
        /\ \A q \in Requests : Admitted(q) /\ request[q].session = s =>
             /\ Remembers(request[q].copy.sign)
             /\ request[q].op = "sign" => Over(created, past.latest)
    BY <1>3, <1>5 DEF SignUps
  <2>2. Over(created, past.latest) => Over(created, past'.latest)
    BY <1>1, <1>3 DEF Over
  <2>3. ASSUME NEW q \in Requests, OnItsWay(q), request[q].session = s
        PROVE  /\ Remembers(AdmitCopyOf(q).sign)
               /\ request[q].op = "sign" /\ AdmitCopyOf(q).sign.attempts = 0
                    => Over(created, past.latest)
    <3>1. /\ request[q].now \in Nat /\ request[q].now <= past.latest /\ request[q].op \in Ops
          /\ sessions[s] \in Session
      BY <2>3, RequestType DEF Clocks, Time, ThrottleTypeOK
    <3>2. CASE request[q].op = "login"
      <4>1. AdmitCopyOf(q)["sign"] = sessions[s]["sign"]
        BY <2>3, <3>2, AdmitCopy DEF AdmitCopyOf, Ops
      <4> QED BY <2>1, <3>2, <4>1
    <3>3. CASE request[q].op = "sign"
      <4>1. AdmitCopyOf(q)["sign"] = active_get(sessions[s]["sign"], "sign", request[q].now)
        BY <2>3, <3>3, AdmitCopy DEF AdmitCopyOf
      <4>2. sessions[s]["sign"] \in Attempts(SignMax) /\ Counts(sessions[s]["sign"], past.latest)
        BY <3>1 DEF Session, Counters, Ops
      <4> QED BY <1>1, <1>3, <2>1, <3>1, <4>1, <4>2, ReadSign
    <3> QED BY <3>1, <3>2, <3>3 DEF Ops
  <2>4. Remembers(sessions'[s].sign)
    <3>1. CASE sessions'[s] = sessions[s]
      BY <2>1, <3>1
    <3>2. ~Restart
      <4>1. Restart => past'.created[s] = 0
        BY DEF Restart, ThrottleTypeOK, History
      <4> QED BY <1>5, <4>1
    <3>3. ASSUME NEW q \in Requests, OnItsWay(q), request[q].session = s,
                 Admit(q), sessions'[s] = AdmitCopyOf(q)
          PROVE  Remembers(sessions'[s].sign)
      BY <2>3, <3>3
    <3>4. ASSUME NEW q \in Requests, OnItsWay(q), request[q].session = s,
                 \/ LoginRefused(q) /\ sessions'[s] = RefusedCopyOf(q)
                 \/ LoginAccepted(q) /\ sessions'[s] = AcceptedCopyOf(q)
                 \/ StoreFails(q) /\ sessions'[s] = request[q].copy
          PROVE  Remembers(sessions'[s].sign)
      <4>1. Admitted(q) /\ request[q].copy \in Session
        BY <3>4, RequestType DEF LoginRefused, LoginAccepted, StoreFails, Holds, At, Admitted
      <4>2. sessions'[s].sign = request[q].copy.sign
        BY <3>4, <4>1 DEF RefusedCopyOf, AcceptedCopyOf, Session
      <4> QED BY <2>1, <3>4, <4>1, <4>2
    <3>5. ASSUME NEW q \in Requests, OnItsWay(q), request[q].session = s, SignUp(q)
          PROVE  Remembers(sessions'[s].sign)
      BY <2>1, <3>5 DEF SignUp, Holds, At, Admitted
    <3> QED BY <3>1, <3>2, <3>3, <3>4, <3>5, SessionStep
  <2>5. ASSUME NEW q \in Requests, Admitted(q)', request'[q].session = s
        PROVE  /\ Remembers(request'[q].copy.sign)
               /\ request'[q].op = "sign" => Over(created, past.latest)
    <3>1. CASE Admitted(q) /\ Keeps(q) /\ request'[q].copy = request[q].copy
      BY <2>1, <2>5, <3>1 DEF Keeps
    <3>2. CASE Admit(q) /\ Keeps(q) /\ request'[q].copy = AdmitCopyOf(q)
      <4>1. /\ OnItsWay(q) /\ request[q].session = s
            /\ request'[q].op = request[q].op
        BY <2>5, <3>2 DEF Keeps
      <4>2. Counters'
        BY CountersStep
      <4>3. request'[q].op = "sign" => AdmitCopyOf(q).sign.attempts = 0
        <5>1. request'[q].op = "sign" => AdmitCopyOf(q)["sign"].attempts < 1
          BY <2>5, <3>2, <4>2, Policies DEF Counters
        <5>2. AdmitCopyOf(q) \in Session
          BY <4>1, AdmitCopy DEF AdmitCopyOf
        <5>3. AdmitCopyOf(q).sign.attempts \in Nat
          BY <5>2 DEF Session, Attempts
        <5> QED BY <5>1, <5>3
      <4> QED BY <2>3, <3>2, <4>1, <4>3
    <3> QED BY <2>5, <3>1, <3>2, AdmittedStep
  <2> HIDE DEF created
  <2> QED BY <1>5, <2>2, <2>4, <2>5 DEF created
<1>6. ASSUME NEW p \in Requests, SignUp(p), request[p].session = s, past'.created[s] = clock
      PROVE  /\ Recorded(sessions'[s].sign, clock)
             /\ \A q \in Requests : ~(Admitted(q)' /\ request'[q].session = s)
  <2>1. /\ OnItsWay(p) /\ Admitted(p) /\ request[p].copy \in Session /\ clock \in Nat
        /\ Answered(p, SignUpCopyOf(p), FALSE, 0)
    <3>1. OnItsWay(p) /\ Admitted(p) /\ Answered(p, SignUpCopyOf(p), FALSE, 0)
      BY <1>6 DEF SignUp, Holds, At, Admitted, SignUpCopyOf
    <3>2. request[p].copy \in Session
      BY <3>1, RequestType
    <3>3. clock \in Nat
      BY DEF ThrottleTypeOK, Time
    <3> QED BY <3>1, <3>2, <3>3
  <2>2. sessions'[s] = SignUpCopyOf(p)
    BY <1>6, <2>1 DEF Answered, ThrottleTypeOK
  <2>3. Recorded(sessions'[s].sign, clock)
    BY <2>1, <2>2 DEF SignUpCopyOf, Session, Attempts, attemptRecorded_get, Recorded
  <2>4. ASSUME NEW q \in Requests, Admitted(q)', request'[q].session = s PROVE FALSE
    <3>1. q # p
      BY <2>1, <2>4, AnsweredOnly DEF Admitted
    <3>2. OnItsWay(q) /\ request[q].session = s
      BY <2>4, AdmittedStep DEF Keeps
    <3> QED BY <1>3, <1>6, <2>1, <3>1, <3>2 DEF Alone
  <2> QED BY <2>3, <2>4
<1> QED BY <1>4, <1>5, <1>6, CreatedStep

\* A session whose requests do not overlap creates one account in a window, less
\* what the clock was set back by: SIGN_ATTEMPT_POLICY allows one attempt
\* (user_back.rs:403), which no sign-in of the same session makes it forget.
THEOREM SignsOne ==
  ASSUME SignMax = 1
  PROVE  ThrottleSpec => SignsOneAccount
<1> DEFINE SInv == IInv /\ SignUps
<1>1. ThrottleInit => SInv
  BY ThrottleInvInit DEF ThrottleInit, SignUps, Alone, OnItsWay
<1>2. SInv /\ [ThrottleNext]_throttleVars => SInv'
  BY ThrottleInvStep, SignUpsStep DEF IInv
<1>3. SInv /\ [ThrottleNext]_throttleVars =>
        [\A s \in Sessions :
           past'.created[s] # past.created[s] /\ past.created[s] # 0 /\ past'.created[s] # 0
             /\ s \notin past'.overlapped
           => past'.created[s] - past.created[s] >= SignReset - (IF past.stepped THEN 1 ELSE 0)]_throttleVars
  <2> SUFFICES ASSUME IInv, SignUps, [ThrottleNext]_throttleVars, NEW s \in Sessions,
                      past'.created[s] # past.created[s], past.created[s] # 0,
                      past'.created[s] # 0, s \notin past'.overlapped
               PROVE  past'.created[s] - past.created[s]
                        >= SignReset - (IF past.stepped THEN 1 ELSE 0)
    OBVIOUS
  <2>1. ThrottleTypeOK /\ Clocks
    BY DEF IInv
  <2>2. PICK q \in Requests : SignUp(q) /\ request[q].session = s /\ past'.created[s] = clock
    BY <2>1, CreatedStep
  <2>3. Admitted(q) /\ request[q].op = "sign" /\ s \notin past.overlapped
    BY <2>1, <2>2, CreatedStep DEF SignUp, Holds, At, Admitted
  <2>4. past.latest >= past.created[s] + SignReset
    BY <2>2, <2>3 DEF SignUps, Over
  <2>5. /\ clock \in Nat /\ past.latest \in Nat /\ past.created[s] \in Nat /\ SignReset \in Nat
        /\ past.latest <= clock + (IF past.stepped THEN 1 ELSE 0)
    BY <2>1, Policies DEF ThrottleTypeOK, History, Time, Clocks
  <2> QED BY <2>2, <2>4, <2>5
<1> HIDE DEF SInv
<1> QED BY <1>1, <1>2, <1>3, PTL DEF ThrottleSpec, SignsOneAccount

-----------------------------------------------------------------------------
(* The detailed specification implements SignInContract. *)

LEMMA ContractInit == ThrottleInit => Contract!Init
<1> SUFFICES ASSUME ThrottleInit PROVE Contract!Init
  OBVIOUS
<1>1. accounts \in [Identities -> Account]
  BY ThrottleAssumption DEF ThrottleInit
<1>2. [i \in Identities |-> accounts[i].credential] \in [Identities -> Credentials \cup {Nobody}]
  BY <1>1 DEF Account
<1>3. [s \in Sessions |-> sessions[s].user] = [s \in Sessions |-> Nobody]
  BY DEF ThrottleInit, FreshSession
<1>4. past.proved = {}
  BY DEF ThrottleInit
<1> QED BY <1>2, <1>3, <1>4 DEF Contract!Init

\* Whatever is answered, the session is signed in as before the request, or as
\* whom a copy that was proved says.
LEMMA AnsweredReturns ==
  ASSUME ThrottleTypeOK, Signed, NEW q \in Requests, OnItsWay(q),
         NEW copy \in Session, NEW error, NEW until, Answered(q, copy, error, until),
         copy.user # Nobody => <<request[q].session, copy.user>> \in past.proved
  PROVE  request[q].session \in Sessions /\ Contract!Return(request[q].session)
<1> DEFINE s == request[q].session
           Users == [x \in Sessions |-> sessions[x].user]
<1>1. s \in Sessions
  BY RequestType
<1>2. copy.user \in Identities \cup {Nobody} /\ sessions[s].user \in Identities \cup {Nobody}
  BY <1>1 DEF Session, ThrottleTypeOK
<1>3. CASE sessions' = sessions
  <2>1. [x \in Sessions |-> sessions'[x].user] = [Users EXCEPT ![s] = sessions[s].user]
    BY <1>1, <1>3
  <2>2. sessions[s].user = Nobody \/ <<s, sessions[s].user>> \in past.proved
    BY <1>1 DEF Signed
  <2> QED BY <1>1, <1>2, <2>1, <2>2 DEF Contract!Return
<1>4. CASE sessions' = [sessions EXCEPT ![s] = copy]
  <2>1. [x \in Sessions |-> sessions'[x].user] = [Users EXCEPT ![s] = copy.user]
    BY <1>1, <1>4 DEF ThrottleTypeOK
  <2> QED BY <1>1, <1>2, <2>1 DEF Contract!Return
<1> QED BY <1>3, <1>4 DEF Answered

LEMMA ContractStep == IInv /\ [ThrottleNext]_throttleVars => [Contract!Next]_Contract!vars
<1> SUFFICES ASSUME IInv, [ThrottleNext]_throttleVars PROVE [Contract!Next]_Contract!vars
  OBVIOUS
<1> USE DEF IInv
<1>1. ASSUME UNCHANGED <<accounts, sessions>>, past'.proved = past.proved
      PROVE  UNCHANGED Contract!vars
  BY <1>1 DEF Contract!vars
<1>2. ASSUME NEW q \in Requests, OnItsWay(q), accounts' = accounts, past'.proved = past.proved,
             NEW copy \in Session, NEW error, NEW until, Answered(q, copy, error, until),
             copy.user # Nobody => <<request[q].session, copy.user>> \in past.proved
      PROVE  Contract!Next
  <2>1. request[q].session \in Sessions /\ Contract!Return(request[q].session)
    BY <1>2, AnsweredReturns
  <2>2. Contract!Refuse(request[q].session)
    BY <1>2, <2>1 DEF Contract!Refuse
  <2>3. \E s \in Sessions : Contract!Refuse(s)
    BY <2>1, <2>2 DEF Contract!Refuse, Contract!Return
  <2> QED BY <2>3 DEF Contract!Next
<1>3. ASSUME NEW q \in Requests, Admit(q) PROVE [Contract!Next]_Contract!vars
  <2>1. OnItsWay(q) /\ accounts' = accounts /\ past' = past
    BY <1>3 DEF Admit, At
  <2>2. CASE sessions' = sessions
    BY <1>1, <2>1, <2>2
  <2>3. ASSUME NEW until, Answered(q, AdmitCopyOf(q), TRUE, until) PROVE Contract!Next
    <3>1. /\ AdmitCopyOf(q) \in Session /\ request[q].session \in Sessions
          /\ AdmitCopyOf(q).user = sessions[request[q].session].user
      BY <2>1, AdmitCopy, RequestType DEF AdmitCopyOf
    <3> QED BY <1>2, <2>1, <2>3, <3>1 DEF Signed
  <2>4. sessions' = sessions \/ \E until : Answered(q, AdmitCopyOf(q), TRUE, until)
    BY <1>3 DEF Admit, AdmitCopyOf
  <2> QED BY <2>2, <2>3, <2>4
<1>4. ASSUME NEW q \in Requests, LoginRefused(q) PROVE Contract!Next
  <2>1. /\ OnItsWay(q) /\ Admitted(q) /\ Holds(q, "login") /\ accounts' = accounts
        /\ \E until : Answered(q, RefusedCopyOf(q), TRUE, until)
    BY <1>4 DEF LoginRefused, Holds, At, Admitted, RefusedCopyOf
  <2>2. past'.proved = past.proved
    BY <1>4 DEF LoginRefused, ThrottleTypeOK, History
  <2>3. RefusedCopyOf(q) \in Session /\ RefusedCopyOf(q).user = request[q].copy.user
    BY <2>1, RefusedCopy, RequestType DEF RefusedCopyOf, Session
  <2> QED BY <1>2, <2>1, <2>2, <2>3 DEF Signed
<1>5. ASSUME NEW q \in Requests, StoreFails(q) PROVE Contract!Next
  <2>1. /\ OnItsWay(q) /\ Admitted(q) /\ accounts' = accounts /\ past' = past
        /\ Answered(q, request[q].copy, TRUE, 0)
    BY <1>5 DEF StoreFails, Holds, At, Admitted
  <2> QED BY <1>2, <2>1, RequestType DEF Signed
<1>6. ASSUME NEW q \in Requests, LoginAccepted(q) PROVE Contract!Next
  <2> DEFINE r == request[q]
  <2>1. At(q, "holding") /\ OnItsWay(q) /\ Answered(q, AcceptedCopyOf(q), FALSE, 0)
    BY <1>6 DEF LoginAccepted, Holds, At, AcceptedCopyOf
  <2>2. /\ r.session \in Sessions /\ r.identity \in Identities /\ r.credential \in Credentials
        /\ r.copy \in Session
    BY <2>1, RequestType
  <2>3. accounts[r.identity].credential = r.credential
    BY <1>6, <2>1 DEF LoginAccepted, Matches, Mutexes
  <2>4. [i \in Identities |-> accounts'[i].credential] = [i \in Identities |-> accounts[i].credential]
    BY <1>6, <2>2, <2>3 DEF LoginAccepted, ThrottleTypeOK
  <2>5. past'.proved = past.proved \cup {<<r.session, r.identity>>}
    BY <1>6 DEF LoginAccepted, ThrottleTypeOK, History
  <2>6. [s \in Sessions |-> sessions'[s].user] =
          [[s \in Sessions |-> sessions[s].user] EXCEPT ![r.session] = r.identity]
    <3>1. AcceptedCopyOf(q).user = r.identity
      BY <2>2 DEF AcceptedCopyOf, Session
    <3>2. sessions' = [sessions EXCEPT ![r.session] = AcceptedCopyOf(q)]
      BY <2>1 DEF Answered
    <3> QED BY <2>2, <3>1, <3>2 DEF ThrottleTypeOK
  <2>7. Contract!SignIn(r.session, r.identity, r.credential)
    BY <2>2, <2>3, <2>4, <2>5, <2>6 DEF Contract!SignIn
  <2>8. \E s \in Sessions, i \in Identities, c \in Credentials :
          Contract!SignUp(s, i, c) \/ Contract!SignIn(s, i, c)
    BY <2>2, <2>7 DEF Contract!SignIn
  <2> QED BY <2>8 DEF Contract!Next
<1>7. ASSUME NEW q \in Requests, SignUp(q) PROVE Contract!Next
  <2> DEFINE r == request[q]
  <2>1. /\ At(q, "holding") /\ OnItsWay(q) /\ Admitted(q) /\ Holds(q, "sign")
        /\ Answered(q, SignUpCopyOf(q), FALSE, 0)
    BY <1>7 DEF SignUp, Holds, At, Admitted, SignUpCopyOf
  <2>2. /\ r.session \in Sessions /\ r.identity \in Identities /\ r.credential \in Credentials
        /\ r.copy \in Session
    BY <2>1, RequestType
  <2>3. SignUpCopyOf(q) \in Session /\ SignUpCopyOf(q).user = r.copy.user
    BY <2>1, <2>2, SignUpCopy DEF SignUpCopyOf, Session
  <2>4. past'.proved = past.proved
    BY <1>7 DEF SignUp, ThrottleTypeOK, History
  <2>5. r.copy.user # Nobody => <<r.session, r.copy.user>> \in past.proved
    BY <2>1 DEF Signed
  <2>6. CASE r.seen.form # "absent"
    <3>1. accounts' = accounts
      BY <1>7, <2>6 DEF SignUp
    <3> QED BY <1>2, <2>1, <2>3, <2>4, <2>5, <3>1
  <2>7. CASE r.seen.form = "absent"
    <3>1. accounts[r.identity].credential = Nobody
      BY <2>1, <2>2, <2>7 DEF Mutexes, FilesAgree
    <3>2. accounts' = [accounts EXCEPT ![r.identity] =
                         [form |-> "argon2", credential |-> r.credential]]
      BY <1>7, <2>7 DEF SignUp
    <3>3. [i \in Identities |-> accounts'[i].credential] =
            [[i \in Identities |-> accounts[i].credential] EXCEPT ![r.identity] = r.credential]
      BY <2>2, <3>2 DEF ThrottleTypeOK
    <3>4. Contract!Return(r.session)
      BY <2>1, <2>3, <2>5, AnsweredReturns
    <3>5. Contract!SignUp(r.session, r.identity, r.credential)
      BY <2>2, <2>4, <3>1, <3>3, <3>4 DEF Contract!SignUp
    <3>6. \E s \in Sessions, i \in Identities, c \in Credentials :
            Contract!SignUp(s, i, c) \/ Contract!SignIn(s, i, c)
      BY <2>2, <3>5 DEF Contract!SignUp, Contract!Return
    <3> QED BY <3>6 DEF Contract!Next
  <2> QED BY <2>6, <2>7
<1>8. CASE Restart
  <2>1. /\ accounts' = accounts /\ past'.proved = past.proved
        /\ [s \in Sessions |-> sessions'[s].user] = [s \in Sessions |-> Nobody]
    BY <1>8 DEF Restart, ThrottleTypeOK, History, FreshSession
  <2> QED BY <2>1 DEF Contract!Forget, Contract!Next
<1>9. ASSUME NEW q \in Requests, Arrive(q) \/ Acquire(q) PROVE UNCHANGED Contract!vars
  <2>1. UNCHANGED <<accounts, sessions>> /\ past'.proved = past.proved
    BY <1>9 DEF Arrive, Acquire, ThrottleTypeOK, History
  <2> QED BY <1>1, <2>1
<1>10. CASE Tick \/ StepBack \/ UNCHANGED throttleVars
  <2>1. UNCHANGED <<accounts, sessions>> /\ past'.proved = past.proved
    BY <1>10 DEF Tick, StepBack, throttleVars, ThrottleTypeOK, History
  <2> QED BY <1>1, <2>1
<1> QED BY <1>3, <1>4, <1>5, <1>6, <1>7, <1>8, <1>9, <1>10 DEF ThrottleNext

\* Signing up and in keep the promise of SignInContract, whatever requests
\* overlap, fail or are lost in a restart: who has an account keeps its
\* credential, and only that credential signs a session in (user_back.rs:403,
\* user_back.rs:644).
THEOREM ContractKept == ThrottleSpec => KeepsContract
<1>1. ThrottleInit => Contract!Init
  BY ContractInit
<1>2. IInv /\ [ThrottleNext]_throttleVars => [Contract!Next]_Contract!vars
  BY ContractStep
<1> QED BY <1>1, <1>2, ThrottleInvariant, PTL DEF ThrottleSpec, KeepsContract, Contract!Spec

=============================================================================
