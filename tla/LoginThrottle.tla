--------------------------- MODULE LoginThrottle ---------------------------
(***************************************************************************)
(* Sign-up and sign-in (api/login/user_back.rs): the counters of attempts  *)
(* of a session and of an account, the mutex of an account, the            *)
(* verification of a credential, and what the session layer                *)
(* (api/login/session.rs) stores of it all.                                *)
(*                                                                         *)
(* A request works on its own copy of the session, stored whole when it is *)
(* answered: never with an error (status 500), except for a session that   *)
(* is signed in.  A unit of time is long next to a request: one that is on *)
(* its way when the clock advances is answered before it advances again.   *)
(***************************************************************************)
EXTENDS Naturals, Integers, FiniteSets, FiniteSetsExt

CONSTANTS
  Identities, Sessions, Credentials,
  Requests,                \* bound: requests on their way at once
  LoginMax, LoginReset,    \* LOGIN_ATTEMPT_POLICY, in units of time
  SignMax, SignReset,      \* SIGN_ATTEMPT_POLICY
  MaxTracked,              \* MAX_TRACKED_ACCOUNTS
  MaxTime,                 \* bound on the clock
  ThrottleCases,           \* bounds, one of which holds in a behaviour
  Nobody

VARIABLES
  case,      \* the element of ThrottleCases this behaviour is about
  clock,     \* OffsetDateTime::now_utc, in units of time
  accounts,  \* identity -> its file: the form of its verifier, its credential
  tracked,   \* AccountAttemptRegistry: identity -> its attempts
  sessions,  \* session store: session -> its counters and its user
  mutex,     \* UserMutationRegistry: identity -> the request that holds it
  request,   \* a request on its way
  answer,    \* the last answer: locked until a time, or not (0)
  calls,     \* requests made, for their bound
  past       \* history, which no action of the code reads, see History

throttleVars == <<case, clock, accounts, tracked, sessions, mutex, request, answer,
                  calls, past>>

Time == 1..MaxTime
Attempts(most) == [attempts: 0..most, last: 0..MaxTime]
NoAttempt == [attempts |-> 0, last |-> 0]  \* AttemptState::default
Account == [form: {"absent", "legacy", "argon2"}, credential: Credentials \cup {Nobody}]
Session == [login: Attempts(LoginMax), sign: Attempts(SignMax), user: Identities \cup {Nobody}]
Ops == {"login", "sign"}
Request ==
  [at: {"arrived", "queued", "holding"}, op: Ops, session: Sessions,
   identity: Identities, credential: Credentials, now: Time, copy: Session, seen: Account]

\*   guessed    identity -> the wrong credentials that were verified and counted since
\*              the last success or restart, numbered, with when they arrived
\*   created    session -> when it last created an account, or 0
\*   overlapped sessions that had two requests on their way at once
\*   proved     the <<session, identity>> whose credential was verified
\*   latest     the latest time the clock has shown
\*   stepped    the clock has been set back
History ==
  [guessed: [Identities -> SUBSET [at: Time, nth: Nat]], created: [Sessions -> 0..MaxTime],
   overlapped: SUBSET Sessions, proved: SUBSET (Sessions \X Identities),
   latest: Time, stepped: BOOLEAN]

ASSUME ThrottleAssumption ==
  /\ \A n \in {LoginMax, LoginReset, SignMax, SignReset, MaxTracked, MaxTime} :
       n \in Nat \ {0}
  /\ ThrottleCases \subseteq
       [accounts: [Identities -> Account], calls: Nat, may: SUBSET {"restart", "step", "fail"},
        requests: SUBSET [op: Ops, session: Sessions, identity: Identities, credential: Credentials]]
  /\ \A c \in ThrottleCases, i \in Identities :
       c.accounts[i].form = "absent" <=> c.accounts[i].credential = Nobody
  /\ Requests \subseteq Nat /\ IsFiniteSet(Requests) /\ IsFiniteSet(Identities)
  /\ Nobody \notin Identities \cup Credentials /\ Nobody \notin Requests

-----------------------------------------------------------------------------
(* AttemptPolicy and AttemptState. *)

Policy(op) ==
  IF op = "login" THEN [max |-> LoginMax, reset |-> LoginReset]
                  ELSE [max |-> SignMax, reset |-> SignReset]

ActiveAtTheEnd(state, op, now) ==
  IF state.last = 0 \/ now - state.last > Policy(op).reset THEN NoAttempt ELSE state
active_get(state, op, now) ==
  IF state.last = 0 \/ now - state.last >= Policy(op).reset THEN NoAttempt ELSE state

attemptRecorded_get(state, now) == [attempts |-> state.attempts + 1, last |-> now]

\* When the lock of a counter ends; 0 when it is not locked.
LockedAfterMax(state, op) ==
  IF state.attempts <= Policy(op).max THEN 0 ELSE state.last + Policy(op).reset
lockedUntil_get(state, op) ==
  IF state.attempts < Policy(op).max THEN 0 ELSE state.last + Policy(op).reset

-----------------------------------------------------------------------------
(* AccountAttemptRegistry. *)

Retained(now) == [i \in Identities |-> active_get(tracked[i], "login", now)]

Crowded(attempts, i) ==
  attempts[i] = NoAttempt /\ Cardinality({j \in Identities : attempts[j] # NoAttempt}) >= MaxTracked

attempt_record(i, now) ==
  LET kept == Retained(now)
  IN IF Crowded(kept, i) THEN kept
     ELSE [kept EXCEPT ![i] = attemptRecorded_get(kept[i], now)]

\* Until when attempt_record answers that the account is locked.
RecordedUntil(i, now) ==
  IF Crowded(Retained(now), i) THEN now + LoginReset
  ELSE lockedUntil_get(attempt_record(i, now)[i], "login")

-----------------------------------------------------------------------------
(* Sessions. *)

FreshSession == [login |-> NoAttempt, sign |-> NoAttempt, user |-> Nobody]
NoAccount == [form |-> "absent", credential |-> Nobody]

OnItsWay(q) == request[q] # Nobody
At(q, step) == OnItsWay(q) /\ request[q].at = step

\* The request is answered, locked until the given time or not (0), as an
\* error or not, with this copy of its session.
Answered(q, copy, error, until) ==
  /\ request' = [request EXCEPT ![q] = Nobody]
  /\ answer' = [now |-> IF until = 0 THEN 0 ELSE request[q].now, until |-> until]
  /\ sessions' = IF error /\ copy.user = Nobody THEN sessions
                 ELSE [sessions EXCEPT ![request[q].session] = copy]

-----------------------------------------------------------------------------
(* Requests. *)

ThrottleInit ==
  /\ case \in ThrottleCases
  /\ clock = 1
  /\ accounts = case.accounts
  /\ tracked = [i \in Identities |-> NoAttempt]
  /\ sessions = [s \in Sessions |-> FreshSession]
  /\ mutex = [i \in Identities |-> Nobody]
  /\ request = [q \in Requests |-> Nobody]
  /\ answer = [now |-> 0, until |-> 0]
  /\ calls = 0
  /\ past = [guessed |-> [i \in Identities |-> {}],
             created |-> [s \in Sessions |-> 0], overlapped |-> {}, proved |-> {},
             latest |-> 1, stepped |-> FALSE]

\* A request arrives; the time is read once.
Arrive(q) ==
  /\ calls < case.calls
  /\ ~OnItsWay(q) /\ \A other \in Requests : other < q => OnItsWay(other)
  /\ calls' = calls + 1
  /\ \E r \in case.requests :
       /\ request' = [request EXCEPT ![q] =
            [at |-> "arrived", op |-> r.op, session |-> r.session, identity |-> r.identity,
             credential |-> r.credential, now |-> clock, copy |-> FreshSession, seen |-> NoAccount]]
       /\ past' = IF \E other \in Requests : OnItsWay(other) /\ request[other].session = r.session
                    THEN [past EXCEPT !.overlapped = @ \cup {r.session}] ELSE past
  /\ UNCHANGED <<case, clock, accounts, tracked, sessions, mutex, answer>>

\* SessionAttempts::fromSession, then, when signing in, the lock of the
\* account, before its mutex is asked for.
Admit(q) ==
  LET r == request[q]
      counter == active_get(sessions[r.session][r.op], r.op, r.now)
      copy == [sessions[r.session] EXCEPT ![r.op] = counter]
      locked == lockedUntil_get(counter, r.op)
      accountLocked == IF r.op = "sign" THEN 0 ELSE lockedUntil_get(Retained(r.now)[r.identity], r.op)
  IN /\ At(q, "arrived")
     /\ tracked' = IF r.op = "login" /\ locked = 0 THEN Retained(r.now) ELSE tracked
     /\ IF locked # 0 THEN Answered(q, copy, TRUE, locked)
        ELSE IF accountLocked # 0 THEN Answered(q, copy, TRUE, accountLocked)
        ELSE /\ request' = [request EXCEPT ![q].at = "queued", ![q].copy = copy]
             /\ UNCHANGED <<sessions, answer>>
     /\ UNCHANGED <<case, clock, accounts, mutex, calls, past>>

\* The mutex of the account is taken and its file read.
AcquireAnyway(q) ==
  LET r == request[q]
  IN /\ At(q, "queued")
     /\ mutex' = [mutex EXCEPT ![r.identity] = q]
     /\ request' = [request EXCEPT ![q].at = "holding", ![q].seen = accounts[r.identity]]
     /\ UNCHANGED <<case, clock, accounts, tracked, sessions, answer, calls, past>>
Acquire(q) ==
  LET r == request[q]
  IN /\ At(q, "queued") /\ mutex[r.identity] = Nobody
     /\ mutex' = [mutex EXCEPT ![r.identity] = q]
     /\ request' = [request EXCEPT ![q].at = "holding", ![q].seen = accounts[r.identity]]
     /\ UNCHANGED <<case, clock, accounts, tracked, sessions, answer, calls, past>>

Release(q) == mutex' = [mutex EXCEPT ![request[q].identity] = Nobody]

Holds(q, op) == At(q, "holding") /\ request[q].op = op
Matches(r) == r.seen.form # "absent" /\ r.seen.credential = r.credential

\* A wrong credential, or no such account: both counters are raised, that of
\* the session from the value this request has read.
LoginRefused(q) ==
  LET r == request[q]
      counter == attemptRecorded_get(r.copy.login, r.now)
  IN /\ Holds(q, "login") /\ ~Matches(r)
     /\ tracked' = attempt_record(r.identity, r.now)
     /\ Answered(q, [r.copy EXCEPT !.login = counter], TRUE,
                 Max({lockedUntil_get(counter, "login"), RecordedUntil(r.identity, r.now)}))
     /\ Release(q)
     /\ past' = IF Crowded(Retained(r.now), r.identity) THEN past
                ELSE [past EXCEPT !.guessed[r.identity] =
                        @ \cup {[at |-> r.now, nth |-> Cardinality(@) + 1]}]
     /\ UNCHANGED <<case, clock, accounts, calls>>

\* The credential is the one of the account: a verifier of the former form is
\* replaced, the counters are cleared and the session is signed in.
LoginAccepted(q) ==
  LET r == request[q]
  IN /\ Holds(q, "login") /\ Matches(r)
     /\ accounts' = [accounts EXCEPT ![r.identity] = [form |-> "argon2", credential |-> r.credential]]
     /\ tracked' = [tracked EXCEPT ![r.identity] = NoAttempt]
     /\ Answered(q, [r.copy EXCEPT !.login = NoAttempt, !.user = r.identity], FALSE, 0)
     /\ Release(q)
     /\ past' = [past EXCEPT !.guessed[r.identity] = {},
                             !.proved = @ \cup {<<r.session, r.identity>>}]
     /\ UNCHANGED <<case, clock, calls>>

\* The account cannot be stored: when its verifier is replaced, or created.
StoreFails(q) ==
  LET r == request[q]
  IN /\ "fail" \in case.may
     /\ \/ Holds(q, "login") /\ Matches(r) /\ r.seen.form = "legacy"
        \/ Holds(q, "sign") /\ r.seen.form = "absent"
     /\ Answered(q, r.copy, TRUE, 0)
     /\ Release(q)
     /\ UNCHANGED <<case, clock, accounts, tracked, calls, past>>

\* signCheckAndCreate past the mutex: the account is created unless there is
\* one, and the attempt is recorded in both cases.
SignUpUnrecorded(q) ==
  LET r == request[q]
      new == r.seen.form = "absent"
  IN /\ Holds(q, "sign")
     /\ accounts' = IF new THEN [accounts EXCEPT ![r.identity] =
                                   [form |-> "argon2", credential |-> r.credential]] ELSE accounts
     /\ Answered(q, IF new THEN r.copy
                    ELSE [r.copy EXCEPT !.sign = attemptRecorded_get(r.copy.sign, clock)], FALSE, 0)
     /\ Release(q)
     /\ past' = IF new THEN [past EXCEPT !.created[r.session] = clock] ELSE past
     /\ UNCHANGED <<case, clock, tracked, calls>>
SignUp(q) ==
  LET r == request[q]
      new == r.seen.form = "absent"
  IN /\ Holds(q, "sign")
     /\ accounts' = IF new THEN [accounts EXCEPT ![r.identity] =
                                   [form |-> "argon2", credential |-> r.credential]] ELSE accounts
     /\ Answered(q, [r.copy EXCEPT !.sign = attemptRecorded_get(r.copy.sign, clock)], FALSE, 0)
     /\ Release(q)
     /\ past' = IF new THEN [past EXCEPT !.created[r.session] = clock] ELSE past
     /\ UNCHANGED <<case, clock, tracked, calls>>

-----------------------------------------------------------------------------
(* The clock and the server. *)

Tick ==
  /\ clock < MaxTime
  /\ \A q \in Requests : OnItsWay(q) => request[q].now >= clock
  /\ clock' = clock + 1
  /\ past' = [past EXCEPT !.latest = Max({@, clock + 1})]
  /\ UNCHANGED <<case, accounts, tracked, sessions, mutex, request, answer, calls>>

StepBack ==
  /\ "step" \in case.may /\ ~past.stepped /\ clock > 1
  /\ clock' = clock - 1
  /\ past' = [past EXCEPT !.stepped = TRUE]
  /\ UNCHANGED <<case, accounts, tracked, sessions, mutex, request, answer, calls>>

\* The server restarts: sessions, counters and requests are in memory only.
Restart ==
  /\ "restart" \in case.may
  /\ tracked' = [i \in Identities |-> NoAttempt]
  /\ sessions' = [s \in Sessions |-> FreshSession]
  /\ mutex' = [i \in Identities |-> Nobody]
  /\ request' = [q \in Requests |-> Nobody]
  /\ past' = [past EXCEPT !.guessed = [i \in Identities |-> {}],
                          !.created = [s \in Sessions |-> 0]]
  /\ UNCHANGED <<case, clock, accounts, answer, calls>>

ThrottleNext ==
  \/ \E q \in Requests :
       \/ Arrive(q)
       \/ Admit(q)
       \/ Acquire(q)
       \/ LoginRefused(q)
       \/ LoginAccepted(q)
       \/ StoreFails(q)
       \/ SignUp(q)
  \/ Tick
  \/ StepBack
  \/ Restart

ThrottleSpec == ThrottleInit /\ [][ThrottleNext]_throttleVars
-----------------------------------------------------------------------------
(* Properties. *)

\* Every variable has its type, no counter grows beyond its maximum and the
\* requests that overlap (it is a u8, user_back.rs:332), and the registry of
\* attempts never holds more accounts than its own maximum (user_back.rs:453).
ThrottleTypeOK ==
  /\ case \in ThrottleCases
  /\ clock \in Time
  /\ accounts \in [Identities -> Account]
  /\ tracked \in [Identities -> Attempts(LoginMax + Cardinality(Requests))]
  /\ Cardinality({i \in Identities : tracked[i] # NoAttempt}) <= MaxTracked
  /\ sessions \in [Sessions -> Session]
  /\ mutex \in [Identities -> Requests \cup {Nobody}]
  /\ request \in [Requests -> Request \cup {Nobody}]
  /\ answer \in [now: 0..MaxTime, until: 0..(MaxTime + LoginReset + SignReset)]
  /\ calls \in 0..case.calls
  /\ past \in History

\* Whatever the sessions they come from and however they overlap, at most
\* LoginMax wrong credentials of an account are verified within its window,
\* and one more for each other request that may have passed the check of the
\* lock before (user_back.rs:644 reads it before the mutex, and not again).
\* A success and a restart forget what was counted, and an account that found
\* the registry full is not counted.  A request keeps the time it arrived at:
\* one recorded late moves the lock a unit back, and one that arrived a unit
\* before the end of the lock may be checked after it, so that a window is two
\* units short of LoginReset.
GuessesWithin(guesses, t) == {g \in guesses : t <= g.at /\ g.at < t + LoginReset - 2}
GuessesBounded ==
  \A i \in Identities, t \in Time :
    Cardinality(GuessesWithin(past.guessed[i], t)) <= LoginMax + Cardinality(Requests) - 1

\* An answer that says locked until u says so before u, and u is no more than
\* one window away from the latest time of the server: nobody is refused at the
\* end of the lock, and no lock grows with the attempts made under it, also
\* when the clock steps back (user_back.rs:338-363).
LocksArePassing ==
  answer.until # 0 =>
    answer.now < answer.until /\ answer.until <= past.latest + Max({LoginReset, SignReset})

\* A session whose requests do not overlap creates at most one account (SignMax
\* is one) within the window of sign-ups: its counter survives what else the
\* session does, signing in and failing to included (user_back.rs:403 records it
\* in the copy the request works on, session.rs stores it).  A clock that is set
\* back takes from the window what it is set back by.
SignsOneAccount ==
  [][\A s \in Sessions :
       past'.created[s] # past.created[s] /\ past.created[s] # 0 /\ past'.created[s] # 0
         /\ s \notin past'.overlapped
       => past'.created[s] - past.created[s] >= SignReset - (IF past.stepped THEN 1 ELSE 0)]_throttleVars

\* Detailed to abstract: the credential of an account is that of its file.
Contract == INSTANCE SignInContract WITH
  credential <- [i \in Identities |-> accounts[i].credential],
  proved <- past.proved,
  user <- [s \in Sessions |-> sessions[s].user]

\* Sign-up and sign-in implement their contract: two sign-ups of an identity,
\* a sign-in that replaces a verifier, failures and restarts never change the
\* credential of an account, and no session is signed in without it.
KeepsContract == Contract!Spec
=============================================================================
