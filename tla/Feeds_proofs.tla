----------------------------- MODULE Feeds_proofs -----------------------------
(***************************************************************************)
(* Proofs about what pages show of outside services through the proxies of *)
(* the server: RssProxy, for any number of pages, any time to live, any    *)
(* timeout and any bounds; MailSync, for any accounts, boxes and messages, *)
(* any budget of the proxy and any bounds; and WeatherForecast, for any    *)
(* zones, places, days and times.                                          *)
(***************************************************************************)
EXTENDS RssProxy, MailSync, WeatherForecast, FiniteSetTheorems, TLAPS

-----------------------------------------------------------------------------
(* RssProxy: the inductive invariant. *)

\* The clock stays above zero however far it is set back.
Clocks == skew <= StepsBack /\ StepsBack < time /\ lastNew <= time

\* With the feed at f, its history l, at time n: the feed said revision r at t
\* or at most a fetch before t.
SaidSince(r, t, f, l) == r = f \/ l[r] + Timeout >= t

\* A record is of the past, and its date of validation is honest.
Honest(a, f, l, n) ==
  a # None =>
    a.revision <= f /\ a.validatedAt <= n /\ SaidSince(a.revision, a.validatedAt, f, l)

\* What a call holds about the feed was true when it was learned.
HonestCall(c, f, l, n) ==
  c # None =>
    /\ Honest(c.record, f, l, n)
    /\ c.step \in {"fetching", "answered"} => c.since <= n
    /\ c.step = "answered" =>
         /\ c.revision <= f
         /\ c.revision = f \/ l[c.revision] >= c.since
         /\ c.record # None => c.record.revision <= c.revision
         /\ ~c.new => c.record # None /\ c.record.revision = c.revision
    /\ c.step = "saving" =>
         /\ Honest(c.due, f, l, n)
         /\ c.at <= n /\ SaidSince(c.due.revision, c.at, f, l)

HonestInv ==
  /\ Honest(cache, feed, left, time)
  /\ \A p \in Pages : HonestCall(call[p], feed, left, time)
  /\ \A p \in Pages : shown[p] # None => shown[p].revision <= feed /\ shown[p].at <= time

\* The entry b follows a: later, or the same document.
Follows(a, b) ==
  a # None =>
    /\ b # None /\ a.version <= b.version /\ a.revision <= b.revision
    /\ a.version = b.version => a.revision = b.revision

\* As long as no two calls overlapped and no entry was lost, the cache entry
\* follows everything else, and only a saving call is ahead of it.
Quiet == ~past.lost /\ ~past.overlapped
QuietInv ==
  Quiet =>
    /\ \A p \in Pages : Follows(shown[p], cache)
    /\ \A p \in Pages : call[p] # None => Follows(call[p].record, cache)
    /\ \A p \in Pages : In(p, "saving") => Follows(cache, call[p].due)
    /\ \A p, q \in Pages : In(p, "saving") /\ In(q, "saving") => p = q

\* As long as the clock was never set back and no two new documents came in one
\* millisecond, every number is at most the time of the last new document.
ClockInv == skew = 0 /\ ~past.tied => \A a \in Records : a.version <= lastNew

IInv ==
  /\ TypeOK /\ Clocks /\ HonestInv /\ QuietInv /\ ClockInv
  /\ VersionNamesContent /\ ShownWasRecent

-----------------------------------------------------------------------------
(* Types. *)

\* The step of a call tells its fields.
LEMMA CallSteps ==
  ASSUME NEW c \in Call
  PROVE  /\ c # None /\ c.record \in Record \cup {None}
         /\ c.step \in {"fetching", "answered", "saving"}
         /\ c.step \in {"fetching", "answered"} => c.since \in Nat
         /\ c.step = "answered" => c.revision \in Revisions /\ c.new \in BOOLEAN
         /\ c.step = "saving" => c.due \in Record /\ c.at \in Nat
  BY NoneIsNothing DEF Call

\* The clock of the server shows a positive time, no later than it is.
LEMMA ClockType ==
  ASSUME TypeOK
  PROVE  Clock \in Nat /\ Clock > 0 /\ Clock <= time /\ (skew = 0 => Clock = time)
  BY DEF TypeOK, Clock

\* A new record is a record, with a number above the one it follows.
LEMMA UpdatedType ==
  ASSUME TypeOK, NEW c \in Call, c.step = "answered"
  PROVE  /\ Updated(c) \in Record
         /\ Updated(c).revision = c.revision
         /\ Updated(c).validatedAt = Clock
         /\ Updated(c).version = NewVersion(c.record)
         /\ c.record # None => Updated(c).version > c.record.version
<1>1. PreviousVersion(c.record) \in Nat
  BY CallSteps DEF PreviousVersion, Record
<1>2. NewVersion(c.record) \in Nat \ {0} /\ NewVersion(c.record) > PreviousVersion(c.record)
  BY <1>1, ClockType DEF NewVersion
<1> QED BY <1>2, CallSteps, ClockType DEF Updated, Record, PreviousVersion

\* A revalidated record keeps its number and its document.
LEMMA RevalidatedType ==
  ASSUME TypeOK, NEW c \in Call, c.record # None
  PROVE  /\ Revalidated(c) \in Record
         /\ Revalidated(c).revision = c.record.revision
         /\ Revalidated(c).version = c.record.version
         /\ Revalidated(c).validatedAt = Clock
  BY CallSteps, ClockType DEF Revalidated, Record

\* An answer leaves the types as they are.
LEMMA AnswerType ==
  ASSUME TypeOK, NEW p \in Pages, NEW a \in Record, NEW at \in Nat, Answer(p, a, at)
  PROVE  call' \in [Pages -> Call \cup {None}] /\ shown' \in [Pages -> Shown \cup {None}]
<1>1. call' \in [Pages -> Call \cup {None}]
  BY DEF TypeOK, Answer
<1>2. CASE UNCHANGED shown
  BY <1>1, <1>2 DEF TypeOK
<1>3. CASE Current(p, a) /\ shown' = [shown EXCEPT ![p].at = at]
  <2>1. shown[p] \in Shown
    BY <1>3 DEF TypeOK, Current
  <2> QED BY <1>1, <1>3, <2>1 DEF TypeOK, Shown
<1>4. CASE shown' = [shown EXCEPT ![p] =
                       [version |-> a.version, revision |-> a.revision, at |-> at]]
  BY <1>1, <1>4 DEF TypeOK, Shown, Record
<1> QED BY <1>2, <1>3, <1>4 DEF Answer

\* The types and the order of the clocks hold, whatever the calls do.
LEMMA TypeInit == Init => TypeOK /\ Clocks
  BY RssAssumption DEF Init, TypeOK, Clocks, Revisions

\* A fetch that the feed has answered has a record to keep if it needs one.
Answerable == \A p \in Pages : In(p, "answered") /\ ~call[p].new => call[p].record # None

LEMMA TypeStep == TypeOK /\ Clocks /\ Answerable /\ [Next]_vars => TypeOK' /\ Clocks'
<1> SUFFICES ASSUME TypeOK, Clocks, Answerable, [Next]_vars
             PROVE  TypeOK' /\ Clocks'
  OBVIOUS
<1> USE RssAssumption DEF Clocks
<1>1. ASSUME NEW p \in Pages, AskFresh(p)
      PROVE  TypeOK' /\ Clocks'
  <2>1. cache \in Record
    BY <1>1 DEF AskFresh, Fresh, TypeOK
  <2>2. Answer(p, cache, time) /\ time \in Nat
    BY <1>1 DEF AskFresh, TypeOK
  <2> QED BY <1>1, <2>1, <2>2, AnswerType DEF AskFresh, TypeOK
<1>2. ASSUME NEW p \in Pages, AskStale(p)
      PROVE  TypeOK' /\ Clocks'
  <2>1. [step |-> "fetching", record |-> cache, since |-> time] \in Call
    BY DEF TypeOK, Call
  <2> QED BY <1>2, <2>1 DEF AskStale, TypeOK
<1>3. ASSUME NEW p \in Pages, FeedAnswers(p)
      PROVE  TypeOK' /\ Clocks'
  <2>1. call[p] \in Call /\ call[p].step = "fetching"
    BY <1>3 DEF FeedAnswers, In, TypeOK
  <2>2. PICK new \in BOOLEAN :
          call' = [call EXCEPT ![p] =
                     [step |-> "answered", record |-> call[p].record, since |-> call[p].since,
                      revision |-> feed, new |-> new]]
    BY <1>3 DEF FeedAnswers
  <2>3. [step |-> "answered", record |-> call[p].record, since |-> call[p].since,
         revision |-> feed, new |-> new] \in Call
    BY <2>1, CallSteps DEF TypeOK, Call
  <2> QED BY <1>3, <2>2, <2>3 DEF FeedAnswers, TypeOK
<1>4. ASSUME NEW p \in Pages, FetchEnds(p)
      PROVE  TypeOK' /\ Clocks'
  <2>1. call[p] \in Call /\ call[p].step = "answered"
    BY <1>4 DEF FetchEnds, In, TypeOK
  <2> DEFINE due == IF call[p].new THEN Updated(call[p]) ELSE Revalidated(call[p])
  <2>2. due \in Record
    BY <1>4, <2>1, CallSteps, UpdatedType, RevalidatedType DEF Answerable, FetchEnds
  <2>3. [step |-> "saving", record |-> call[p].record, due |-> due, at |-> time] \in Call
    BY <2>1, <2>2, CallSteps DEF TypeOK, Call
  <2>4. call' \in [Pages -> Call \cup {None}]
    BY <1>4, <2>3 DEF FetchEnds, TypeOK
  <2>5. past' \in [tied: BOOLEAN, overlapped: BOOLEAN, lost: BOOLEAN]
    BY <1>4, <2>1, CallSteps DEF FetchEnds, TypeOK
  <2>6. lastNew' \in Nat /\ lastNew' <= time
    BY <1>4 DEF FetchEnds, TypeOK
  <2> QED BY <1>4, <2>4, <2>5, <2>6 DEF FetchEnds, TypeOK
<1>5. ASSUME NEW p \in Pages, Save(p)
      PROVE  TypeOK' /\ Clocks'
  <2>1. call[p].due \in Record /\ call[p].at \in Nat
    BY <1>5, CallSteps DEF Save, In, TypeOK
  <2>2. Answer(p, call[p].due, call[p].at)
    BY <1>5 DEF Save
  <2>3. cache' \in Record \cup {None} /\ past' \in [tied: BOOLEAN, overlapped: BOOLEAN, lost: BOOLEAN]
    BY <1>5, <2>1 DEF Save, TypeOK
  <2> QED BY <1>5, <2>1, <2>2, <2>3, AnswerType DEF Save, TypeOK
<1>6. ASSUME NEW p \in Pages, Fail(p)
      PROVE  TypeOK' /\ Clocks'
  BY <1>6 DEF Fail, TypeOK
<1>7. CASE Evict
  BY <1>7 DEF Evict, TypeOK
<1>8. CASE FeedChanges
  BY <1>8 DEF FeedChanges, TypeOK, Revisions
<1>9. CASE Tick
  BY <1>9 DEF Tick, TypeOK
<1>10. CASE ClockIsSetBack
  BY <1>10 DEF ClockIsSetBack, TypeOK
<1>11. CASE UNCHANGED vars
  BY <1>11 DEF vars, TypeOK
<1> QED
  BY <1>1, <1>2, <1>3, <1>4, <1>5, <1>6, <1>7, <1>8, <1>9, <1>10, <1>11 DEF Next, Step

-----------------------------------------------------------------------------
(* What is known of the feed stays true. *)

\* The feed and the time go forward, and the past is not rewritten.
LEMMA PastStays ==
  ASSUME TypeOK, [Next]_vars
  PROVE  /\ feed' \in Revisions /\ feed <= feed'
         /\ time' \in Nat /\ time <= time'
         /\ \A r \in Revisions : r < feed => left'[r] = left[r]
         /\ feed' = feed \/ left'[feed] = time
         /\ left' \in [Revisions -> Nat]
<1>1. ASSUME NEW p \in Pages, Step(p)
      PROVE  UNCHANGED <<feed, left, time>>
  BY <1>1 DEF Step, AskFresh, AskStale, FeedAnswers, FetchEnds, Save, Fail
<1>2. CASE UNCHANGED <<feed, left, time>>
  BY <1>2, RssAssumption DEF TypeOK, Revisions
<1>3. CASE FeedChanges
  BY <1>3, RssAssumption DEF FeedChanges, TypeOK, Revisions
<1>4. CASE Tick
  BY <1>4, RssAssumption DEF Tick, TypeOK, Revisions
<1>5. CASE Evict \/ ClockIsSetBack \/ UNCHANGED vars
  BY <1>2, <1>5 DEF Evict, ClockIsSetBack, vars
<1> QED BY <1>1, <1>2, <1>3, <1>4, <1>5 DEF Next

\* What was said stays said.
LEMMA SaidStays ==
  ASSUME TypeOK, [Next]_vars, NEW r \in Revisions, r <= feed, NEW t \in Nat, t <= time
  PROVE  /\ SaidSince(r, t, feed, left) => SaidSince(r, t, feed', left')
         /\ r = feed \/ left[r] >= t => r = feed' \/ left'[r] >= t
<1>1. /\ feed \in Nat /\ feed' \in Nat /\ feed <= feed' /\ r \in Nat /\ Timeout \in Nat
      /\ left[r] \in Nat /\ left'[r] \in Nat /\ time \in Nat
  BY PastStays, RssAssumption DEF TypeOK, Revisions
<1>2. CASE r < feed
  BY <1>1, <1>2, PastStays DEF SaidSince
<1>3. CASE r = feed
  BY <1>1, <1>3, PastStays DEF SaidSince
<1> QED BY <1>1, <1>2, <1>3

\* An honest record stays honest.
LEMMA HonestStays ==
  ASSUME TypeOK, [Next]_vars, NEW a \in Record \cup {None}, Honest(a, feed, left, time)
  PROVE  Honest(a, feed', left', time')
<1> SUFFICES ASSUME a # None PROVE Honest(a, feed', left', time')
  BY DEF Honest
<1>1. a.revision \in Revisions /\ a.validatedAt \in Nat
  BY DEF Record
<1>2. a.revision <= feed /\ a.validatedAt <= time /\ SaidSince(a.revision, a.validatedAt, feed, left)
  BY DEF Honest
<1> QED BY <1>1, <1>2, SaidStays, PastStays DEF Honest, TypeOK, Revisions

\* So does a call.
LEMMA HonestCallStays ==
  ASSUME TypeOK, [Next]_vars, NEW c \in Call \cup {None}, HonestCall(c, feed, left, time)
  PROVE  HonestCall(c, feed', left', time')
<1> SUFFICES ASSUME c # None PROVE HonestCall(c, feed', left', time')
  BY DEF HonestCall
<1>1. Honest(c.record, feed', left', time')
  BY HonestStays, CallSteps DEF HonestCall
<1>2. ASSUME c.step \in {"fetching", "answered"} PROVE c.since <= time'
  BY <1>2, CallSteps, PastStays DEF HonestCall, TypeOK
<1>3. ASSUME c.step = "answered"
      PROVE  /\ c.revision <= feed'
             /\ c.revision = feed' \/ left'[c.revision] >= c.since
             /\ c.record # None => c.record.revision <= c.revision
             /\ ~c.new => c.record # None /\ c.record.revision = c.revision
  <2>1. /\ c.revision \in Revisions /\ c.since \in Nat /\ c.since <= time
        /\ c.revision <= feed /\ (c.revision = feed \/ left[c.revision] >= c.since)
        /\ c.record # None => c.record.revision <= c.revision
        /\ ~c.new => c.record # None /\ c.record.revision = c.revision
    BY <1>3, CallSteps DEF HonestCall
  <2> QED BY <2>1, SaidStays, PastStays DEF TypeOK, Revisions
<1>4. ASSUME c.step = "saving"
      PROVE  /\ Honest(c.due, feed', left', time')
             /\ c.at <= time' /\ SaidSince(c.due.revision, c.at, feed', left')
  <2>1. /\ c.due \in Record /\ c.at \in Nat /\ Honest(c.due, feed, left, time)
        /\ c.at <= time /\ SaidSince(c.due.revision, c.at, feed, left)
    BY <1>4, CallSteps DEF HonestCall
  <2>2. c.due # None /\ c.due.revision \in Revisions /\ c.due.revision <= feed
    BY <2>1, NoneIsNothing DEF Honest, Record
  <2> QED BY <2>1, <2>2, SaidStays, HonestStays, PastStays DEF TypeOK
<1> QED BY <1>1, <1>2, <1>3, <1>4 DEF HonestCall

-----------------------------------------------------------------------------
(* What a step may change. *)

\* The cache entry is saved by a call, lost, or stays.
LEMMA CacheStep ==
  ASSUME TypeOK, [Next]_vars
  PROVE  \/ cache' = cache
         \/ cache' = None /\ past'.lost
         \/ \E p \in Pages : Save(p) /\ cache' = call[p].due
<1>1. CASE \E p \in Pages : Save(p)
  BY <1>1 DEF Save
<1>2. CASE Evict
  BY <1>2 DEF Evict, TypeOK
<1>3. CASE \E p \in Pages : AskFresh(p) \/ AskStale(p) \/ FeedAnswers(p) \/ FetchEnds(p) \/ Fail(p)
  BY <1>3 DEF AskFresh, AskStale, FeedAnswers, FetchEnds, Fail
<1>4. CASE FeedChanges \/ Tick \/ ClockIsSetBack \/ UNCHANGED vars
  BY <1>4 DEF FeedChanges, Tick, ClockIsSetBack, vars
<1> QED BY <1>1, <1>2, <1>3, <1>4 DEF Next, Step

\* A call ends, stays, or takes its next step.
LEMMA CallStep ==
  ASSUME TypeOK, [Next]_vars, NEW p \in Pages
  PROVE  \/ call'[p] = call[p]
         \/ call'[p] = None
         \/ /\ AskStale(p)
            /\ call'[p] = [step |-> "fetching", record |-> cache, since |-> time]
         \/ /\ FeedAnswers(p)
            /\ \E new \in BOOLEAN :
                 /\ new \/ (call[p].record # None /\ call[p].record.revision = feed)
                 /\ call'[p] = [step |-> "answered", record |-> call[p].record,
                                since |-> call[p].since, revision |-> feed, new |-> new]
         \/ /\ FetchEnds(p)
            /\ call'[p] = [step |-> "saving", record |-> call[p].record,
                           due |-> IF call[p].new THEN Updated(call[p]) ELSE Revalidated(call[p]),
                           at |-> time]
<1>1. ASSUME NEW q \in Pages, Step(q), q # p
      PROVE  call'[p] = call[p]
  BY <1>1 DEF Step, AskFresh, AskStale, FeedAnswers, FetchEnds, Save, Fail, Answer, TypeOK
<1>2. ASSUME AskFresh(p) \/ Save(p) \/ Fail(p)
      PROVE  call'[p] = None
  BY <1>2 DEF AskFresh, Save, Fail, Answer, TypeOK
<1>3. ASSUME AskStale(p)
      PROVE  call'[p] = [step |-> "fetching", record |-> cache, since |-> time]
  BY <1>3 DEF AskStale, TypeOK
<1>4. ASSUME FeedAnswers(p)
      PROVE  \E new \in BOOLEAN :
               /\ new \/ (call[p].record # None /\ call[p].record.revision = feed)
               /\ call'[p] = [step |-> "answered", record |-> call[p].record,
                              since |-> call[p].since, revision |-> feed, new |-> new]
  BY <1>4 DEF FeedAnswers, TypeOK
<1>5. ASSUME FetchEnds(p)
      PROVE  call'[p] = [step |-> "saving", record |-> call[p].record,
                         due |-> IF call[p].new THEN Updated(call[p]) ELSE Revalidated(call[p]),
                         at |-> time]
  BY <1>5 DEF FetchEnds, TypeOK
<1>6. CASE Evict \/ FeedChanges \/ Tick \/ ClockIsSetBack \/ UNCHANGED vars
  BY <1>6 DEF Evict, FeedChanges, Tick, ClockIsSetBack, vars
<1>7. ASSUME Step(p)
      PROVE  AskFresh(p) \/ AskStale(p) \/ FeedAnswers(p) \/ FetchEnds(p) \/ Save(p) \/ Fail(p)
  BY <1>7 DEF Step
<1> QED BY <1>1, <1>2, <1>3, <1>4, <1>5, <1>6, <1>7 DEF Next

\* A page changes only with an answer, and then shows the document of the
\* record answered from, or what it showed when the number is the same.
Told(p, a, at) ==
  /\ \/ AskFresh(p) /\ a = cache /\ at = time
     \/ Save(p) /\ a = call[p].due /\ at = call[p].at
  /\ shown'[p] # None /\ shown'[p].version = a.version /\ shown'[p].at = at
  /\ \/ shown'[p].revision = a.revision
     \/ shown[p] # None /\ shown[p].version = a.version /\ shown'[p].revision = shown[p].revision

LEMMA ShownStep ==
  ASSUME TypeOK, [Next]_vars, NEW p \in Pages
  PROVE  shown'[p] = shown[p] \/ \E a \in Record, at \in Nat : Told(p, a, at)
<1>1. ASSUME NEW q \in Pages, Step(q), q # p
      PROVE  shown'[p] = shown[p]
  BY <1>1 DEF Step, AskFresh, AskStale, FeedAnswers, FetchEnds, Save, Fail, Answer, TypeOK
<1>2. CASE AskStale(p) \/ FeedAnswers(p) \/ FetchEnds(p) \/ Fail(p) \/ Evict \/ FeedChanges
            \/ Tick \/ ClockIsSetBack \/ UNCHANGED vars
  BY <1>2 DEF AskStale, FeedAnswers, FetchEnds, Fail, Evict, FeedChanges, Tick, ClockIsSetBack, vars
<1>3. ASSUME NEW a \in Record, NEW at \in Nat, Answer(p, a, at), shown'[p] # shown[p]
      PROVE  /\ shown'[p] # None /\ shown'[p].version = a.version /\ shown'[p].at = at
             /\ \/ shown'[p].revision = a.revision
                \/ shown[p] # None /\ shown[p].version = a.version /\ shown'[p].revision = shown[p].revision
  <2>1. CASE Current(p, a) /\ shown' = [shown EXCEPT ![p].at = at]
    <3>1. shown[p] \in Shown /\ shown[p].version = a.version
      BY <2>1 DEF Current, TypeOK
    <3>2. shown'[p] = [shown[p] EXCEPT !.at = at]
      BY <2>1 DEF TypeOK
    <3>3. shown'[p] \in Shown
      BY <3>1, <3>2 DEF Shown
    <3> QED BY <2>1, <3>1, <3>2, <3>3, NoneIsNothing DEF Shown
  <2>2. CASE shown' = [shown EXCEPT ![p] =
                         [version |-> a.version, revision |-> a.revision, at |-> at]]
    <3>1. shown'[p] = [version |-> a.version, revision |-> a.revision, at |-> at]
      BY <2>2 DEF TypeOK
    <3>2. shown'[p] \in Shown
      BY <3>1 DEF Shown, Record
    <3> QED BY <3>1, <3>2, NoneIsNothing
  <2> QED BY <1>3, <2>1, <2>2 DEF Answer
<1>4. CASE AskFresh(p)
  <2>1. Answer(p, cache, time) /\ cache \in Record /\ time \in Nat
    BY <1>4 DEF AskFresh, Fresh, TypeOK
  <2>2. CASE shown'[p] # shown[p]
    <3> DEFINE a == cache
               at == time
    <3>1. /\ shown'[p] # None /\ shown'[p].version = a.version /\ shown'[p].at = at
          /\ \/ shown'[p].revision = a.revision
             \/ shown[p] # None /\ shown[p].version = a.version /\ shown'[p].revision = shown[p].revision
      BY <1>3, <2>1, <2>2
    <3>2. Told(p, a, at)
      BY <1>4, <3>1 DEF Told
    <3> QED BY <2>1, <3>2
  <2> QED BY <2>2
<1>5. CASE Save(p)
  <2>1. Answer(p, call[p].due, call[p].at) /\ call[p].due \in Record /\ call[p].at \in Nat
    BY <1>5, CallSteps DEF Save, In, TypeOK
  <2>2. CASE shown'[p] # shown[p]
    <3> DEFINE a == call[p].due
               at == call[p].at
    <3>1. /\ shown'[p] # None /\ shown'[p].version = a.version /\ shown'[p].at = at
          /\ \/ shown'[p].revision = a.revision
             \/ shown[p] # None /\ shown[p].version = a.version /\ shown'[p].revision = shown[p].revision
      BY <1>3, <2>1, <2>2
    <3>2. Told(p, a, at)
      BY <1>5, <3>1 DEF Told
    <3> QED BY <2>1, <3>2
  <2> QED BY <2>2
<1> QED BY <1>1, <1>2, <1>4, <1>5 DEF Next, Step

\* The circumstances that were met stay met.
LEMMA PastGrows ==
  ASSUME TypeOK, [Next]_vars
  PROVE  /\ past.tied => past'.tied
         /\ past.overlapped => past'.overlapped
         /\ past.lost => past'.lost
         /\ skew' \in Nat /\ skew <= skew'
         /\ NumbersMayRepeat => NumbersMayRepeat'
<1>1. /\ past.tied => past'.tied
      /\ past.overlapped => past'.overlapped
      /\ past.lost => past'.lost
  <2>1. CASE \E p \in Pages : FetchEnds(p)
    BY <2>1 DEF FetchEnds, TypeOK
  <2>2. CASE Evict \/ \E p \in Pages : Save(p)
    BY <2>2 DEF Evict, Save, TypeOK
  <2>3. CASE UNCHANGED past
    BY <2>3
  <2>4. CASE \E p \in Pages : AskFresh(p) \/ AskStale(p) \/ FeedAnswers(p) \/ Fail(p)
    BY <2>3, <2>4 DEF AskFresh, AskStale, FeedAnswers, Fail
  <2>5. CASE FeedChanges \/ Tick \/ ClockIsSetBack \/ UNCHANGED vars
    BY <2>3, <2>5 DEF FeedChanges, Tick, ClockIsSetBack, vars
  <2> QED BY <2>1, <2>2, <2>4, <2>5 DEF Next, Step
<1>2. skew' \in Nat /\ skew <= skew'
  <2>1. CASE UNCHANGED skew
    BY <2>1 DEF TypeOK
  <2>2. CASE ClockIsSetBack
    BY <2>2 DEF ClockIsSetBack, TypeOK
  <2>3. CASE \E p \in Pages : Step(p)
    BY <2>1, <2>3 DEF Step, AskFresh, AskStale, FeedAnswers, FetchEnds, Save, Fail
  <2>4. CASE FeedChanges \/ Tick \/ Evict \/ UNCHANGED vars
    BY <2>1, <2>4 DEF FeedChanges, Tick, Evict, vars
  <2> QED BY <2>2, <2>3, <2>4 DEF Next
<1>3. skew > 0 => skew' > 0
  BY <1>2 DEF TypeOK
<1> QED BY <1>1, <1>2, <1>3 DEF NumbersMayRepeat

-----------------------------------------------------------------------------
(* Every record is honest. *)

LEMMA HonestStep ==
  ASSUME TypeOK, HonestInv, [Next]_vars
  PROVE  HonestInv'
<1>1. Honest(cache', feed', left', time')
  <2>1. CASE cache' = cache
    BY <2>1, HonestStays DEF HonestInv, TypeOK
  <2>2. CASE cache' = None
    BY <2>2 DEF Honest
  <2>3. ASSUME NEW p \in Pages, Save(p), cache' = call[p].due
        PROVE  Honest(cache', feed', left', time')
    <3>1. call[p] \in Call /\ call[p].step = "saving" /\ call[p].due \in Record
      BY <2>3, CallSteps DEF Save, In, TypeOK
    <3>2. Honest(call[p].due, feed, left, time)
      BY <3>1, CallSteps DEF HonestInv, HonestCall
    <3> QED BY <2>3, <3>1, <3>2, HonestStays
  <2> QED BY <2>1, <2>2, <2>3, CacheStep
<1>2. ASSUME NEW p \in Pages
      PROVE  HonestCall(call'[p], feed', left', time')
  <2>1. CASE call'[p] = call[p]
    BY <2>1, HonestCallStays DEF HonestInv, TypeOK
  <2>2. CASE call'[p] = None
    BY <2>2 DEF HonestCall
  <2>3. CASE AskStale(p) /\ call'[p] = [step |-> "fetching", record |-> cache, since |-> time]
    <3>1. UNCHANGED <<feed, left, time>>
      BY <2>3 DEF AskStale
    <3> QED BY <2>3, <3>1 DEF HonestInv, HonestCall, TypeOK
  <2>4. ASSUME FeedAnswers(p), NEW new \in BOOLEAN,
               new \/ (call[p].record # None /\ call[p].record.revision = feed),
               call'[p] = [step |-> "answered", record |-> call[p].record,
                           since |-> call[p].since, revision |-> feed, new |-> new]
        PROVE  HonestCall(call'[p], feed', left', time')
    <3>1. UNCHANGED <<feed, left, time>> /\ call[p] \in Call /\ call[p].step = "fetching"
      BY <2>4 DEF FeedAnswers, In, TypeOK
    <3>2. Honest(call[p].record, feed, left, time) /\ call[p].since <= time
      BY <3>1, CallSteps DEF HonestInv, HonestCall
    <3>3. call[p].record # None => call[p].record.revision <= feed
      BY <3>2 DEF Honest
    <3>4. feed <= feed
      BY RssAssumption DEF TypeOK, Revisions
    <3> QED BY <2>4, <3>1, <3>2, <3>3, <3>4 DEF HonestCall
  <2>5. ASSUME FetchEnds(p),
               call'[p] = [step |-> "saving", record |-> call[p].record,
                           due |-> IF call[p].new THEN Updated(call[p]) ELSE Revalidated(call[p]),
                           at |-> time]
        PROVE  HonestCall(call'[p], feed', left', time')
    <3> DEFINE c == call[p]
               due == IF c.new THEN Updated(c) ELSE Revalidated(c)
    <3>1. /\ UNCHANGED <<feed, left, time>> /\ c \in Call /\ c.step = "answered"
          /\ time <= c.since + Timeout
      BY <2>5 DEF FetchEnds, In, TypeOK
    <3>2. /\ Honest(c.record, feed, left, time) /\ c.revision <= feed
          /\ c.revision = feed \/ left[c.revision] >= c.since
          /\ ~c.new => c.record # None /\ c.record.revision = c.revision
      BY <3>1, CallSteps DEF HonestInv, HonestCall
    <3>3. due.revision = c.revision /\ due.validatedAt = Clock
      BY <3>1, <3>2, UpdatedType, RevalidatedType
    <3>4. SaidSince(c.revision, time, feed, left) /\ SaidSince(c.revision, Clock, feed, left)
      <4>1. c.revision = feed \/ left[c.revision] \in Nat
        BY <3>1, CallSteps DEF TypeOK
      <4>2. c.since \in Nat /\ Timeout \in Nat /\ time \in Nat /\ Clock \in Nat /\ Clock <= time
        BY <3>1, CallSteps, RssAssumption, ClockType DEF TypeOK
      <4> QED BY <3>1, <3>2, <4>1, <4>2 DEF SaidSince
    <3>5. Honest(due, feed, left, time)
      BY <3>2, <3>3, <3>4, ClockType DEF Honest
    <3>6. time <= time
      BY DEF TypeOK
    <3> HIDE DEF due
    <3> QED BY <2>5, <3>1, <3>2, <3>3, <3>4, <3>5, <3>6 DEF HonestCall, due
  <2> QED BY <2>1, <2>2, <2>3, <2>4, <2>5, CallStep
<1>3. ASSUME NEW p \in Pages, shown'[p] # None
      PROVE  shown'[p].revision <= feed' /\ shown'[p].at <= time'
  <2>1. CASE shown'[p] = shown[p]
    <3>1. shown[p].revision \in Nat /\ shown[p].at \in Nat
      BY <1>3, <2>1, RssAssumption DEF TypeOK, Shown, Revisions
    <3> QED BY <1>3, <2>1, <3>1, PastStays, RssAssumption DEF HonestInv, TypeOK, Revisions
  <2>2. ASSUME NEW a \in Record, NEW at \in Nat, Told(p, a, at)
        PROVE  shown'[p].revision <= feed' /\ shown'[p].at <= time'
    <3>1. Honest(a, feed, left, time) /\ at <= time /\ UNCHANGED <<feed, time>>
      <4>1. CASE AskFresh(p) /\ a = cache /\ at = time
        BY <4>1 DEF AskFresh, HonestInv, TypeOK
      <4>2. CASE Save(p) /\ a = call[p].due /\ at = call[p].at
        <5>1. call[p] \in Call /\ call[p].step = "saving" /\ UNCHANGED <<feed, time>>
          BY <4>2 DEF Save, In, TypeOK
        <5> QED BY <4>2, <5>1, CallSteps DEF HonestInv, HonestCall
      <4> QED BY <2>2, <4>1, <4>2 DEF Told
    <3>2. a.revision <= feed
      BY <3>1, NoneIsNothing DEF Honest
    <3>3. shown[p] # None => shown[p].revision <= feed
      BY DEF HonestInv
    <3> QED BY <2>2, <3>1, <3>2, <3>3 DEF Told
  <2> QED BY <2>1, <2>2, ShownStep
<1> QED BY <1>1, <1>2, <1>3 DEF HonestInv

-----------------------------------------------------------------------------
(* Without overlapping calls and losses the entry moves forward. *)

Numbered == [version : Nat \ {0}, revision : Revisions, validatedAt : Nat \ {0}]
            \cup Shown \cup {None}

\* Following is reflexive and transitive.
LEMMA FollowsSelf ==
  ASSUME NEW a \in Numbered
  PROVE  Follows(a, a)
  BY RssAssumption DEF Numbered, Shown, Follows, Revisions

LEMMA FollowsChain ==
  ASSUME NEW a \in Numbered, NEW b \in Numbered, NEW c \in Numbered,
         Follows(a, b), Follows(b, c)
  PROVE  Follows(a, c)
  BY RssAssumption DEF Numbered, Shown, Follows, Revisions

\* What the state holds is numbered.
LEMMA AllNumbered ==
  ASSUME TypeOK
  PROVE  /\ cache \in Numbered
         /\ \A p \in Pages : shown[p] \in Numbered
         /\ \A p \in Pages : call[p] # None => call[p] \in Call /\ call[p].record \in Numbered
         /\ \A p \in Pages : In(p, "saving") => call[p].due \in Numbered /\ call[p].due # None
<1>1. ASSUME NEW p \in Pages, call[p] # None
      PROVE  call[p] \in Call /\ call[p].record \in Numbered
  BY <1>1, CallSteps DEF TypeOK, Numbered, Record
<1>2. ASSUME NEW p \in Pages, In(p, "saving")
      PROVE  call[p].due \in Numbered /\ call[p].due # None
  BY <1>2, CallSteps, NoneIsNothing DEF TypeOK, Numbered, Record, In
<1> QED BY <1>1, <1>2 DEF TypeOK, Numbered, Record

\* A record that is due follows the one the call has loaded.
LEMMA DueFollows ==
  ASSUME TypeOK, HonestInv, NEW p \in Pages, FetchEnds(p)
  PROVE  LET c   == call[p]
             due == IF c.new THEN Updated(c) ELSE Revalidated(c)
         IN  Follows(c.record, due) /\ due # None
<1> DEFINE c == call[p]
           due == IF c.new THEN Updated(c) ELSE Revalidated(c)
<1>1. c \in Call /\ c.step = "answered"
  BY DEF FetchEnds, In, TypeOK
<1>2. /\ c.record # None => c.record.revision <= c.revision
      /\ ~c.new => c.record # None /\ c.record.revision = c.revision
  BY <1>1, CallSteps DEF HonestInv, HonestCall
<1>3. ASSUME c.new
      PROVE  Follows(c.record, due) /\ due # None
  <2>1. /\ due \in Record /\ due.revision = c.revision
        /\ c.record # None => due.version > c.record.version
    BY <1>1, <1>3, UpdatedType
  <2> HIDE DEF due
  <2>2. c.record # None => c.record.version \in Nat
    BY <1>1, CallSteps DEF Record
  <2>3. due.version \in Nat /\ due # None
    BY <2>1, NoneIsNothing DEF Record
  <2> QED BY <1>2, <2>1, <2>2, <2>3 DEF Follows
<1>4. ASSUME ~c.new
      PROVE  Follows(c.record, due) /\ due # None
  <2>1. /\ c.record # None /\ due \in Record /\ due.revision = c.record.revision
        /\ due.version = c.record.version
    BY <1>1, <1>2, <1>4, RevalidatedType
  <2> HIDE DEF due
  <2>2. c.record.version \in Nat /\ c.record.revision \in Nat
    BY <1>1, <2>1, CallSteps, RssAssumption DEF Record, Revisions
  <2> QED BY <2>1, <2>2, NoneIsNothing DEF Follows
<1> QED BY <1>3, <1>4

\* A call that ends its fetch quietly has loaded the entry, and none is saving.
LEMMA QuietFetch ==
  ASSUME TypeOK, NEW p \in Pages, FetchEnds(p), Quiet'
  PROVE  /\ cache = call[p].record /\ cache' = cache
         /\ \A q \in Pages : ~In(q, "saving")
<1>1. cache = call[p].record /\ \A q \in Pages \ {p} : ~In(q, "saving")
  BY DEF FetchEnds, Quiet, TypeOK
<1>2. ~In(p, "saving") /\ cache' = cache
  BY DEF FetchEnds, In
<1> QED BY <1>1, <1>2

\* A quiet save replaces the entry by one that follows it.
LEMMA QuietSave ==
  ASSUME TypeOK, QuietInv, [Next]_vars, Quiet'
  PROVE  /\ Quiet /\ Follows(cache, cache')
         /\ \A p \in Pages : Save(p) => cache' = call[p].due /\ call'[p] = None
<1>1. Quiet
  BY PastGrows DEF Quiet
<1>2. ASSUME NEW p \in Pages, Save(p)
      PROVE  cache' = call[p].due /\ call'[p] = None
  <2>1. cache' = call[p].due
    BY <1>2 DEF Save, Quiet, TypeOK
  <2> QED BY <1>2, <2>1 DEF Save, Answer, TypeOK
<1>3. ASSUME cache' = cache
      PROVE  Follows(cache, cache')
  BY <1>3, FollowsSelf, AllNumbered
<1>4. ASSUME NEW p \in Pages, Save(p)
      PROVE  Follows(cache, cache')
  <2>1. Follows(cache, call[p].due)
    BY <1>1, <1>4 DEF QuietInv, Save
  <2> QED BY <1>2, <1>4, <2>1
<1> QED BY <1>1, <1>2, <1>3, <1>4, CacheStep DEF Quiet

LEMMA QuietStep ==
  ASSUME TypeOK, TypeOK', HonestInv, QuietInv, [Next]_vars
  PROVE  QuietInv'
<1> SUFFICES ASSUME Quiet' PROVE
      /\ \A p \in Pages : Follows(shown'[p], cache')
      /\ \A p \in Pages : call'[p] # None => Follows(call'[p].record, cache')
      /\ \A p \in Pages : In(p, "saving")' => Follows(cache', call'[p].due)
      /\ \A p, q \in Pages : In(p, "saving")' /\ In(q, "saving")' => p = q
  BY DEF QuietInv
<1>1. /\ Quiet /\ Follows(cache, cache')
      /\ \A p \in Pages : Save(p) => cache' = call[p].due /\ call'[p] = None
  BY QuietSave
<1>2. cache' \in Numbered
  BY DEF TypeOK, Numbered, Record
<1>3. ASSUME NEW p \in Pages
      PROVE  Follows(shown'[p], cache')
  <2>1. Follows(shown[p], cache')
    BY <1>1, <1>2, AllNumbered, FollowsChain DEF QuietInv
  <2>2. CASE shown'[p] = shown[p]
    BY <2>1, <2>2
  <2>3. ASSUME NEW a \in Record, NEW at \in Nat, Told(p, a, at)
        PROVE  Follows(shown'[p], cache')
    <3>1. cache' = a
      BY <1>1, <2>3 DEF Told, AskFresh
    <3>2. /\ shown'[p] # None /\ shown'[p].version = a.version
          /\ \/ shown'[p].revision = a.revision
             \/ shown[p] # None /\ shown[p].version = a.version /\ shown'[p].revision = shown[p].revision
      BY <2>3 DEF Told
    <3>3. shown'[p].revision = a.revision
      BY <2>1, <3>1, <3>2 DEF Follows
    <3> QED BY <3>1, <3>2, <3>3, NoneIsNothing, RssAssumption DEF Follows, Record, Revisions
  <2> QED BY <2>2, <2>3, ShownStep
<1>4. ASSUME NEW p \in Pages, call'[p] # None
      PROVE  Follows(call'[p].record, cache')
  <2>1. CASE call[p] # None /\ call'[p].record = call[p].record
    BY <1>1, <1>2, <2>1, AllNumbered, FollowsChain DEF QuietInv
  <2>2. CASE call'[p].record = cache
    BY <1>1, <2>2
  <2>3. CASE AskStale(p) /\ call'[p] = [step |-> "fetching", record |-> cache, since |-> time]
    BY <2>2, <2>3
  <2>4. CASE FeedAnswers(p) \/ FetchEnds(p)
    <3>1. call[p] # None
      BY <2>4 DEF FeedAnswers, FetchEnds, In
    <3>2. ASSUME FeedAnswers(p)
          PROVE  call'[p].record = call[p].record
      BY <3>2 DEF FeedAnswers, TypeOK
    <3>3. ASSUME FetchEnds(p)
          PROVE  call'[p].record = call[p].record
      BY <3>3 DEF FetchEnds, TypeOK
    <3> QED BY <2>1, <2>4, <3>1, <3>2, <3>3
  <2>5. CASE call'[p] = call[p]
    BY <1>4, <2>1, <2>5
  <2> QED BY <1>4, <2>3, <2>4, <2>5, CallStep
<1>5. ASSUME NEW p \in Pages, In(p, "saving")'
      PROVE  \/ FetchEnds(p)
             \/ In(p, "saving") /\ call'[p] = call[p] /\ ~Save(p)
  <2>1. CASE call'[p] = call[p]
    BY <1>1, <1>5, <2>1 DEF In
  <2>2. CASE call'[p] = None
    BY <1>5, <2>2 DEF In
  <2>3. CASE call'[p] = [step |-> "fetching", record |-> cache, since |-> time]
    BY <1>5, <2>3 DEF In
  <2>4. ASSUME NEW new, call'[p] = [step |-> "answered", record |-> call[p].record,
                                    since |-> call[p].since, revision |-> feed, new |-> new]
        PROVE  FALSE
    BY <1>5, <2>4 DEF In
  <2> QED BY <2>1, <2>2, <2>3, <2>4, CallStep
<1>6. ASSUME NEW p \in Pages, In(p, "saving")'
      PROVE  Follows(cache', call'[p].due)
  <2>1. CASE FetchEnds(p)
    <3> DEFINE due == IF call[p].new THEN Updated(call[p]) ELSE Revalidated(call[p])
    <3>1. call'[p].due = due
      BY <2>1 DEF FetchEnds, TypeOK
    <3>2. Follows(call[p].record, due)
      BY <2>1, DueFollows
    <3> QED BY <2>1, <3>1, <3>2, QuietFetch
  <2>2. CASE In(p, "saving") /\ call'[p] = call[p] /\ ~Save(p)
    <3>1. \A q \in Pages : ~Save(q)
      BY <1>1, <2>2 DEF QuietInv, Save
    <3>2. cache' = cache
      BY <3>1, CacheStep DEF Quiet
    <3> QED BY <1>1, <2>2, <3>2 DEF QuietInv
  <2> QED BY <1>5, <1>6, <2>1, <2>2
<1>7. ASSUME NEW p \in Pages, NEW q \in Pages, In(p, "saving")', In(q, "saving")'
      PROVE  p = q
  <2>1. CASE FetchEnds(p) \/ FetchEnds(q)
    <3>1. \A r \in Pages : ~In(r, "saving")
      BY <2>1, QuietFetch
    <3>2. FetchEnds(p) /\ FetchEnds(q)
      BY <1>5, <1>7, <3>1
    <3>3. p # q => call'[q] = call[q]
      BY <3>2 DEF FetchEnds, TypeOK
    <3> QED BY <1>7, <3>1, <3>3 DEF In
  <2>2. CASE In(p, "saving") /\ In(q, "saving")
    BY <1>1, <2>2 DEF QuietInv
  <2> QED BY <1>5, <1>7, <2>1, <2>2
<1> QED BY <1>3, <1>4, <1>6, <1>7

-----------------------------------------------------------------------------
(* Numbers. *)

\* What the records are.
LEMMA RecordsAre ==
  ASSUME NEW a
  PROVE  a \in Records <=>
           /\ a # None
           /\ \/ a = cache
              \/ \E p \in Pages : call[p] # None /\ a = call[p].record
              \/ \E p \in Pages : In(p, "saving") /\ a = call[p].due
              \/ \E p \in Pages : a = shown[p]
  BY DEF Records

\* After a step a record has the number and the document of one before, unless
\* a fetch has just ended with a new document.
Old(a) == \E b \in Records : a.version = b.version /\ a.revision = b.revision

LEMMA OldNumbers ==
  ASSUME TypeOK, TypeOK', HonestInv, [Next]_vars, NEW a \in Records'
  PROVE  Old(a) \/ \E p \in Pages : FetchEnds(p) /\ call[p].new /\ a = Updated(call[p])
<1>1. ASSUME NEW b \in Records, a = b PROVE Old(a)
  BY <1>1 DEF Old
<1>2. ASSUME cache' # None, a = cache' PROVE Old(a)
  <2>1. CASE cache' = cache
    BY <1>1, <1>2, <2>1, RecordsAre
  <2>2. ASSUME NEW p \in Pages, Save(p), cache' = call[p].due PROVE Old(a)
    BY <1>1, <1>2, <2>2, RecordsAre DEF Save
  <2> QED BY <1>2, <2>1, <2>2, CacheStep
<1>3. ASSUME NEW p \in Pages, call'[p] # None, a = call'[p].record, a # None PROVE Old(a)
  <2>1. CASE call[p] # None /\ call'[p].record = call[p].record
    BY <1>1, <1>3, <2>1, RecordsAre
  <2>2. CASE AskStale(p)
    <3>1. a = cache
      BY <1>3, <2>2 DEF AskStale, TypeOK
    <3> QED BY <1>1, <1>3, <3>1, RecordsAre
  <2>3. CASE FeedAnswers(p)
    BY <2>1, <2>3 DEF FeedAnswers, TypeOK, In
  <2>4. CASE FetchEnds(p)
    BY <2>1, <2>4 DEF FetchEnds, TypeOK, In
  <2> QED BY <1>3, <2>1, <2>2, <2>3, <2>4, CallStep
<1>4. ASSUME NEW p \in Pages, In(p, "saving")', a = call'[p].due
      PROVE  Old(a) \/ (FetchEnds(p) /\ call[p].new /\ a = Updated(call[p]))
  <2>1. CASE call'[p] = call[p]
    <3>1. In(p, "saving") /\ a = call[p].due
      BY <1>4, <2>1 DEF In
    <3>2. a # None
      BY <3>1, AllNumbered
    <3> QED BY <1>1, <3>1, <3>2, RecordsAre
  <2>2. CASE call'[p] = None
    BY <1>4, <2>2 DEF In
  <2>3. CASE call'[p] = [step |-> "fetching", record |-> cache, since |-> time]
    BY <1>4, <2>3 DEF In
  <2>4. ASSUME NEW new, call'[p] = [step |-> "answered", record |-> call[p].record,
                                    since |-> call[p].since, revision |-> feed, new |-> new]
        PROVE  FALSE
    BY <1>4, <2>4 DEF In
  <2>5. ASSUME FetchEnds(p), ~call[p].new
        PROVE  Old(a)
    <3>1. call[p] \in Call /\ call[p].step = "answered" /\ a = Revalidated(call[p])
      BY <1>4, <2>5 DEF FetchEnds, TypeOK, In
    <3>2. call[p].record # None
      BY <2>5, <3>1, CallSteps DEF HonestInv, HonestCall
    <3>3. call[p].record \in Records
      BY <3>1, <3>2, CallSteps, RecordsAre
    <3> QED BY <3>1, <3>2, <3>3, RevalidatedType DEF Old
  <2>6. ASSUME FetchEnds(p), call[p].new
        PROVE  a = Updated(call[p])
    BY <1>4, <2>6 DEF FetchEnds, TypeOK
  <2> QED BY <2>1, <2>2, <2>3, <2>4, <2>5, <2>6, CallStep
<1>5. ASSUME NEW p \in Pages, shown'[p] # None, a = shown'[p] PROVE Old(a)
  <2>1. CASE shown'[p] = shown[p]
    BY <1>1, <1>5, <2>1, RecordsAre
  <2>2. ASSUME NEW b \in Record, NEW at \in Nat, Told(p, b, at) PROVE Old(a)
    <3>1. b \in Records
      BY <2>2, RecordsAre, NoneIsNothing DEF Told, Save
    <3>2. shown[p] # None => shown[p] \in Records
      BY RecordsAre
    <3> QED BY <1>5, <2>2, <3>1, <3>2 DEF Told, Old
  <2> QED BY <2>1, <2>2, ShownStep
<1>6. /\ a # None
      /\ \/ a = cache'
         \/ \E p \in Pages : call'[p] # None /\ a = call'[p].record
         \/ \E p \in Pages : In(p, "saving")' /\ a = call'[p].due
         \/ \E p \in Pages : a = shown'[p]
  BY DEF Records, In
<1> QED BY <1>2, <1>3, <1>4, <1>5, <1>6

\* Records have numbers.
LEMMA RecordNumbers ==
  ASSUME TypeOK, NEW a \in Records
  PROVE  a.version \in Nat \ {0} /\ a.revision \in Revisions
<1>1. a \in Record \/ a \in Shown
  BY CallSteps, RecordsAre DEF TypeOK, In
<1> QED BY <1>1 DEF Record, Shown

\* The number of a new document is new, as long as numbers do not repeat.
LEMMA NewNumber ==
  ASSUME TypeOK, Clocks, QuietInv, ClockInv, [Next]_vars, NEW p \in Pages, FetchEnds(p),
         call[p].new, ~NumbersMayRepeat', NEW b \in Records
  PROVE  b.version # Updated(call[p]).version
<1> DEFINE c == call[p]
<1>1. /\ c \in Call /\ c.step = "answered" /\ Updated(c).version \in Nat
      /\ Updated(c).version = NewVersion(c.record)
      /\ c.record # None => Updated(c).version > c.record.version
  <2>1. c \in Call /\ c.step = "answered"
    BY DEF FetchEnds, In, TypeOK
  <2> QED BY <2>1, UpdatedType DEF Record
<1>2. b # None /\ b.version \in Nat
  BY RecordNumbers, RecordsAre
<1>3. CASE Quiet'
  <2>1. cache = c.record /\ Quiet /\ \A q \in Pages : ~In(q, "saving")
    BY <1>3, QuietFetch, PastGrows DEF Quiet
  <2>2. \/ b = cache
        \/ \E q \in Pages : call[q] # None /\ b = call[q].record
        \/ \E q \in Pages : b = shown[q]
    BY <2>1, RecordsAre
  <2>3. Follows(b, cache)
    BY <2>1, <2>2, FollowsSelf, AllNumbered DEF QuietInv
  <2>4. c.record # None /\ b.version <= c.record.version
    BY <1>2, <2>1, <2>3 DEF Follows
  <2>5. c.record.version \in Nat
    BY <1>1, <2>4, CallSteps DEF Record
  <2> QED BY <1>1, <1>2, <2>4, <2>5
<1>4. CASE ~Quiet'
  <2>1. ~past'.tied /\ ~(skew' > 0)
    BY <1>4 DEF NumbersMayRepeat, Quiet
  <2>2. skew = 0 /\ ~past.tied /\ lastNew # time
    <3>1. skew \in Nat /\ skew' = skew
      BY DEF FetchEnds, TypeOK
    <3>2. past'.tied = (past.tied \/ (call[p].new /\ lastNew = time))
      BY DEF FetchEnds, TypeOK
    <3>3. skew = 0
      BY <2>1, <3>1
    <3> QED BY <2>1, <3>2, <3>3
  <2>3. \A a \in Records : a.version <= lastNew
    BY <2>2 DEF ClockInv
  <2>4. lastNew < time /\ lastNew \in Nat /\ time \in Nat /\ time > 0 /\ Clock = time
    BY <2>2, ClockType DEF Clocks, TypeOK
  <2>5. PreviousVersion(c.record) < time
    <3>1. c.record # None => c.record \in Records /\ c.record.version \in Nat
      BY <1>1, CallSteps, RecordsAre DEF Record
    <3> QED BY <2>3, <2>4, <3>1 DEF PreviousVersion
  <2>6. NewVersion(c.record) = time
    BY <2>4, <2>5 DEF NewVersion
  <2> QED BY <1>1, <1>2, <2>3, <2>4, <2>6
<1> QED BY <1>3, <1>4

LEMMA NamesStep ==
  ASSUME TypeOK, TypeOK', Clocks, HonestInv, QuietInv, ClockInv, VersionNamesContent, [Next]_vars
  PROVE  VersionNamesContent'
<1> SUFFICES ASSUME ~NumbersMayRepeat', NEW a \in Records', NEW b \in Records', a.version = b.version
             PROVE  a.revision = b.revision
  BY DEF VersionNamesContent
<1>1. \A x, y \in Records : x.version = y.version => x.revision = y.revision
  BY PastGrows DEF VersionNamesContent
<1>2. CASE Old(a) /\ Old(b)
  BY <1>1, <1>2 DEF Old
<1>3. ASSUME NEW p \in Pages, FetchEnds(p), call[p].new
      PROVE  a.revision = b.revision
  <2>1. ASSUME NEW x, Old(x)
        PROVE  x.version # Updated(call[p]).version
    BY <1>3, <2>1, NewNumber DEF Old
  <2>2. ASSUME NEW q \in Pages, FetchEnds(q)
        PROVE  q = p
    BY <1>3, <2>2 DEF FetchEnds, TypeOK, In
  <2>3. \A x \in Records' : Old(x) \/ x = Updated(call[p])
    BY <2>2, OldNumbers
  <2> QED BY <1>2, <2>1, <2>3
<1> QED BY <1>2, <1>3, OldNumbers

LEMMA ClockStep ==
  ASSUME TypeOK, TypeOK', Clocks, HonestInv, ClockInv, [Next]_vars
  PROVE  ClockInv'
<1> SUFFICES ASSUME skew' = 0, ~past'.tied, NEW a \in Records' PROVE a.version <= lastNew'
  BY DEF ClockInv
<1>1. skew = 0 /\ ~past.tied
  BY PastGrows DEF TypeOK
<1>2. lastNew \in Nat /\ lastNew' \in Nat /\ lastNew <= lastNew' /\ \A b \in Records : b.version <= lastNew
  <2>1. lastNew' = lastNew \/ (\E p \in Pages : FetchEnds(p) /\ lastNew' = time)
    BY DEF Next, Step, AskFresh, AskStale, FeedAnswers, FetchEnds, Save, Fail,
           Evict, FeedChanges, Tick, ClockIsSetBack, vars
  <2> QED BY <1>1, <2>1 DEF Clocks, TypeOK, ClockInv
<1>3. CASE Old(a)
  BY <1>2, <1>3, RecordNumbers DEF Old
<1>4. ASSUME NEW p \in Pages, FetchEnds(p), call[p].new, a = Updated(call[p])
      PROVE  a.version <= lastNew'
  <2> DEFINE c == call[p]
  <2>1. c \in Call /\ c.step = "answered" /\ lastNew' = time
    BY <1>4 DEF FetchEnds, In, TypeOK
  <2>2. a.version = NewVersion(c.record) /\ Clock = time /\ time \in Nat
    <3>1. a.version = NewVersion(c.record)
      BY <1>4, <2>1, UpdatedType
    <3>2. Clock = time /\ time \in Nat
      BY <1>1, ClockType DEF TypeOK
    <3> QED BY <3>1, <3>2
  <2>3. lastNew < time
    <3>1. past'.tied = (past.tied \/ (call[p].new /\ lastNew = time))
      BY <1>4 DEF FetchEnds, TypeOK
    <3>2. lastNew <= time /\ lastNew # time
      BY <1>4, <3>1 DEF Clocks
    <3> QED BY <1>2, <2>2, <3>2
  <2>4. PreviousVersion(c.record) < time /\ PreviousVersion(c.record) \in Nat
    <3>1. c.record # None => c.record \in Records /\ c.record.version \in Nat
      BY <2>1, CallSteps, RecordsAre DEF Record
    <3> QED BY <1>2, <2>2, <2>3, <3>1 DEF PreviousVersion
  <2> QED BY <2>1, <2>2, <2>4 DEF NewVersion
<1> QED BY <1>3, <1>4, OldNumbers

-----------------------------------------------------------------------------
(* What the pages show. *)

\* What an answer carries was said recently enough.
LEMMA AnswerIsRecent ==
  ASSUME TypeOK, HonestInv, NEW p \in Pages, NEW a \in Record, NEW at \in Nat, Told(p, a, at)
  PROVE  /\ UNCHANGED <<feed, left, skew>> /\ a \in Records
         /\ a.revision = feed \/ left[a.revision] + Ttl + Timeout + skew >= at
<1>1. /\ a.revision \in Revisions /\ left[a.revision] \in Nat /\ skew \in Nat /\ time \in Nat
      /\ a.validatedAt \in Nat /\ Ttl \in Nat /\ Timeout \in Nat
  BY RssAssumption DEF Record, TypeOK
<1>2. CASE AskFresh(p) /\ a = cache /\ at = time
  <2>1. Clock - a.validatedAt <= Ttl /\ Clock = time - skew
    BY <1>2 DEF AskFresh, Fresh, Clock
  <2>2. SaidSince(a.revision, a.validatedAt, feed, left)
    BY <1>2, NoneIsNothing DEF HonestInv, Honest
  <2>3. a.revision = feed \/ left[a.revision] + Ttl + Timeout + skew >= at
    BY <1>1, <1>2, <2>1, <2>2 DEF SaidSince
  <2> QED BY <1>2, <2>3, RecordsAre, NoneIsNothing DEF AskFresh
<1>3. CASE Save(p) /\ a = call[p].due /\ at = call[p].at
  <2>1. call[p] \in Call /\ call[p].step = "saving" /\ In(p, "saving")
    BY <1>3 DEF Save, In, TypeOK
  <2>2. SaidSince(a.revision, at, feed, left)
    BY <1>3, <2>1, CallSteps DEF HonestInv, HonestCall
  <2>3. a.revision = feed \/ left[a.revision] + Ttl + Timeout + skew >= at
    BY <1>1, <2>2 DEF SaidSince
  <2> QED BY <1>3, <2>1, <2>3, RecordsAre, NoneIsNothing DEF Save
<1> QED BY <1>2, <1>3 DEF Told

LEMMA RecentStep ==
  ASSUME TypeOK, HonestInv, VersionNamesContent, ShownWasRecent, [Next]_vars
  PROVE  ShownWasRecent'
<1> SUFFICES ASSUME ~NumbersMayRepeat', NEW p \in Pages, shown'[p] # None
             PROVE  \/ shown'[p].revision = feed'
                    \/ left'[shown'[p].revision] + Ttl + Timeout + skew' >= shown'[p].at
  BY DEF ShownWasRecent
<1>1. ~NumbersMayRepeat
  BY PastGrows
<1>2. CASE shown'[p] = shown[p]
  <2> DEFINE r == shown[p].revision
             t == shown[p].at
  <2>1. r \in Revisions /\ t \in Nat
    BY <1>2 DEF TypeOK, Shown
  <2>2. r <= feed /\ t <= time /\ (r = feed \/ left[r] + Ttl + Timeout + skew >= t)
    BY <1>1, <1>2 DEF HonestInv, ShownWasRecent
  <2> HIDE DEF r, t
  <2>3. /\ left[r] \in Nat /\ left'[r] \in Nat /\ skew \in Nat /\ skew' \in Nat /\ skew <= skew'
        /\ Ttl \in Nat /\ Timeout \in Nat /\ time \in Nat /\ r \in Nat /\ feed \in Nat
    <3>1. left[r] \in Nat /\ left'[r] \in Nat
      BY <2>1, PastStays DEF TypeOK
    <3>2. skew' \in Nat /\ skew <= skew'
      BY PastGrows
    <3> QED BY <2>1, <3>1, <3>2, RssAssumption DEF TypeOK, Revisions
  <2>4. r < feed => left'[r] = left[r]
    BY <2>1, PastStays
  <2>5. r = feed => r = feed' \/ left'[r] = time
    BY PastStays
  <2>6. r = feed' \/ left'[r] + Ttl + Timeout + skew' >= t
    BY <2>1, <2>2, <2>3, <2>4, <2>5
  <2> QED BY <1>2, <2>6 DEF r, t
<1>3. ASSUME NEW a \in Record, NEW at \in Nat, Told(p, a, at)
      PROVE  \/ shown'[p].revision = feed'
             \/ left'[shown'[p].revision] + Ttl + Timeout + skew' >= shown'[p].at
  <2>1. /\ UNCHANGED <<feed, left, skew>> /\ a \in Records
        /\ a.revision = feed \/ left[a.revision] + Ttl + Timeout + skew >= at
    BY <1>3, AnswerIsRecent
  <2>2. shown'[p].at = at
    BY <1>3 DEF Told
  <2>3. shown[p] # None => shown[p] \in Records
    BY RecordsAre
  <2>4. shown'[p].revision = a.revision
    BY <1>1, <1>3, <2>1, <2>3 DEF Told, VersionNamesContent
  <2> QED BY <2>1, <2>2, <2>4
<1> QED BY <1>2, <1>3, ShownStep

-----------------------------------------------------------------------------
(* The theorems. *)

LEMMA IInvInit == Init => IInv
<1> SUFFICES ASSUME Init PROVE IInv
  OBVIOUS
<1>1. TypeOK /\ Clocks
  BY TypeInit
<1>2. cache = None /\ \A p \in Pages : call[p] = None /\ shown[p] = None
  BY DEF Init
<1>3. \A p \in Pages : ~In(p, "saving")
  BY <1>2 DEF In
<1>4. \A a : a \notin Records
  BY <1>2, <1>3, RecordsAre
<1>5. HonestInv
  BY <1>2 DEF HonestInv, Honest, HonestCall
<1>6. QuietInv
  BY <1>2, <1>3 DEF QuietInv, Follows
<1>7. ClockInv /\ VersionNamesContent
  BY <1>4 DEF ClockInv, VersionNamesContent
<1>8. ShownWasRecent
  BY <1>2 DEF ShownWasRecent
<1> QED BY <1>1, <1>5, <1>6, <1>7, <1>8 DEF IInv

LEMMA IInvStep == IInv /\ [Next]_vars => IInv'
<1> SUFFICES ASSUME IInv, [Next]_vars PROVE IInv'
  OBVIOUS
<1>1. /\ TypeOK /\ Clocks /\ HonestInv /\ QuietInv /\ ClockInv
      /\ VersionNamesContent /\ ShownWasRecent
  BY DEF IInv
<1>2. Answerable
  BY <1>1, CallSteps DEF Answerable, In, HonestInv, HonestCall
<1>3. TypeOK' /\ Clocks'
  BY <1>1, <1>2, TypeStep
<1>4. HonestInv' /\ QuietInv' /\ ClockInv'
  BY <1>1, <1>3, HonestStep, QuietStep, ClockStep
<1>5. VersionNamesContent' /\ ShownWasRecent'
  BY <1>1, <1>3, NamesStep, RecentStep
<1> QED BY <1>3, <1>4, <1>5 DEF IInv

\* The inductive invariant of one feed, its cache entry and the calls about it.
THEOREM Inductive == Spec => []IInv
<1>1. Init => IInv
  BY IInvInit
<1>2. IInv /\ [Next]_vars => IInv'
  BY IInvStep
<1> QED BY <1>1, <1>2, PTL DEF Spec

\* Every entry, call and page keeps its form: in particular a page that is told
\* something always has a numbered document of the feed (RssCacheRecord).
THEOREM TypeCorrect == Spec => []TypeOK
<1>1. IInv => TypeOK
  BY DEF IInv
<1> QED BY <1>1, Inductive, PTL

\* A version number names one document for any number of pages, times and
\* changes of the feed, so that NOT_MODIFIED may be told by comparing numbers
\* (clientResult_get).
THEOREM VersionsNameContent == Spec => []VersionNamesContent
<1>1. IInv => VersionNamesContent
  BY DEF IInv
<1> QED BY <1>1, Inductive, PTL

\* No page shows a document older than the time to live and one fetch allow
\* (fresh_is, content_get), plus what the clock was set back.
THEOREM PagesAreRecent == Spec => []ShownWasRecent
<1>1. IInv => ShownWasRecent
  BY DEF IInv
<1> QED BY <1>1, Inductive, PTL

\* What a page shows follows what it showed, as long as no calls overlapped and
\* no entry was lost (content_get, revalidated_get).
LEMMA ShownFollows ==
  ASSUME TypeOK, QuietInv, [Next]_vars, Quiet', NEW p \in Pages, shown[p] # None
  PROVE  shown'[p] # None /\ shown'[p].revision >= shown[p].revision
<1>1. shown[p].revision \in Nat
  BY RssAssumption DEF TypeOK, Shown, Revisions
<1>2. CASE shown'[p] = shown[p]
  BY <1>1, <1>2
<1>3. ASSUME NEW a \in Record, NEW at \in Nat, Told(p, a, at)
      PROVE  shown'[p] # None /\ shown'[p].revision >= shown[p].revision
  <2>1. cache' = a /\ Follows(cache, cache') /\ Follows(shown[p], cache)
    BY <1>3, QuietSave DEF Told, AskFresh, QuietInv
  <2>2. cache' \in Numbered
    BY <2>1 DEF Numbered, Record
  <2>3. Follows(shown[p], a)
    BY <2>1, <2>2, AllNumbered, FollowsChain
  <2>4. a.revision \in Nat
    BY RssAssumption DEF Record, Revisions
  <2> QED BY <1>1, <1>3, <2>3, <2>4 DEF Told, Follows
<1> QED BY <1>2, <1>3, ShownStep

\* A page goes back to an older document only after calls overlapped or an
\* entry was lost (cacheRecord_save), never because the clock is set back.
THEOREM PagesGoForward == Spec => ShownGoesForward
<1>1. IInv /\ [Next]_vars =>
        [\/ past'.overlapped \/ past'.lost
         \/ \A p \in Pages : shown[p] # None =>
              shown'[p] # None /\ shown'[p].revision >= shown[p].revision]_vars
  <2> SUFFICES ASSUME IInv, [Next]_vars, ~past'.overlapped, ~past'.lost,
                      NEW p \in Pages, shown[p] # None
               PROVE  shown'[p] # None /\ shown'[p].revision >= shown[p].revision
    OBVIOUS
  <2> QED BY ShownFollows DEF IInv, Quiet
<1> QED BY <1>1, Inductive, PTL DEF Spec, ShownGoesForward

-----------------------------------------------------------------------------
(* MailSync: the inductive invariant. *)

\* What a page knows: the messages it shows and those it hides.
HeldIn(c) == DOMAIN c.mails \cup c.pending
Held == HeldIn(mailCache)

\* They are in boxes it follows, under the validity it knows.
Settled(c) ==
    IF c.mailboxes = NoMail THEN HeldIn(c) = {}
    ELSE \A k \in HeldIn(c) : k.box \in DOMAIN c.mailboxes /\ c.mailboxes[k.box] = k.validity

\* The messages an answer brings.
Covered(c, k) == k.box \in DOMAIN c.result /\ c.result[k.box].validity = k.validity
Added(c) == {k \in Key : Covered(c, k) /\ k.uid \in c.result[k.box].mails}

\* A sync under way has named everything the page knows: what is left to serve still names it,
\* and what has been served brings or keeps no more than the budget, and nothing that is known.
SyncFits(c, held) ==
    /\ c.step = "list" => held = {}
    /\ \A k \in held : k.box \in DOMAIN c.states =>
         c.states[k.box].validity = k.validity /\ k.uid \in c.states[k.box].known
    /\ \A k \in held : k \notin Added(c)
    /\ \E kept \in SUBSET Key :
         /\ IsFiniteSet(kept) /\ Cardinality(kept) + c.left <= HeaderMaximum
         /\ Added(c) \subseteq kept
         /\ \A k \in held : Covered(c, k) => k.uid \in c.result[k.box].removed \/ k \in kept

\* The mail server had, or has, this message, and it is unread.
Delivered(a, k) ==
    LET box == mailServer[a][k.box]
    IN k.validity < box.validity \/ (k.validity = box.validity /\ k.uid <= box.last)
Unseen(a, k) ==
    mailServer[a][k.box].validity = k.validity /\ k.uid \in mailServer[a][k.box].unread

Seen(s) == Out(s, "seen")
Timely(s) == Out(s, "sync") /\ ~mailCall[s].late

HeldFits == Settled(mailCache) /\ IsFiniteSet(Held) /\ Cardinality(Held) <= HeaderMaximum

SyncsFit ==
    \A s \in MailSlots : Timely(s) =>
        /\ SyncFits(mailCall[s], Held)
        /\ \A k \in Added(mailCall[s]) :
             <<mailCall[s].connector.account, k>> \in told.read => k \in told.contested

\* A mark on its way keeps its message hidden, and is the only one of it.
MarksFit ==
    /\ \A s \in MailSlots : Seen(s) =>
         mailCall[s].key \in mailCache.pending \cup told.contested
    /\ \A s, t \in MailSlots : Seen(s) /\ Seen(t) /\ s # t /\ mailCall[s].key = mailCall[t].key =>
         mailCall[s].key \in told.contested

\* Everything known comes from one account, the one the connector names.
OneAccount ==
    /\ mailCache.identity # connector =>
         Held = {} /\ \A s \in MailSlots : ~Seen(s) /\ ~Out(s, "sync")
    /\ \A k \in Held : Delivered(connector.account, k)
    /\ \A d \in dialogs : d.connector.account = connector.account /\ Delivered(connector.account, d.key)
    /\ \A s \in MailSlots : mailCall[s] # NoMail =>
         /\ mailCall[s].connector.account = connector.account
         /\ mailCall[s].key \in Key => Delivered(connector.account, mailCall[s].key)
         /\ \A k \in Added(mailCall[s]) : Delivered(connector.account, k)

\* A message marked read for this page was delivered, and is not unread.
ReadsFit == \A a \in MailAccounts, k \in Key :
    <<a, k>> \in told.read => Delivered(a, k) /\ ~Unseen(a, k)

Undisturbed == HeldFits /\ SyncsFit /\ MarksFit /\ OneAccount /\ ReadsFit
MailInv == MailTypeOK /\ (~told.disturbed => Undisturbed)

-----------------------------------------------------------------------------
(* Types. *)

LEMMA NoBoxesPartial ==
  ASSUME NEW S
  PROVE  Partial(NoBoxes, Boxes, S) /\ DOMAIN NoBoxes = {}
BY DEF Partial, NoBoxes

LEMMA NewCallTyped ==
  ASSUME NEW kind \in {"sync", "list"}, connector \in Connector
  PROVE  IsMailCall(NewCall(kind))
<1>1. HeaderMaximum \in 0 .. HeaderMaximum
  BY MailAssumption
<1> QED BY <1>1, NoBoxesPartial DEF IsMailCall, NewCall, Kind

\* What a function keeps of its domain.
LEMMA RestrictPartial ==
  ASSUME NEW f, NEW D, NEW S, Partial(f, D, S), NEW E
  PROVE  /\ DOMAIN Restrict(f, E) = E
         /\ E \subseteq DOMAIN f => Partial(Restrict(f, E), D, S)
         /\ \A x \in E : Restrict(f, E)[x] = f[x]
BY DEF Partial, Restrict

LEMMA CacheFields ==
  ASSUME NEW c, IsCache(c)
  PROVE  /\ c.identity \in Connector \cup {NoMail} /\ DOMAIN c.mails \subseteq Key
         /\ c.pending \subseteq Key /\ c.confirmed \subseteq Key /\ c.boxes \subseteq Boxes
         /\ HeldIn(c) \subseteq Key
         /\ \A k \in DOMAIN c.mails : c.mails[k] \in ShownMail
         /\ c.mailboxes # NoMail =>
              /\ DOMAIN c.mailboxes \subseteq Boxes
              /\ \A b \in DOMAIN c.mailboxes : c.mailboxes[b] \in Validities \cup {NoMail}
  BY DEF IsCache, Partial, HeldIn

\* A cache is given by its parts.
LEMMA CacheOf ==
  ASSUME NEW identity \in Connector \cup {NoMail}, NEW mailboxes, NEW mails,
         NEW pending \in SUBSET Key, NEW confirmed \in SUBSET Key, NEW boxes \in SUBSET Boxes,
         mailboxes = NoMail \/ Partial(mailboxes, Boxes, Validities \cup {NoMail}),
         Partial(mails, Key, ShownMail)
  PROVE  IsCache([identity |-> identity, mailboxes |-> mailboxes, mails |-> mails,
                  pending |-> pending, confirmed |-> confirmed, boxes |-> boxes])
  BY DEF IsCache

LEMMA NoMails == Partial([k \in {} |-> NoMail], Key, ShownMail) /\ DOMAIN [k \in {} |-> NoMail] = {}
  BY DEF Partial

\* Keeping what boxes still have leaves less, all of it in those boxes.
Stays(m, k) == k.box \in DOMAIN m /\ m[k.box] = k.validity

LEMMA KeptLess ==
  ASSUME NEW c, IsCache(c), NEW m, Partial(m, Boxes, Validities \cup {NoMail})
  PROVE  /\ IsCache(Kept(c, m))
         /\ \A k : k \in HeldIn(Kept(c, m)) <=> k \in HeldIn(c) /\ Stays(m, k)
         /\ \A k : k \in Kept(c, m).pending <=> k \in c.pending /\ Stays(m, k)
         /\ \A k : k \in DOMAIN Kept(c, m).mails <=> k \in DOMAIN c.mails /\ Stays(m, k)
         /\ Kept(c, m).mailboxes = m /\ Kept(c, m).identity = c.identity
<1> DEFINE has(k) == k.box \in DOMAIN m /\ m[k.box] = k.validity
           rest == {k \in DOMAIN c.mails : has(k)}
           pending == {k \in c.pending : has(k)}
           confirmed == {k \in c.confirmed : has(k)}
           mails == Restrict(c.mails, rest)
           next == Kept(c, m)
<1>1. next = [c EXCEPT !.mailboxes = m, !.mails = mails, !.pending = pending,
                       !.confirmed = confirmed]
  BY Zenon DEF Kept
<1>2. Partial(mails, Key, ShownMail) /\ DOMAIN mails = rest
  BY RestrictPartial DEF IsCache
<1>3. /\ pending \in SUBSET Key /\ \A k : k \in pending <=> k \in c.pending /\ Stays(m, k)
      /\ \A k : k \in rest <=> k \in DOMAIN c.mails /\ Stays(m, k)
      /\ confirmed \in SUBSET Key
  BY CacheFields DEF Stays
<1> HIDE DEF mails, pending, confirmed, rest, next
<1>4. /\ next.identity = c.identity /\ next.mailboxes = m /\ next.mails = mails
      /\ next.pending = pending /\ next.confirmed = confirmed /\ next.boxes = c.boxes
      /\ next = [identity |-> c.identity, mailboxes |-> m, mails |-> mails,
                 pending |-> pending, confirmed |-> confirmed, boxes |-> c.boxes]
  BY <1>1 DEF IsCache
<1>5. IsCache(next)
  <2>1. c.identity \in Connector \cup {NoMail} /\ c.boxes \in SUBSET Boxes
    BY CacheFields
  <2> QED BY <1>2, <1>3, <1>4, <2>1, CacheOf
<1>6. HeldIn(next) = rest \cup pending /\ HeldIn(c) = DOMAIN c.mails \cup c.pending
  BY <1>2, <1>4 DEF HeldIn
<1> QED BY <1>2, <1>3, <1>4, <1>5, <1>6 DEF next

LEMMA EmptyCacheIs == IsCache(EmptyCache) /\ HeldIn(EmptyCache) = {}
  BY NoMails DEF EmptyCache, IsCache, HeldIn

\* What a sync prepares knows no more than before, and the connector it is for.
LEMMA PreparedLess ==
  ASSUME IsCache(mailCache), connector \in Connector
  PROVE  /\ IsCache(Prepared) /\ Prepared.identity = connector
         /\ HeldIn(Prepared) \subseteq Held
         /\ Prepared.pending = mailCache.pending \/ HeldIn(Prepared) = {}
         /\ mailCache.identity = connector => Prepared.pending = mailCache.pending
         /\ Settled(mailCache) => Settled(Prepared)
<1> DEFINE kept == IF mailCache.identity = connector THEN mailCache
                   ELSE [EmptyCache EXCEPT !.identity = connector]
<1>1. /\ IsCache(kept) /\ kept.identity = connector /\ HeldIn(kept) \subseteq Held
      /\ kept.pending = mailCache.pending \/ HeldIn(kept) = {}
      /\ mailCache.identity = connector => kept.pending = mailCache.pending
      /\ Settled(mailCache) => Settled(kept)
  <2>1. CASE mailCache.identity = connector
    BY <2>1 DEF Held
  <2>2. CASE mailCache.identity # connector
    <3>1. kept = [identity |-> connector, mailboxes |-> NoMail, mails |-> [k \in {} |-> NoMail],
                  pending |-> {}, confirmed |-> {}, boxes |-> {}]
      BY <2>2 DEF EmptyCache
    <3>2. IsCache(kept)
      BY <3>1, NoMails, CacheOf
    <3>3. HeldIn(kept) = {} /\ kept.mailboxes = NoMail /\ kept.identity = connector
      BY <3>1 DEF HeldIn
    <3> QED BY <2>2, <3>2, <3>3 DEF Settled
  <2> QED BY <2>1, <2>2
<1> HIDE DEF kept
<1>2. CASE connector.extra /\ kept.mailboxes = NoMail /\ connector.allow # NoMail
  <2> DEFINE m == [b \in connector.allow |-> NoMail]
  <2>1. Prepared = [kept EXCEPT !.mailboxes = m]
    BY <1>2 DEF Prepared, kept
  <2>2. Partial(m, Boxes, Validities \cup {NoMail})
    BY <1>2 DEF Partial, Connector, Selections
  <2> HIDE DEF m
  <2>3. Prepared = [identity |-> kept.identity, mailboxes |-> m, mails |-> kept.mails,
                    pending |-> kept.pending, confirmed |-> kept.confirmed, boxes |-> kept.boxes]
    BY <1>1, <2>1 DEF IsCache
  <2>4. IsCache(Prepared)
    BY <1>1, <2>2, <2>3, CacheOf DEF IsCache
  <2>5. HeldIn(Prepared) = HeldIn(kept) /\ Prepared.pending = kept.pending
        /\ Prepared.identity = connector
    BY <1>1, <2>3 DEF HeldIn
  <2>6. Settled(mailCache) => HeldIn(kept) = {}
    BY <1>1, <1>2 DEF Settled
  <2> QED BY <1>1, <2>4, <2>5, <2>6 DEF Settled
<1>3. CASE ~(connector.extra /\ kept.mailboxes = NoMail /\ connector.allow # NoMail)
  <2>1. Prepared = kept
    BY <1>3 DEF Prepared, kept
  <2> QED BY <1>1, <2>1
<1> QED BY <1>2, <1>3

LEMMA KeptSettled ==
  ASSUME NEW c, IsCache(c), NEW m, Partial(m, Boxes, Validities \cup {NoMail})
  PROVE  Settled(Kept(c, m))
<1>1. m # NoMail
  BY MailAssumption DEF Partial
<1> DEFINE next == Kept(c, m)
<1>2. next.mailboxes = m /\ \A k \in HeldIn(next) : Stays(m, k)
  BY KeptLess
<1> HIDE DEF next
<1>3. Settled(next)
  BY <1>1, <1>2 DEF Settled, Stays
<1> QED BY <1>3 DEF next

\* Boxes listed or selected anew only take away.
LEMMA TopologyLess ==
  ASSUME NEW c, IsCache(c), NEW listed \in SUBSET Boxes, NEW conn \in Connector
  PROVE  LET next == topology_set(c, listed, conn)
         IN /\ IsCache(next) /\ next.identity = conn /\ Settled(next)
            /\ HeldIn(next) \subseteq HeldIn(c) /\ next.pending \subseteq c.pending
<1> DEFINE old(b) == IF c.mailboxes # NoMail /\ b \in DOMAIN c.mailboxes
                     THEN c.mailboxes[b] ELSE NoMail
           m == [b \in {x \in listed : isBoxSelected(conn, x)} |-> old(b)]
           mid == [c EXCEPT !.boxes = listed, !.identity = conn]
<1>1. /\ mid = [identity |-> conn, mailboxes |-> c.mailboxes, mails |-> c.mails,
                pending |-> c.pending, confirmed |-> c.confirmed, boxes |-> listed]
      /\ mid.identity = conn /\ mid.mailboxes = c.mailboxes /\ mid.mails = c.mails
      /\ mid.pending = c.pending /\ mid.confirmed = c.confirmed /\ mid.boxes = listed
  <2>1. mid = [[c EXCEPT !.boxes = listed] EXCEPT !.identity = conn]
    OBVIOUS
  <2> HIDE DEF m, old, mid
  <2> QED BY <2>1 DEF IsCache
<1>2. IsCache(mid) /\ HeldIn(mid) = HeldIn(c) /\ mid.pending = c.pending /\ mid.identity = conn
  BY <1>1 DEF IsCache, HeldIn
<1> HIDE DEF mid
<1>3. CASE conn.extra
  <2>1. topology_set(c, listed, conn) = Kept(mid, m)
    BY <1>3, Zenon DEF topology_set, mid
  <2>2. \A b \in Boxes : old(b) \in Validities \cup {NoMail}
    BY CacheFields
  <2> HIDE DEF old
  <2>3. Partial(m, Boxes, Validities \cup {NoMail})
    BY <2>2 DEF Partial
  <2> HIDE DEF m
  <2>4. /\ IsCache(Kept(mid, m)) /\ HeldIn(Kept(mid, m)) \subseteq HeldIn(mid)
        /\ Kept(mid, m).pending \subseteq mid.pending /\ Kept(mid, m).identity = mid.identity
    BY <1>2, <2>3, KeptLess
  <2>5. Settled(Kept(mid, m))
    BY <1>2, <2>3, KeptSettled
  <2> QED BY <1>2, <2>1, <2>4, <2>5
<1>4. CASE ~conn.extra
  <2> DEFINE next == topology_set(c, listed, conn)
  <2>1. next = [mid EXCEPT !.mailboxes = NoMail, !.mails = [k \in {} |-> NoMail],
                           !.pending = {}, !.confirmed = {}]
    BY <1>4, Zenon DEF topology_set, mid
  <2>2. next = [identity |-> conn, mailboxes |-> NoMail, mails |-> [k \in {} |-> NoMail],
                pending |-> {}, confirmed |-> {}, boxes |-> listed]
    BY <1>1, <2>1
  <2> HIDE DEF next
  <2>3. IsCache(next)
    BY <2>2, NoMails, CacheOf
  <2>4. HeldIn(next) = {} /\ next.pending = {} /\ next.identity = conn /\ next.mailboxes = NoMail
    BY <2>2 DEF HeldIn
  <2>5. Settled(next) /\ HeldIn(next) \subseteq HeldIn(c) /\ next.pending \subseteq c.pending
    BY <2>4 DEF Settled
  <2> QED BY <2>3, <2>4, <2>5 DEF next
<1> QED BY <1>3, <1>4

\* An answer to a sync leaves what it brings, and what was known and not removed by it.
Brings(result, k) ==
    k.box \in DOMAIN result /\ result[k.box].validity = k.validity /\ k.uid \in result[k.box].mails
Leaves(result, k) ==
    k.box \in DOMAIN result /\ result[k.box].validity = k.validity
      /\ k.uid \notin result[k.box].removed
Results(result) ==
    Partial(result, Boxes, [validity: Validities, removed: SUBSET Uids, mails: SUBSET Uids])

LEMMA AppliedIs ==
  ASSUME NEW c, IsCache(c), NEW result, Results(result), NEW account \in MailAccounts
  PROVE  LET next == sync_apply(c, result, account)
         IN /\ IsCache(next) /\ next.identity = c.identity /\ Settled(next)
            /\ next.pending \subseteq c.pending
            /\ \A k \in HeldIn(next) :
                 Brings(result, k) \/ (k \in HeldIn(c) /\ Leaves(result, k))
            /\ \A k \in DOMAIN next.mails \ DOMAIN c.mails : Brings(result, k)
<1> DEFINE keyOf(b, u) == [box |-> b, validity |-> result[b].validity, uid |-> u]
           removed == UNION {{keyOf(b, u) : u \in result[b].removed} : b \in DOMAIN result}
           added == UNION {{keyOf(b, u) : u \in result[b].mails} : b \in DOMAIN result}
           known(b) == c.mailboxes # NoMail /\ b \in DOMAIN c.mailboxes
                         /\ c.mailboxes[b] = result[b].validity
           same == {k \in DOMAIN c.mails \cup c.pending \cup c.confirmed :
                      k.box \in DOMAIN result => known(k.box)} \ removed
           pending == c.pending \cap same
           confirmed == c.confirmed \cap same
           stay == (DOMAIN c.mails \cap same) \cup (added \ pending)
           reconciled == {k \in confirmed : k.box \in DOMAIN result
                                              /\ k.validity = result[k.box].validity}
           mails == [k \in stay |-> IF k \in added \ pending
                                     THEN [armed |-> FALSE, of |-> account] ELSE c.mails[k]]
           m == [b \in DOMAIN result |-> result[b].validity]
           mid == [c EXCEPT !.mails = mails, !.pending = pending \ reconciled,
                            !.confirmed = confirmed \ reconciled]
           next == Kept(mid, m)
<1>1. sync_apply(c, result, account) = next
  BY Zenon DEF sync_apply
<1>2. \A b \in DOMAIN result : b \in Boxes /\ result[b].validity \in Validities
        /\ result[b].removed \subseteq Uids /\ result[b].mails \subseteq Uids
  BY DEF Results, Partial
<1>3. Partial(m, Boxes, Validities \cup {NoMail})
  BY <1>2 DEF Results, Partial
<1>4. added \subseteq Key /\ \A k \in added : Brings(result, k)
  BY <1>2 DEF Brings, Key
<1>5. \A k \in Key : k.box \in DOMAIN result /\ result[k.box].validity = k.validity
                       /\ k.uid \in result[k.box].removed => k \in removed
  <2> SUFFICES ASSUME NEW k \in Key, k.box \in DOMAIN result, result[k.box].validity = k.validity,
                      k.uid \in result[k.box].removed
               PROVE  k \in removed
    OBVIOUS
  <2>1. k = keyOf(k.box, k.uid)
    BY DEF Key
  <2> QED BY <2>1
<1>6. \A k \in same : k \notin removed /\ k \in DOMAIN c.mails \cup c.pending \cup c.confirmed
  OBVIOUS
<1> HIDE DEF removed, added, same
<1>7. stay \subseteq Key /\ pending \subseteq Key /\ confirmed \subseteq Key
  BY <1>4, CacheFields
<1>8. Partial(mails, Key, ShownMail) /\ DOMAIN mails = stay
  <2>1. [armed |-> FALSE, of |-> account] \in ShownMail
    BY DEF ShownMail
  <2>2. \A k \in stay : k \notin added \ pending => k \in DOMAIN c.mails
    OBVIOUS
  <2> HIDE DEF stay, pending
  <2>3. \A k \in stay : mails[k] \in ShownMail
    BY <2>1, <2>2, CacheFields
  <2> QED BY <1>7, <2>3 DEF Partial
<1> HIDE DEF mails
<1>9. /\ mid = [identity |-> c.identity, mailboxes |-> c.mailboxes, mails |-> mails,
                pending |-> pending \ reconciled, confirmed |-> confirmed \ reconciled,
                boxes |-> c.boxes]
      /\ mid.identity = c.identity /\ mid.mails = mails /\ mid.pending = pending \ reconciled
  <2> DEFINE p == pending \ reconciled
             q == confirmed \ reconciled
  <2>1. mid = [c EXCEPT !.mails = mails, !.pending = p, !.confirmed = q]
    OBVIOUS
  <2>2. p = pending \ reconciled /\ q = confirmed \ reconciled
    OBVIOUS
  <2> HIDE DEF pending, reconciled, confirmed, m, stay, next, mid, p, q
  <2>3. /\ mid = [identity |-> c.identity, mailboxes |-> c.mailboxes, mails |-> mails,
                  pending |-> p, confirmed |-> q, boxes |-> c.boxes]
        /\ mid.identity = c.identity /\ mid.mails = mails /\ mid.pending = p
    BY <2>1 DEF IsCache
  <2> QED BY <2>2, <2>3
<1>10. IsCache(mid)
  <2>1. c.identity \in Connector \cup {NoMail} /\ c.boxes \in SUBSET Boxes
    BY CacheFields
  <2>2. pending \ reconciled \in SUBSET Key /\ confirmed \ reconciled \in SUBSET Key
    BY <1>7
  <2>3. c.mailboxes = NoMail \/ Partial(c.mailboxes, Boxes, Validities \cup {NoMail})
    BY DEF IsCache
  <2> HIDE DEF mid, pending, confirmed, reconciled, stay, m
  <2> QED BY <1>8, <1>9, <2>1, <2>2, <2>3, CacheOf
<1>11. /\ mid.identity = c.identity /\ mid.pending \subseteq c.pending \cap same
       /\ DOMAIN mid.mails = stay
       /\ HeldIn(mid) \subseteq added \cup (HeldIn(c) \cap same)
  BY <1>8, <1>9 DEF HeldIn
<1>12. \A k \in DOMAIN mid.mails \ DOMAIN c.mails : k \in added
  BY <1>11
<1> HIDE DEF mid
<1>13. /\ IsCache(next) /\ next.identity = c.identity /\ Settled(next)
       /\ next.pending \subseteq c.pending
       /\ \A k \in HeldIn(next) : k \in HeldIn(mid) /\ k.box \in DOMAIN result
                                    /\ result[k.box].validity = k.validity
       /\ DOMAIN next.mails \subseteq DOMAIN mid.mails
  <2>1. \A b \in DOMAIN m : m[b] = result[b].validity /\ b \in DOMAIN result
    OBVIOUS
  <2> HIDE DEF m
  <2>2. /\ IsCache(next) /\ next.identity = mid.identity
        /\ \A k \in HeldIn(next) : k \in HeldIn(mid) /\ Stays(m, k)
        /\ next.pending \subseteq mid.pending /\ DOMAIN next.mails \subseteq DOMAIN mid.mails
    BY <1>3, <1>10, KeptLess
  <2>3. Settled(next)
    BY <1>3, <1>10, KeptSettled
  <2> HIDE DEF next
  <2> QED BY <1>11, <2>1, <2>2, <2>3 DEF Stays
<1> HIDE DEF next
<1>14. \A k \in HeldIn(next) : Brings(result, k) \/ (k \in HeldIn(c) /\ Leaves(result, k))
  <2> TAKE k \in HeldIn(next)
  <2>1. k \in Key
    BY <1>13, CacheFields
  <2> QED BY <1>4, <1>5, <1>6, <1>11, <1>13, <2>1 DEF Leaves
<1>15. \A k \in DOMAIN next.mails \ DOMAIN c.mails : Brings(result, k)
  BY <1>4, <1>12, <1>13
<1> QED BY <1>1, <1>13, <1>14, <1>15

\* The fields of a call.
LEMMA CallFields ==
  ASSUME NEW c, IsMailCall(c)
  PROVE  /\ c.kind \in Kind /\ c.connector \in Connector
         /\ c.step \in {"sent", "list", "ok", "error"} /\ c.key \in Key \cup {NoMail}
         /\ c.kind \in {"seen", "content"} => c.key \in Key
         /\ c.old \in ShownMail \cup {NoMail} /\ c.left \in 0 .. HeaderMaximum
         /\ c.late \in BOOLEAN /\ Results(c.result)
         /\ DOMAIN c.states \subseteq Boxes
         /\ \A b \in DOMAIN c.states :
              c.states[b].validity \in Validities \cup {NoMail} /\ c.states[b].known \subseteq Uids
  BY DEF IsMailCall, Results, Partial

\* The steps of a call that leave what it captured.
SameCall(c, d) ==
    d.kind = c.kind /\ d.connector = c.connector /\ d.key = c.key /\ d.old = c.old

LEMMA StepTyped ==
  ASSUME NEW c, IsMailCall(c), NEW step \in {"sent", "list", "ok", "error"}, NEW d,
         d = [c EXCEPT !.step = step]
  PROVE  /\ IsMailCall(d) /\ SameCall(c, d) /\ d.late = c.late /\ d.step = step
         /\ d.states = c.states /\ d.left = c.left /\ d.result = c.result
  BY DEF IsMailCall, SameCall

LEMMA LateTyped ==
  ASSUME NEW c, IsMailCall(c), NEW d, d = [c EXCEPT !.late = TRUE]
  PROVE  /\ IsMailCall(d) /\ SameCall(c, d) /\ d.late /\ d.step = c.step
         /\ d.states = c.states /\ d.left = c.left /\ d.result = c.result
  BY DEF IsMailCall, SameCall

\* The UIDs of a message to track: unread ones, and no more than the budget allows.
LEMMA FiniteUids == ASSUME NEW uids \in SUBSET Uids PROVE IsFiniteSet(uids)
<1>1. 1 \in Int /\ MaxUid \in Int
  BY MailAssumption
<1>2. IsFiniteSet(Uids)
  BY <1>1, FS_Interval DEF Uids
<1> QED BY <1>2, FS_Subset

LEMMA TrackedBudget ==
  ASSUME NEW uids \in SUBSET Uids, NEW most \in Nat
  PROVE  /\ trackedUids(uids, most) \subseteq uids
         /\ IsFiniteSet(trackedUids(uids, most))
         /\ Cardinality(trackedUids(uids, most)) <= most
<1> DEFINE T == trackedUids(uids, most)
           above(u) == {v \in uids : v > u}
           rank == [u \in T |-> Cardinality(above(u))]
<1>1. T \subseteq uids /\ \A u \in T : Cardinality(above(u)) < most
  BY DEF trackedUids
<1>2. \A u \in uids : u \in Nat /\ IsFiniteSet(above(u)) /\ Cardinality(above(u)) \in Nat
  BY FiniteUids, FS_CardinalityType, MailAssumption DEF Uids
<1> HIDE DEF T
<1>3. \A u, v \in T : u < v => Cardinality(above(v)) < Cardinality(above(u))
  <2> SUFFICES ASSUME NEW u \in T, NEW v \in T, u < v
               PROVE  Cardinality(above(v)) < Cardinality(above(u))
    OBVIOUS
  <2>1. above(v) \subseteq above(u) /\ v \in above(u) /\ v \notin above(v)
    <3>1. u \in uids /\ v \in uids /\ u \in Nat /\ v \in Nat
      BY <1>1, <1>2
    <3>2. \A w \in uids : w > v => w > u
      BY <3>1, <1>2
    <3>3. ~(v > v)
      BY <3>1
    <3> QED BY <3>1, <3>2, <3>3
  <2>2. above(v) # above(u) /\ IsFiniteSet(above(u))
    <3>1. u \in uids
      BY <1>1
    <3>2. IsFiniteSet(above(u))
      BY <3>1, <1>2
    <3> HIDE DEF above
    <3> QED BY <2>1, <3>2
  <2>3. Cardinality(above(v)) \in Nat /\ Cardinality(above(u)) \in Nat
    <3>1. u \in uids /\ v \in uids
      BY <1>1
    <3> HIDE DEF above
    <3> QED BY <3>1, <1>2
  <2> HIDE DEF above
  <2>4. Cardinality(above(v)) <= Cardinality(above(u))
        /\ (Cardinality(above(v)) = Cardinality(above(u)) => above(v) = above(u))
    BY <2>1, <2>2, FS_Subset
  <2> QED BY <2>2, <2>3, <2>4
<1> HIDE DEF above
<1>4. \A u \in T : rank[u] = Cardinality(above(u)) /\ rank[u] \in 0 .. (most - 1)
  BY <1>1, <1>2
<1>5. \A u, v \in T : rank[u] = rank[v] => u = v
  <2> SUFFICES ASSUME NEW u \in T, NEW v \in T, u # v PROVE rank[u] # rank[v]
    OBVIOUS
  <2>1. u < v \/ v < u
    BY <1>1, <1>2
  <2>2. Cardinality(above(u)) \in Nat /\ Cardinality(above(v)) \in Nat
    BY <1>1, <1>2
  <2> HIDE DEF rank
  <2> QED BY <2>1, <2>2, <1>3, <1>4
<1>6. rank \in Injection(T, 0 .. (most - 1))
  BY <1>4, <1>5 DEF Injection, IsInjective
<1>7. IsFiniteSet(0 .. (most - 1)) /\ Cardinality(0 .. (most - 1)) <= most
  <2>1. 0 \in Int /\ most - 1 \in Int
    OBVIOUS
  <2>2. /\ IsFiniteSet(0 .. (most - 1))
        /\ Cardinality(0 .. (most - 1)) = IF 0 > most - 1 THEN 0 ELSE (most - 1) - 0 + 1
    BY <2>1, FS_Interval
  <2> QED BY <2>2
<1> HIDE DEF rank
<1>8. IsFiniteSet(T) /\ Cardinality(T) <= Cardinality(0 .. (most - 1))
  BY <1>6, <1>7, FS_Injection, FS_CardinalityType
<1>9. Cardinality(T) \in Nat /\ Cardinality(0 .. (most - 1)) \in Nat
  BY <1>7, <1>8, FS_CardinalityType
<1> QED BY <1>1, <1>7, <1>8, <1>9 DEF T

\* The keys of some UIDs of a box are no more than the UIDs.
LEMMA KeysOfUids ==
  ASSUME NEW U, IsFiniteSet(U), NEW K, NEW b, NEW v,
         \A k \in K : k \in Key /\ k.box = b /\ k.validity = v /\ k.uid \in U
  PROVE  IsFiniteSet(K) /\ Cardinality(K) <= Cardinality(U)
<1> DEFINE uid == [k \in K |-> k.uid]
<1>1. \A k, l \in K : k.uid = l.uid => k = l
  BY DEF Key
<1>2. uid \in Injection(K, U)
  BY <1>1 DEF Injection, IsInjective
<1> HIDE DEF uid
<1> QED BY <1>2, FS_Injection

LEMMA NatHasLeast ==
  ASSUME NEW T, T \subseteq Nat, T # {}
  PROVE  \E x \in T : \A y \in T : x <= y
<1>1. IsWellFoundedOn(OpToRel(<, Nat), Nat)
  BY NatLessThanWellFounded
<1>2. PICK x \in T : \A y \in T : ~(<<y, x>> \in OpToRel(<, Nat))
  BY <1>1, WFMin, Zenon
<1>3. \A y \in T : ~(y < x)
  BY <1>2 DEF OpToRel
<1> QED BY <1>3

LEMMA LeastOf == ASSUME NEW T, T \subseteq Nat, T # {} PROVE Min(T) \in T
<1>1. \E x \in T : \A y \in T : x =< y
  BY NatHasLeast
<1> QED BY <1>1 DEF Min

\* A step that leaves what a sync has found, and what is left to serve.
LEMMA FitsStep ==
  ASSUME NEW c, NEW d, NEW held, d.result = c.result, d.left = c.left,
         d.states = c.states \/ held = {}, d.step = "list" => c.step = "list", SyncFits(c, held)
  PROVE  SyncFits(d, held)
<1>1. Added(d) = Added(c) /\ \A k : Covered(d, k) <=> Covered(c, k)
  BY DEF Added, Covered
<1> QED BY <1>1 DEF SyncFits

\* What fits for much fits for less.
LEMMA FitsLess ==
  ASSUME NEW c, NEW held, NEW less \in SUBSET held, SyncFits(c, held)
  PROVE  SyncFits(c, less)
<1>1. /\ c.step = "list" => less = {}
      /\ \A k \in less : k.box \in DOMAIN c.states =>
           c.states[k.box].validity = k.validity /\ k.uid \in c.states[k.box].known
      /\ \A k \in less : k \notin Added(c)
  BY DEF SyncFits
<1>2. PICK kept \in SUBSET Key :
        /\ IsFiniteSet(kept) /\ Cardinality(kept) + c.left <= HeaderMaximum
        /\ Added(c) \subseteq kept
        /\ \A k \in held : Covered(c, k) => k.uid \in c.result[k.box].removed \/ k \in kept
  BY DEF SyncFits
<1>3. \A k \in less : Covered(c, k) => k.uid \in c.result[k.box].removed \/ k \in kept
  BY <1>2
<1> QED BY <1>1, <1>2, <1>3 DEF SyncFits

\* Serving one box: the sync has named what the page knows of it, so what the box brings is
\* not known, and what is known of it and not tracked is removed.
LEMMA ServedBox ==
  ASSUME NEW c, IsMailCall(c), mailServer \in [MailAccounts -> BoxStates],
         c.states # NoBoxes, NEW d \in ServeBox(c)
  PROVE  /\ IsMailCall(d) /\ SameCall(c, d) /\ d.late = c.late /\ d.step = c.step
         /\ \A k \in Added(d) : k \in Added(c) \/ Unseen(c.connector.account, k)
         /\ \A held \in SUBSET Key : SyncFits(c, held) => SyncFits(d, held)
<1> DEFINE b == Min(DOMAIN c.states)
           rest == Restrict(c.states, DOMAIN c.states \ {b})
           box == mailServer[c.connector.account][b]
           tracked == trackedUids(box.unread, c.left)
           skipped == [c EXCEPT !.states = rest]
           unspent == c.left - Cardinality(tracked)
           delta == Delta(c.states[b], box, tracked)
           result == [x \in DOMAIN c.result \cup {b} |-> IF x = b THEN delta ELSE c.result[x]]
           served == [skipped EXCEPT !.left = unspent, !.result = result]
<1>1. d = skipped \/ d = served
  <2> HIDE DEF rest, box, tracked, unspent, delta, result, b
  <2> QED BY DEF ServeBox, rest, box, tracked, unspent, delta, result, b
<1>2. b \in DOMAIN c.states /\ b \in Boxes
  <2>1. DOMAIN c.states # {} 
    BY DEF IsMailCall, Partial, NoBoxes
  <2> HIDE DEF b
  <2> QED BY <2>1, LeastOf, CallFields, MailAssumption DEF b
<1> HIDE DEF b
<1>3. Partial(rest, Boxes, [validity: Validities \cup {NoMail}, known: SUBSET Uids])
      /\ DOMAIN rest = DOMAIN c.states \ {b} /\ \A x \in DOMAIN rest : rest[x] = c.states[x]
  BY RestrictPartial DEF IsMailCall
<1> HIDE DEF rest
<1>4. /\ IsMailCall(skipped) /\ SameCall(c, skipped) /\ skipped.late = c.late
      /\ skipped.step = c.step /\ skipped.states = rest /\ skipped.left = c.left
      /\ skipped.result = c.result
  BY <1>3 DEF IsMailCall, SameCall
<1>5. box \in BoxState /\ box.unread \in SUBSET Uids /\ box.validity \in Validities
  BY <1>2, CallFields DEF BoxStates, BoxState, Connector
<1> HIDE DEF box
<1>6. /\ tracked \subseteq box.unread /\ IsFiniteSet(tracked) /\ Cardinality(tracked) <= c.left
      /\ Cardinality(tracked) \in Nat /\ c.left \in Nat
  <2>1. c.left \in Nat
    BY CallFields, MailAssumption
  <2> QED BY <2>1, <1>5, TrackedBudget, FS_CardinalityType
<1> HIDE DEF tracked
<1>7. unspent \in 0 .. HeaderMaximum /\ unspent = c.left - Cardinality(tracked)
  BY <1>6, CallFields, MailAssumption
<1>8. /\ delta.validity = box.validity /\ delta.removed \cap tracked = {}
      /\ delta.mails \subseteq tracked
      /\ delta \in [validity: Validities, removed: SUBSET Uids, mails: SUBSET Uids]
      /\ c.states[b].validity = box.validity =>
           /\ delta.mails \subseteq tracked \ c.states[b].known
           /\ delta.removed = c.states[b].known \ tracked
  BY <1>2, <1>5, <1>6, CallFields DEF Delta, headers_get
<1> HIDE DEF unspent, delta
<1>9. Results(result) /\ DOMAIN result = DOMAIN c.result \cup {b} /\ result[b] = delta
      /\ \A x \in DOMAIN c.result : x # b => result[x] = c.result[x]
  BY <1>2, <1>8, CallFields DEF Results, Partial
<1> HIDE DEF result
<1>10. /\ IsMailCall(served) /\ SameCall(c, served) /\ served.late = c.late
       /\ served.step = c.step /\ served.states = rest /\ served.left = unspent
       /\ served.result = result
  <2> HIDE DEF skipped
  <2> QED BY <1>4, <1>7, <1>9 DEF IsMailCall, SameCall, Results
<1> HIDE DEF skipped, served
<1>11. CASE d = skipped
  <2>1. Added(d) = Added(c) /\ \A k : Covered(d, k) <=> Covered(c, k)
    BY <1>4, <1>11 DEF Added, Covered
  <2>2. \A held \in SUBSET Key : SyncFits(c, held) => SyncFits(d, held)
    BY <1>3, <1>4, <1>11, <2>1 DEF SyncFits
  <2> QED BY <1>4, <1>11, <2>1, <2>2
<1>12. CASE d = served
  <2>1. \A k \in Added(d) : IF k.box = b THEN k.validity = box.validity /\ k.uid \in delta.mails
                            ELSE k \in Added(c)
    <3>1. d.result = result
      BY <1>10, <1>12
    <3> SUFFICES ASSUME NEW k \in Key, Covered(d, k), k.uid \in d.result[k.box].mails
                 PROVE  IF k.box = b THEN k.validity = box.validity /\ k.uid \in delta.mails
                        ELSE Covered(c, k) /\ k.uid \in c.result[k.box].mails
      BY DEF Added
    <3> QED BY <1>8, <1>9, <3>1 DEF Covered
  <2>2. \A k \in Added(d) : k \in Added(c) \/ Unseen(c.connector.account, k)
    BY <1>6, <1>8, <2>1 DEF Unseen, box
  <2>3. ASSUME NEW held \in SUBSET Key, SyncFits(c, held) PROVE SyncFits(d, held)
    <3> DEFINE new == {k \in Key : k.box = b /\ k.validity = box.validity /\ k.uid \in tracked}
    <3>1. PICK kept \in SUBSET Key :
            /\ IsFiniteSet(kept) /\ Cardinality(kept) + c.left <= HeaderMaximum
            /\ Added(c) \subseteq kept
            /\ \A k \in held : Covered(c, k) => k.uid \in c.result[k.box].removed \/ k \in kept
      BY <2>3 DEF SyncFits
    <3>2. IsFiniteSet(new) /\ Cardinality(new) <= Cardinality(tracked)
          /\ Cardinality(new) \in Nat /\ Cardinality(kept) \in Nat
      <4>1. \A k \in new : k \in Key /\ k.box = b /\ k.validity = box.validity /\ k.uid \in tracked
        OBVIOUS
      <4> HIDE DEF new
      <4>2. IsFiniteSet(new) /\ Cardinality(new) <= Cardinality(tracked)
        BY <1>6, <4>1, KeysOfUids
      <4> QED BY <3>1, <4>2, FS_CardinalityType
    <3>3. IsFiniteSet(kept \cup new) /\ Cardinality(kept \cup new) \in Nat
          /\ Cardinality(kept \cup new) <= Cardinality(kept) + Cardinality(new)
      <4>1. IsFiniteSet(kept \cap new)
        BY <3>1, FS_Subset
      <4>2. Cardinality(kept \cap new) \in Nat
        BY <4>1, FS_CardinalityType
      <4> HIDE DEF new
      <4>3. /\ IsFiniteSet(kept \cup new)
            /\ Cardinality(kept \cup new)
                 = Cardinality(kept) + Cardinality(new) - Cardinality(kept \cap new)
        BY <3>1, <3>2, FS_Union
      <4>4. Cardinality(kept \cup new) \in Nat
        BY <4>3, FS_CardinalityType
      <4> QED BY <3>2, <4>2, <4>3, <4>4
    <3>4. Cardinality(kept \cup new) + d.left <= HeaderMaximum
      <4> HIDE DEF new
      <4> QED BY <1>6, <1>7, <1>10, <1>12, <3>1, <3>2, <3>3, MailAssumption
    <3>5. Added(d) \subseteq kept \cup new
      BY <1>8, <2>1, <3>1 DEF Added
    <3>6. \A k \in held : Covered(d, k) => k.uid \in d.result[k.box].removed \/ k \in kept \cup new
      <4> SUFFICES ASSUME NEW k \in held, Covered(d, k)
                   PROVE  k.uid \in d.result[k.box].removed \/ k \in kept \cup new
        OBVIOUS
      <4>1. CASE k.box = b
        BY <1>2, <1>8, <1>9, <1>10, <1>12, <2>3, <4>1 DEF SyncFits, Covered
      <4>2. CASE k.box # b
        BY <1>9, <1>10, <1>12, <3>1, <4>2 DEF Covered
      <4> QED BY <4>1, <4>2
    <3>7. \A k \in held : k \notin Added(d)
      BY <1>2, <1>8, <2>1, <2>3 DEF SyncFits
    <3>8. /\ d.step = "list" => held = {}
          /\ \A k \in held : k.box \in DOMAIN d.states =>
               d.states[k.box].validity = k.validity /\ k.uid \in d.states[k.box].known
      BY <1>3, <1>10, <1>12, <2>3 DEF SyncFits
    <3> HIDE DEF new
    <3>9. kept \cup new \in SUBSET Key
      BY DEF new
    <3> QED BY <3>3, <3>4, <3>5, <3>6, <3>7, <3>8, <3>9 DEF SyncFits
  <2> QED BY <1>10, <1>12, <2>2, <2>3
<1> QED BY <1>1, <1>11, <1>12

LEMMA ServedFits ==
  ASSUME NEW c, IsMailCall(c), mailServer \in [MailAccounts -> BoxStates], c.step \in {"sent", "list"}, NEW d \in Served(c)
  PROVE  /\ IsMailCall(d) /\ SameCall(c, d) /\ d.late = c.late
         /\ d.step = "list" => c.step = "list"
         /\ \A k \in Added(d) : k \in Added(c) \/ Unseen(c.connector.account, k)
         /\ \A held \in SUBSET Key : SyncFits(c, held) => SyncFits(d, held)
<1>1. CASE c.states # NoBoxes /\ d \in ServeBox(c) /\ c.step # "list"
  BY <1>1, ServedBox
<1>2. CASE c.step = "list" /\ d = ListBoxes(c)
  <2> DEFINE states == [b \in Boxes |-> [validity |-> NoMail, known |-> {}]]
  <2>1. Partial(states, Boxes, [validity: Validities \cup {NoMail}, known: SUBSET Uids])
    BY DEF Partial
  <2>2. d = [c EXCEPT !.step = "sent", !.states = states]
    BY <1>2 DEF ListBoxes
  <2> HIDE DEF states
  <2>3. /\ IsMailCall(d) /\ SameCall(c, d) /\ d.late = c.late /\ d.step = "sent"
        /\ d.left = c.left /\ d.result = c.result
    BY <2>1, <2>2 DEF IsMailCall, SameCall
  <2>4. Added(d) = Added(c)
    BY <2>3 DEF Added, Covered
  <2>5. \A held \in SUBSET Key : SyncFits(c, held) => SyncFits(d, held)
    <3> SUFFICES ASSUME NEW held \in SUBSET Key, SyncFits(c, held) PROVE SyncFits(d, held)
      OBVIOUS
    <3>1. held = {}
      BY <1>2 DEF SyncFits
    <3> QED BY <2>3, <3>1, FitsStep
  <2> QED BY <2>3, <2>4, <2>5
<1>3. CASE c.step # "list" /\ \E step \in {"ok", "error"} : d = [c EXCEPT !.step = step]
  <2>1. PICK step \in {"ok", "error"} : d = [c EXCEPT !.step = step]
    BY <1>3
  <2>2. /\ IsMailCall(d) /\ SameCall(c, d) /\ d.late = c.late /\ d.step = step
        /\ d.left = c.left /\ d.result = c.result /\ d.states = c.states
    BY <2>1, StepTyped
  <2>3. Added(d) = Added(c)
    BY <2>2 DEF Added, Covered
  <2>4. \A held \in SUBSET Key : SyncFits(c, held) => SyncFits(d, held)
    BY <2>2, FitsStep
  <2> QED BY <1>3, <2>2, <2>3, <2>4
<1>4. \/ c.states # NoBoxes /\ d \in ServeBox(c) /\ c.step # "list"
      \/ c.step = "list" /\ d = ListBoxes(c)
      \/ c.step # "list" /\ \E step \in {"ok", "error"} : d = [c EXCEPT !.step = step]
  <2>1. CASE c.step = "list"
    BY <2>1 DEF Served
  <2>2. CASE c.step = "sent" /\ c.kind = "sync"
    <3>1. CASE Refused(c.states)
      BY <2>2, <3>1 DEF Served
    <3>2. CASE ~Refused(c.states) /\ c.states # NoBoxes
      BY <2>2, <3>2 DEF Served
    <3>3. CASE ~Refused(c.states) /\ c.states = NoBoxes
      BY <2>2, <3>3 DEF Served
    <3> QED BY <3>1, <3>2, <3>3
  <2>3. CASE c.step = "sent" /\ c.kind \in {"seen", "content"}
    BY <2>3 DEF Served, ServeMessage
  <2>4. CASE c.step = "sent" /\ c.kind = "list"
    BY <2>4 DEF Served
  <2> QED BY <2>1, <2>2, <2>3, <2>4, CallFields DEF Kind
<1> QED BY <1>1, <1>2, <1>3, <1>4

-----------------------------------------------------------------------------
(* Every step keeps the types. *)

LEMMA SlotSet ==
  ASSUME MailTypeOK, NEW s \in MailSlots, NEW c, mailCall' = [mailCall EXCEPT ![s] = c]
  PROVE  /\ mailCall' = [t \in MailSlots |-> mailCall'[t]]
         /\ mailCall'[s] = c /\ \A t \in MailSlots : t # s => mailCall'[t] = mailCall[t]
  BY DEF MailTypeOK

\* What the steps of the calls and of the cache change.
CacheTyped == IsCache(mailCache') /\ connector' \in Connector /\ told' \in History
CallsTyped ==
    /\ mailCall' = [s \in MailSlots |-> mailCall'[s]]
    /\ \A s \in MailSlots : mailCall'[s] # NoMail => IsMailCall(mailCall'[s])

LEMMA TypesOf ==
  ASSUME MailTypeOK, CacheTyped, CallsTyped, mailBound' = mailBound,
         mailServer' \in [MailAccounts -> BoxStates], Partial(timers', Key, Nat \ {0}),
         dialogs' \subseteq [key: Key, connector: Connector], mailNetwork' \in BOOLEAN,
         changes' \in Nat
  PROVE  MailTypeOK'
  BY DEF MailTypeOK, CacheTyped, CallsTyped

LEMMA ChangeTyped == ASSUME MailTypeOK, Change PROVE changes' \in Nat
  BY DEF MailTypeOK, Change

LEMMA SameCalls == ASSUME MailTypeOK, mailCall' = mailCall PROVE CallsTyped
  BY DEF MailTypeOK, CallsTyped

LEMMA SendTyped ==
  ASSUME MailTypeOK, NEW s \in MailSlots, NEW c, Send(s, c), IsMailCall(c)
  PROVE  /\ CallsTyped /\ mailCall[s] = NoMail /\ mailCall'[s] = c
         /\ \A t \in MailSlots : t # s => mailCall'[t] = mailCall[t]
  BY SlotSet DEF Send, Free, CallsTyped, MailTypeOK

LEMMA StatesPartial ==
  ASSUME NEW c, IsCache(c), c.mailboxes # NoMail
  PROVE  Partial(States(c), Boxes, [validity: Validities \cup {NoMail}, known: SUBSET Uids])
<1>1. \A b \in DOMAIN c.mailboxes : KnownUids(c, b) \subseteq Uids
  BY CacheFields DEF KnownUids, Key, HeldIn
<1> QED BY <1>1, CacheFields DEF States, Partial

\* The call a sync sends.
AskedFor ==
    [NewCall("sync") EXCEPT
       !.step = IF Prepared.mailboxes = NoMail THEN "list" ELSE "sent",
       !.states = IF Prepared.mailboxes = NoMail THEN NoBoxes ELSE States(Prepared)]

LEMMA AskedForTyped ==
  ASSUME IsCache(mailCache), connector \in Connector
  PROVE  /\ IsMailCall(AskedFor) /\ AskedFor.kind = "sync" /\ AskedFor.connector = connector
         /\ AskedFor.key = NoMail /\ AskedFor.left = HeaderMaximum /\ AskedFor.result = NoBoxes
         /\ AskedFor.step = "list" <=> Prepared.mailboxes = NoMail
         /\ AskedFor.states = IF Prepared.mailboxes = NoMail THEN NoBoxes ELSE States(Prepared)
<1> DEFINE step == IF Prepared.mailboxes = NoMail THEN "list" ELSE "sent"
           states == IF Prepared.mailboxes = NoMail THEN NoBoxes ELSE States(Prepared)
           c == NewCall("sync")
<1>1. /\ IsMailCall(c) /\ c.kind = "sync" /\ c.connector = connector /\ c.key = NoMail
      /\ c.left = HeaderMaximum /\ c.result = NoBoxes
  BY NewCallTyped DEF NewCall
<1>2. Partial(states, Boxes, [validity: Validities \cup {NoMail}, known: SUBSET Uids])
  BY PreparedLess, StatesPartial, NoBoxesPartial
<1>3. step \in {"sent", "list"} /\ (step = "list" <=> Prepared.mailboxes = NoMail)
  OBVIOUS
<1>4. AskedFor = [c EXCEPT !.step = step, !.states = states]
  BY DEF AskedFor
<1>5. states = IF Prepared.mailboxes = NoMail THEN NoBoxes ELSE States(Prepared)
  OBVIOUS
<1> HIDE DEF step, states, c
<1>6. /\ IsMailCall(AskedFor) /\ SameCall(c, AskedFor) /\ AskedFor.step = step
      /\ AskedFor.states = states /\ AskedFor.left = c.left /\ AskedFor.result = c.result
  BY <1>1, <1>2, <1>3, <1>4 DEF IsMailCall, SameCall
<1> QED BY <1>1, <1>3, <1>4, <1>5, <1>6 DEF SameCall

LEMMA SyncTypes ==
  ASSUME MailTypeOK, NEW s \in MailSlots, Sync(s)
  PROVE  MailTypeOK'
<1>1. CacheTyped
  BY PreparedLess DEF Sync, MailTypeOK, CacheTyped
<1>2. CallsTyped
  <2>1. CASE mailCall' = mailCall
    BY <2>1, SameCalls
  <2>2. CASE Send(s, AskedFor)
    BY <2>2, SendTyped, AskedForTyped DEF MailTypeOK
  <2> QED BY <2>1, <2>2 DEF Sync, AskedFor
<1> QED BY <1>1, <1>2, TypesOf DEF MailTypeOK, Sync

\* The call that marks a message read.
MarkCall(key, conn) ==
    [NewCall("seen") EXCEPT
       !.connector = conn, !.key = key,
       !.old = IF key \in DOMAIN mailCache.mails THEN mailCache.mails[key] ELSE NoMail]

LEMMA MarkCallIs ==
  ASSUME MailTypeOK, NEW key \in Key, NEW conn \in Connector
  PROVE  LET c == MarkCall(key, conn)
         IN /\ IsMailCall(c) /\ c.kind = "seen" /\ c.connector = conn /\ c.key = key
            /\ c.result = NoBoxes
<1> DEFINE old == IF key \in DOMAIN mailCache.mails THEN mailCache.mails[key] ELSE NoMail
<1>1. old \in ShownMail \cup {NoMail}
  BY CacheFields DEF MailTypeOK
<1>2. MarkCall(key, conn) = [NewCall("seen") EXCEPT !.connector = conn, !.key = key, !.old = old]
  BY DEF MarkCall
<1> HIDE DEF old
<1>3. IsMailCall(MarkCall(key, conn))
  <2>1. HeaderMaximum \in 0 .. HeaderMaximum
    BY MailAssumption
  <2> QED BY <1>1, <1>2, <2>1, NoBoxesPartial DEF IsMailCall, NewCall, Kind
<1>4. LET c == MarkCall(key, conn)
      IN c.kind = "seen" /\ c.connector = conn /\ c.key = key /\ c.result = NoBoxes
  BY <1>2 DEF NewCall
<1> QED BY <1>3, <1>4

LEMMA MarkIs ==
  ASSUME MailTypeOK, NEW s \in MailSlots, NEW key \in Key, NEW conn \in Connector,
         Mark(s, key, conn)
  PROVE  /\ CacheTyped \/ connector' # connector
         /\ CallsTyped /\ changes' \in Nat /\ Send(s, MarkCall(key, conn))
         /\ IsCache(mailCache')
         /\ mailCache'.pending = mailCache.pending \cup {key}
         /\ DOMAIN mailCache'.mails = DOMAIN mailCache.mails \ {key}
         /\ mailCache'.mailboxes = mailCache.mailboxes
         /\ mailCache'.identity = mailCache.identity
<1> DEFINE mails == Restrict(mailCache.mails, DOMAIN mailCache.mails \ {key})
           pending == mailCache.pending \cup {key}
<1>1. Send(s, MarkCall(key, conn))
  BY DEF Mark, MarkCall
<1>2. CallsTyped /\ changes' \in Nat
  BY <1>1, SendTyped, MarkCallIs, ChangeTyped DEF Mark
<1>3. Partial(mails, Key, ShownMail) /\ DOMAIN mails = DOMAIN mailCache.mails \ {key}
  BY RestrictPartial DEF MailTypeOK, IsCache
<1>4. mailCache' = [mailCache EXCEPT !.pending = pending, !.mails = mails]
  BY DEF Mark
<1>5. pending \in SUBSET Key
  BY CacheFields DEF MailTypeOK
<1>6. told' \in History
  BY DEF Mark, MailTypeOK, History
<1>7. IsCache(mailCache) /\ pending = mailCache.pending \cup {key}
  BY DEF MailTypeOK
<1> HIDE DEF mails, pending
<1>8. /\ IsCache(mailCache') /\ mailCache'.pending = pending /\ mailCache'.mails = mails
      /\ mailCache'.mailboxes = mailCache.mailboxes
      /\ mailCache'.identity = mailCache.identity
  BY <1>3, <1>4, <1>5, <1>7 DEF IsCache
<1> QED BY <1>1, <1>2, <1>3, <1>6, <1>7, <1>8 DEF MailTypeOK, CacheTyped

LEMMA MarkTypes ==
  ASSUME MailTypeOK, NEW s \in MailSlots,
         \/ \E key \in DOMAIN mailCache.mails : MarkRow(s, key)
         \/ \E d \in dialogs : MarkDialog(s, d)
  PROVE  MailTypeOK'
<1>1. ASSUME NEW key \in DOMAIN mailCache.mails, MarkRow(s, key) PROVE MailTypeOK'
  <2>1. key \in Key /\ connector \in Connector /\ Mark(s, key, connector)
    BY <1>1, CacheFields DEF MailTypeOK, MarkRow
  <2>2. CacheTyped /\ CallsTyped /\ changes' \in Nat
    BY <1>1, <2>1, MarkIs DEF MarkRow
  <2> QED BY <1>1, <2>2, TypesOf DEF MailTypeOK, MarkRow
<1>2. ASSUME NEW d \in dialogs, MarkDialog(s, d) PROVE MailTypeOK'
  <2>1. d.key \in Key /\ d.connector \in Connector /\ Mark(s, d.key, d.connector)
    BY <1>2 DEF MailTypeOK, MarkDialog
  <2>2. CacheTyped /\ CallsTyped /\ changes' \in Nat
    BY <1>2, <2>1, MarkIs DEF MarkDialog
  <2> QED BY <1>2, <2>2, TypesOf DEF MailTypeOK, MarkDialog
<1> QED BY <1>1, <1>2

LEMMA ViewTypes ==
  ASSUME MailTypeOK, NEW s \in MailSlots, NEW key \in DOMAIN mailCache.mails, View(s, key)
  PROVE  MailTypeOK' /\ IsMailCall(mailCall'[s]) /\ mailCall'[s].key = key
         /\ mailCall'[s].kind = "content" /\ mailCall'[s].connector = connector
         /\ mailCall'[s].result = NoBoxes
<1> DEFINE c == [NewCall("content") EXCEPT !.key = key]
<1>1. key \in Key /\ connector \in Connector
  BY CacheFields DEF MailTypeOK
<1>2. HeaderMaximum \in 0 .. HeaderMaximum
  BY MailAssumption
<1>3. IsMailCall(c) /\ c.key = key /\ c.kind = "content" /\ c.connector = connector
      /\ c.result = NoBoxes
  BY <1>1, <1>2, NoBoxesPartial DEF IsMailCall, NewCall, Kind
<1>4. Send(s, c)
  BY DEF View
<1> HIDE DEF c
<1>5. CallsTyped /\ mailCall'[s] = c /\ changes' \in Nat
  BY <1>3, <1>4, SendTyped, ChangeTyped DEF View
<1>6. CacheTyped
  BY DEF View, MailTypeOK, CacheTyped
<1> QED BY <1>3, <1>5, <1>6, TypesOf DEF MailTypeOK, View

LEMMA GetBoxesTypes ==
  ASSUME MailTypeOK, NEW s \in MailSlots, GetBoxes(s)
  PROVE  MailTypeOK' /\ IsMailCall(mailCall'[s]) /\ mailCall'[s] = NewCall("list")
<1>1. Send(s, NewCall("list")) /\ IsMailCall(NewCall("list"))
  BY NewCallTyped DEF GetBoxes, MailTypeOK
<1>2. CallsTyped /\ mailCall'[s] = NewCall("list") /\ changes' \in Nat
  BY <1>1, SendTyped, ChangeTyped DEF GetBoxes
<1>3. CacheTyped
  BY DEF GetBoxes, MailTypeOK, CacheTyped
<1> QED BY <1>1, <1>2, <1>3, TypesOf DEF MailTypeOK, GetBoxes

\* One box of the mail server changes.
LEMMA ServerSet ==
  ASSUME mailServer \in [MailAccounts -> BoxStates], NEW a \in MailAccounts, NEW b \in Boxes,
         NEW box \in BoxState, mailServer' = [mailServer EXCEPT ![a][b] = box]
  PROVE  /\ mailServer' \in [MailAccounts -> BoxStates] /\ mailServer'[a][b] = box
         /\ \A x \in MailAccounts, y \in Boxes :
              x # a \/ y # b => mailServer'[x][y] = mailServer[x][y]
<1>1. [mailServer[a] EXCEPT ![b] = box] \in BoxStates
  BY DEF BoxStates
<1> QED BY <1>1 DEF BoxStates

\* Some of its messages are unread.
UnreadBecomes(a, b, uids) == mailServer' = [mailServer EXCEPT ![a][b].unread = uids]

LEMMA UnreadSet ==
  ASSUME mailServer \in [MailAccounts -> BoxStates], NEW a \in MailAccounts, NEW b \in Boxes,
         NEW uids \in SUBSET (1 .. mailServer[a][b].last), UnreadBecomes(a, b, uids)
  PROVE  /\ mailServer' \in [MailAccounts -> BoxStates]
         /\ mailServer'[a][b].unread = uids
         /\ mailServer'[a][b].last = mailServer[a][b].last
         /\ mailServer'[a][b].validity = mailServer[a][b].validity
         /\ \A x \in MailAccounts, y \in Boxes :
              x # a \/ y # b => mailServer'[x][y] = mailServer[x][y]
<1> DEFINE old == mailServer[a][b]
           box == [old EXCEPT !.unread = uids]
<1>1. old \in BoxState
  BY DEF BoxStates
<1>2. old.last \in 0 .. MaxUid /\ old \in [validity: Validities, last: 0 .. MaxUid,
                                          unread: SUBSET Uids]
  BY <1>1 DEF BoxState
<1>3. uids \in SUBSET Uids
  BY <1>2, MailAssumption DEF Uids
<1>4. box \in BoxState /\ box.unread = uids /\ box.last = old.last /\ box.validity = old.validity
  BY <1>2, <1>3 DEF BoxState
<1>5. mailServer' = [mailServer EXCEPT ![a][b] = box]
  BY DEF UnreadBecomes
<1>6. [mailServer[a] EXCEPT ![b] = box] \in BoxStates
  BY <1>4 DEF BoxStates
<1>7. /\ mailServer' \in [MailAccounts -> BoxStates] /\ mailServer'[a][b] = box
      /\ \A x \in MailAccounts, y \in Boxes :
           x # a \/ y # b => mailServer'[x][y] = mailServer[x][y]
  <2> HIDE DEF box
  <2> QED BY <1>5, <1>6 DEF BoxStates
<1> QED BY <1>4, <1>7

LEMMA ServeIs ==
  ASSUME MailTypeOK, NEW s \in MailSlots, Serve(s)
  PROVE  /\ mailCall[s] # NoMail /\ mailCall[s].step \in {"sent", "list"}
         /\ IsMailCall(mailCall[s])
         /\ mailCall'[s] \in Served(mailCall[s]) /\ IsMailCall(mailCall'[s])
         /\ SameCall(mailCall[s], mailCall'[s])
         /\ \A t \in MailSlots : t # s => mailCall'[t] = mailCall[t]
         /\ CallsTyped
<1> DEFINE c == mailCall[s]
<1>1. c # NoMail /\ c.step \in {"sent", "list"} /\ IsMailCall(c)
  BY DEF Serve, MailTypeOK
<1>2. PICK d \in Served(c) : mailCall' = [mailCall EXCEPT ![s] = d]
  BY DEF Serve
<1>3. IsMailCall(d) /\ SameCall(c, d)
  BY <1>1, ServedFits DEF MailTypeOK
<1>4. /\ mailCall'[s] = d /\ \A t \in MailSlots : t # s => mailCall'[t] = mailCall[t]
      /\ mailCall' = [t \in MailSlots |-> mailCall'[t]]
  BY <1>2, SlotSet
<1>5. \A t \in MailSlots : mailCall'[t] # NoMail => IsMailCall(mailCall'[t])
  BY <1>3, <1>4 DEF MailTypeOK
<1> QED BY <1>1, <1>2, <1>3, <1>4, <1>5 DEF CallsTyped

\* What a mark that is stored leaves of the mail server.
LEMMA MarkStored ==
  ASSUME MailTypeOK, NEW s \in MailSlots, Serve(s)
  PROVE  LET a == mailCall[s].connector.account
             key == mailCall[s].key
             stored == mailCall[s].kind = "seen" /\ mailCall'[s].step = "ok"
         IN /\ ~stored => mailServer' = mailServer /\ told' = told
            /\ stored =>
                 /\ a \in MailAccounts /\ key \in Key
                 /\ mailServer' = [mailServer EXCEPT
                                     ![a][key.box].unread = mailServer[a][key.box].unread \ {key.uid}]
                 /\ told' = [told EXCEPT !.read = @ \cup {<<a, key>>}]
<1>1. mailCall[s] # NoMail => mailCall'[s].kind = mailCall[s].kind
  BY ServeIs DEF SameCall
<1>2. PICK d \in Served(mailCall[s]) :
        /\ mailCall' = [mailCall EXCEPT ![s] = d]
        /\ mailServer' = IF mailCall[s].kind = "seen" /\ d.step = "ok"
                           THEN [mailServer EXCEPT
                                   ![mailCall[s].connector.account][mailCall[s].key.box].unread
                                      = @ \ {mailCall[s].key.uid}]
                           ELSE mailServer
        /\ told' = IF mailCall[s].kind = "seen" /\ d.step = "ok"
                     THEN [told EXCEPT !.read = @ \cup {<<mailCall[s].connector.account, mailCall[s].key>>}]
                     ELSE told
  BY Zenon DEF Serve
<1>3. mailCall'[s] = d
  BY <1>2, SlotSet
<1>4. mailCall[s].kind = "seen" => mailCall[s].key \in Key
  BY ServeIs, CallFields
<1>5. mailCall[s].connector.account \in MailAccounts
  BY ServeIs, CallFields DEF Connector
<1> QED BY <1>2, <1>3, <1>4, <1>5

LEMMA ServeTypes ==
  ASSUME MailTypeOK, NEW s \in MailSlots, Serve(s)
  PROVE  MailTypeOK'
<1> DEFINE a == mailCall[s].connector.account
           key == mailCall[s].key
           stored == mailCall[s].kind = "seen" /\ mailCall'[s].step = "ok"
           uids == mailServer[a][key.box].unread \ {key.uid}
<1>1. mailServer' \in [MailAccounts -> BoxStates] /\ told' \in History
  <2>1. CASE ~stored
    BY <2>1, MarkStored DEF MailTypeOK
  <2>2. CASE stored
    <3>1. /\ a \in MailAccounts /\ key \in Key
          /\ mailServer' = [mailServer EXCEPT ![a][key.box].unread = uids]
          /\ told' = [told EXCEPT !.read = @ \cup {<<a, key>>}]
      BY <2>2, MarkStored
    <3>2. mailServer[a][key.box] \in BoxState /\ key.box \in Boxes
      BY <3>1 DEF MailTypeOK, BoxStates, Key
    <3>3. uids \in SUBSET (1 .. mailServer[a][key.box].last)
      BY <3>2 DEF BoxState
    <3>4. told' \in History
      <4>1. told \in History /\ <<a, key>> \in MailAccounts \X Key
        BY <3>1 DEF MailTypeOK
      <4> HIDE DEF a, key
      <4> QED BY <3>1, <4>1 DEF History
    <3>5. UnreadBecomes(a, key.box, uids)
      BY <3>1 DEF UnreadBecomes
    <3> HIDE DEF a, key, uids
    <3> QED BY <3>1, <3>2, <3>3, <3>4, <3>5, UnreadSet DEF MailTypeOK
  <2> QED BY <2>1, <2>2
<1>2. CacheTyped
  BY <1>1 DEF Serve, MailTypeOK, CacheTyped
<1>3. CallsTyped
  BY ServeIs
<1> QED BY <1>1, <1>2, <1>3, TypesOf DEF MailTypeOK, Serve

LEMMA CallFailsIs ==
  ASSUME MailTypeOK, NEW s \in MailSlots, CallFails(s)
  PROVE  /\ MailTypeOK' /\ mailCall[s] # NoMail /\ mailCall'[s].step = "error"
         /\ SameCall(mailCall[s], mailCall'[s])
         /\ mailCall'[s].late = mailCall[s].late /\ mailCall'[s].states = mailCall[s].states
         /\ mailCall'[s].left = mailCall[s].left /\ mailCall'[s].result = mailCall[s].result
         /\ \A t \in MailSlots : t # s => mailCall'[t] = mailCall[t]
<1> DEFINE d == [mailCall[s] EXCEPT !.step = "error"]
<1>1. mailCall' = [mailCall EXCEPT ![s] = d] /\ mailCall[s] # NoMail /\ IsMailCall(mailCall[s])
  BY DEF CallFails, MailTypeOK
<1>2. IsMailCall(d) /\ d.step = "error" /\ SameCall(mailCall[s], d)
      /\ d.late = mailCall[s].late /\ d.states = mailCall[s].states
      /\ d.left = mailCall[s].left /\ d.result = mailCall[s].result
  BY <1>1, StepTyped
<1> HIDE DEF d
<1>3. mailCall'[s] = d /\ (\A t \in MailSlots : t # s => mailCall'[t] = mailCall[t])
      /\ mailCall' = [t \in MailSlots |-> mailCall'[t]]
  BY <1>1, SlotSet
<1>4. CallsTyped
  BY <1>2, <1>3 DEF CallsTyped, MailTypeOK
<1>5. CacheTyped /\ changes' \in Nat
  BY ChangeTyped DEF CallFails, MailTypeOK, CacheTyped
<1>6. MailTypeOK'
  BY <1>4, <1>5, TypesOf DEF MailTypeOK, CallFails
<1> QED BY <1>1, <1>2, <1>3, <1>6

\* A mark that failed gives its message back; one that did not is confirmed.
LEMMA RollbackIs ==
  ASSUME IsCache(mailCache), NEW c, IsMailCall(c), c.key \in Key
  PROVE  LET next == Rollback(c)
         IN /\ IsCache(next) /\ next.identity = mailCache.identity
            /\ next.mailboxes = mailCache.mailboxes
            /\ next.pending = mailCache.pending \ {c.key}
            /\ DOMAIN next.mails \subseteq DOMAIN mailCache.mails \cup {c.key}
<1> DEFINE back == [k \in DOMAIN mailCache.mails \cup {c.key} |->
                      IF k = c.key THEN c.old ELSE mailCache.mails[k]]
           mails == IF c.old = NoMail THEN mailCache.mails ELSE back
           pending == mailCache.pending \ {c.key}
           confirmed == mailCache.confirmed \ {c.key}
<1>1. Partial(mails, Key, ShownMail) /\ DOMAIN mails \subseteq DOMAIN mailCache.mails \cup {c.key}
  <2>1. CASE c.old = NoMail
    BY <2>1 DEF IsCache
  <2>2. CASE c.old # NoMail
    <3>1. c.old \in ShownMail
      BY <2>2, CallFields
    <3>2. Partial(back, Key, ShownMail)
      BY <3>1, CacheFields DEF Partial
    <3> QED BY <2>2, <3>2
  <2> QED BY <2>1, <2>2
<1>2. pending \in SUBSET Key /\ confirmed \in SUBSET Key
  BY CacheFields
<1>3. Rollback(c) = [mailCache EXCEPT !.pending = pending, !.confirmed = confirmed, !.mails = mails]
  BY DEF Rollback
<1>4. pending = mailCache.pending \ {c.key}
  OBVIOUS
<1> HIDE DEF mails, pending, confirmed
<1> DEFINE next == Rollback(c)
<1>5. /\ IsCache(next) /\ next.identity = mailCache.identity
      /\ next.mailboxes = mailCache.mailboxes
      /\ next.pending = pending /\ next.mails = mails
  BY <1>1, <1>2, <1>3 DEF IsCache
<1> QED BY <1>1, <1>4, <1>5

LEMMA CommitIs ==
  ASSUME IsCache(mailCache), NEW c, IsMailCall(c), c.key \in Key
  PROVE  LET next == Commit(c)
         IN /\ IsCache(next) /\ next.identity = mailCache.identity
            /\ next.mailboxes = mailCache.mailboxes
            /\ next.pending = mailCache.pending /\ next.mails = mailCache.mails
<1> DEFINE confirmed == IF c.key \in mailCache.pending THEN mailCache.confirmed \cup {c.key}
                        ELSE mailCache.confirmed
           next == Commit(c)
<1>1. confirmed \in SUBSET Key
  BY CacheFields
<1>2. next = [mailCache EXCEPT !.confirmed = confirmed]
  BY DEF Commit
<1> HIDE DEF confirmed, next
<1>3. /\ IsCache(next) /\ next.identity = mailCache.identity
      /\ next.mailboxes = mailCache.mailboxes
      /\ next.pending = mailCache.pending /\ next.mails = mailCache.mails
  BY <1>1, <1>2 DEF IsCache
<1> QED BY <1>3 DEF next

LEMMA MigrateTyped ==
  ASSUME NEW conn \in Connector, NEW listed \in SUBSET Boxes
  PROVE  /\ boxSelection_migrate(conn, listed) \in Connector
         /\ boxSelection_migrate(conn, listed).account = conn.account
  BY DEF boxSelection_migrate, Connector, Selections

LEMMA SelectTyped ==
  ASSUME NEW conn \in Connector, NEW b \in Boxes, NEW selected \in BOOLEAN
  PROVE  /\ boxSelection_set(conn, b, selected) \in Connector
         /\ boxSelection_set(conn, b, selected).account = conn.account
  BY DEF boxSelection_set, Connector, Selections

LEMMA TakenOffTyped == ASSUME IsCache(mailCache) PROVE TakenOff \subseteq Key
  BY CacheFields DEF TakenOff

\* The five cases of an answer.
AnswersSync(c) == mailNetwork /\ c.step = "ok" /\ c.kind = "sync" /\ AnswerSync(c)
AnswersMark(c) == mailNetwork /\ c.kind = "seen" /\ AnswerSeen(c)
AnswersContent(c) == mailNetwork /\ c.step = "ok" /\ c.kind = "content" /\ AnswerContent(c)
AnswersList(c) == mailNetwork /\ c.step = "ok" /\ c.kind = "list" /\ AnswerList(c)
AnswersNothing(c) ==
    /\ ~mailNetwork \/ (c.step = "error" /\ c.kind # "seen")
    /\ UNCHANGED <<connector, mailCache, dialogs, told>>

LEMMA AnswerCases ==
  ASSUME NEW s, MailAnswer(s)
  PROVE  LET c == mailCall[s]
         IN AnswersSync(c) \/ AnswersMark(c) \/ AnswersContent(c) \/ AnswersList(c)
              \/ AnswersNothing(c)
BY DEF MailAnswer, AnswersSync, AnswersMark, AnswersContent, AnswersList, AnswersNothing

\* An answer ends its call, and makes the other syncs late when it is one of a sync.
LEMMA AnswerEnds ==
  ASSUME MailTypeOK, NEW s \in MailSlots, MailAnswer(s)
  PROVE  /\ mailCall[s] # NoMail /\ IsMailCall(mailCall[s])
         /\ mailCall[s].step \in {"ok", "error"} /\ mailCall'[s] = NoMail
         /\ CallsTyped
         /\ \A t \in MailSlots : mailCall'[t] # NoMail =>
              /\ mailCall[t] # NoMail /\ IsMailCall(mailCall[t])
              /\ SameCall(mailCall[t], mailCall'[t])
              /\ mailCall'[t].step = mailCall[t].step
              /\ mailCall'[t].states = mailCall[t].states
              /\ mailCall'[t].left = mailCall[t].left
              /\ mailCall'[t].result = mailCall[t].result
              /\ mailCall[t].late => mailCall'[t].late
              /\ AnswersSync(mailCall[s]) /\ mailCall'[t].kind = "sync" => mailCall'[t].late
<1> DEFINE Late(t) == mailCall[s].kind = "sync" /\ mailNetwork /\ Out(t, "sync")
<1>1. mailCall[s] # NoMail /\ IsMailCall(mailCall[s]) /\ mailCall[s].step \in {"ok", "error"}
  BY DEF MailAnswer, MailTypeOK
<1>2. mailCall' = [t \in MailSlots |->
                     IF t = s THEN NoMail
                     ELSE IF Late(t) THEN [mailCall[t] EXCEPT !.late = TRUE] ELSE mailCall[t]]
  BY DEF MailAnswer
<1>3. AnswersSync(mailCall[s]) => \A t \in MailSlots : Out(t, "sync") => Late(t)
  BY DEF AnswersSync
<1>4. \A t \in MailSlots : Late(t) => mailCall[t] # NoMail
  BY DEF Out
<1> HIDE DEF Late
<1>5. mailCall'[s] = NoMail /\ mailCall' = [t \in MailSlots |-> mailCall'[t]]
  BY <1>2
<1>6. ASSUME NEW t \in MailSlots, mailCall'[t] # NoMail
      PROVE  /\ mailCall[t] # NoMail /\ IsMailCall(mailCall[t]) /\ IsMailCall(mailCall'[t])
             /\ SameCall(mailCall[t], mailCall'[t])
             /\ mailCall'[t].step = mailCall[t].step
             /\ mailCall'[t].states = mailCall[t].states
             /\ mailCall'[t].left = mailCall[t].left
             /\ mailCall'[t].result = mailCall[t].result
             /\ mailCall[t].late => mailCall'[t].late
             /\ AnswersSync(mailCall[s]) /\ mailCall'[t].kind = "sync" => mailCall'[t].late
  <2>1. CASE Late(t)
    <3>1. mailCall[t] # NoMail /\ IsMailCall(mailCall[t])
      BY <1>4, <2>1 DEF MailTypeOK
    <3>2. mailCall'[t] = [mailCall[t] EXCEPT !.late = TRUE]
      BY <1>2, <1>6, <1>5, <2>1
    <3> QED BY <3>1, <3>2, LateTyped
  <2>2. CASE ~Late(t)
    <3>1. mailCall'[t] = mailCall[t]
      BY <1>2, <1>5, <1>6, <2>2
    <3>2. mailCall[t] # NoMail /\ IsMailCall(mailCall[t])
      BY <1>6, <3>1 DEF MailTypeOK
    <3>3. AnswersSync(mailCall[s]) => mailCall[t].kind # "sync"
      BY <1>3, <2>2, <3>2 DEF Out
    <3> QED BY <3>1, <3>2, <3>3 DEF SameCall
  <2> QED BY <2>1, <2>2
<1>7. CallsTyped
  BY <1>5, <1>6 DEF CallsTyped
<1> QED BY <1>1, <1>5, <1>6, <1>7

LEMMA AnswerTypes ==
  ASSUME MailTypeOK, NEW s \in MailSlots, MailAnswer(s)
  PROVE  MailTypeOK'
<1> DEFINE c == mailCall[s]
<1>1. IsMailCall(c) /\ CallsTyped
  BY AnswerEnds
<1>2. IsCache(mailCache) /\ connector \in Connector /\ told \in History
      /\ dialogs \subseteq [key: Key, connector: Connector]
  BY DEF MailTypeOK
<1>3. TakenOff \subseteq Key
  BY <1>2, TakenOffTyped
<1>4. CacheTyped /\ dialogs' \subseteq [key: Key, connector: Connector]
  <2>1. CASE AnswersSync(c)
    <3>1. c.connector.account \in MailAccounts /\ Results(c.result)
      BY <1>1, CallFields DEF Connector
    <3>2. IsCache(mailCache')
      BY <1>2, <2>1, <3>1, AppliedIs DEF AnswersSync, AnswerSync
    <3>3. told' \in History
      BY <1>2, <1>3, <2>1 DEF AnswersSync, AnswerSync, History
    <3> QED BY <1>2, <2>1, <3>2, <3>3 DEF AnswersSync, AnswerSync, CacheTyped
  <2>2. CASE AnswersMark(c)
    <3>1. c.key \in Key
      BY <1>1, <2>2, CallFields DEF AnswersMark
    <3>2. IsCache(mailCache')
      BY <1>1, <1>2, <2>2, <3>1, RollbackIs, CommitIs DEF AnswersMark, AnswerSeen
    <3>3. told' \in History
      BY <1>2, <2>2 DEF AnswersMark, AnswerSeen, History
    <3> QED BY <1>2, <2>2, <3>2, <3>3 DEF AnswersMark, AnswerSeen, CacheTyped
  <2>3. CASE AnswersContent(c)
    <3>1. c.key \in Key /\ c.connector \in Connector
      BY <1>1, <2>3, CallFields DEF AnswersContent
    <3> QED BY <1>2, <2>3, <3>1 DEF AnswersContent, AnswerContent, CacheTyped
  <2>4. CASE AnswersList(c)
    <3>1. connector' \in Connector
      BY <1>2, <2>4, MigrateTyped DEF AnswersList, AnswerList
    <3>2. IsCache(mailCache')
      BY <1>2, <2>4, <3>1, TopologyLess DEF AnswersList, AnswerList
    <3>3. told' \in History
      BY <1>2, <1>3, <2>4 DEF AnswersList, AnswerList, History
    <3> QED BY <1>2, <2>4, <3>1, <3>2, <3>3 DEF AnswersList, AnswerList, CacheTyped
  <2>5. CASE AnswersNothing(c)
    BY <1>2, <2>5 DEF AnswersNothing, CacheTyped
  <2> QED BY <2>1, <2>2, <2>3, <2>4, <2>5, AnswerCases
<1> QED BY <1>1, <1>4, TypesOf DEF MailTypeOK, MailAnswer

\* Arming a row changes how the row is shown, and nothing of what is known.
LEMMA ArmedIs ==
  ASSUME IsCache(mailCache), NEW key \in DOMAIN mailCache.mails, NEW armed \in {TRUE, FALSE},
         mailCache' = [mailCache EXCEPT !.mails[key].armed = armed]
  PROVE  /\ IsCache(mailCache') /\ mailCache'.identity = mailCache.identity
         /\ mailCache'.mailboxes = mailCache.mailboxes
         /\ mailCache'.pending = mailCache.pending
         /\ DOMAIN mailCache'.mails = DOMAIN mailCache.mails
<1> DEFINE row == [mailCache.mails[key] EXCEPT !.armed = armed]
           mails == [mailCache.mails EXCEPT ![key] = row]
<1>1. row \in ShownMail
  <2>1. mailCache.mails[key] \in ShownMail
    BY CacheFields
  <2> QED BY <2>1 DEF ShownMail
<1>2. mailCache' = [mailCache EXCEPT !.mails = mails]
  OBVIOUS
<1> HIDE DEF row
<1>3. Partial(mails, Key, ShownMail) /\ DOMAIN mails = DOMAIN mailCache.mails
  BY <1>1 DEF Partial, IsCache
<1> HIDE DEF mails
<1>4. /\ IsCache(mailCache') /\ mailCache'.identity = mailCache.identity
      /\ mailCache'.mailboxes = mailCache.mailboxes
      /\ mailCache'.pending = mailCache.pending /\ mailCache'.mails = mails
  BY <1>2, <1>3 DEF IsCache
<1> QED BY <1>3, <1>4

LEMMA ArmIs ==
  ASSUME MailTypeOK, NEW key \in DOMAIN mailCache.mails, Arm(key)
  PROVE  /\ MailTypeOK' /\ mailCache'.identity = mailCache.identity
         /\ mailCache'.mailboxes = mailCache.mailboxes
         /\ mailCache'.pending = mailCache.pending
         /\ DOMAIN mailCache'.mails = DOMAIN mailCache.mails
<1>1. key \in Key
  BY CacheFields DEF MailTypeOK
<1>2. Partial(timers', Key, Nat \ {0})
  <2> DEFINE next == [k \in DOMAIN timers \cup {key} |->
                       IF k \notin DOMAIN timers THEN 1
                       ELSE IF k = key THEN timers[k] + 1 ELSE timers[k]]
  <2>1. \A k \in DOMAIN next : next[k] \in Nat \ {0}
    BY DEF MailTypeOK, Partial
  <2>2. DOMAIN next \subseteq Key
    BY <1>1 DEF MailTypeOK, Partial
  <2>3. next = [k \in DOMAIN next |-> next[k]]
    OBVIOUS
  <2> HIDE DEF next
  <2>4. Partial(next, Key, Nat \ {0})
    BY <2>1, <2>2, <2>3 DEF Partial
  <2> QED BY <2>4 DEF Arm, next
<1>3. /\ IsCache(mailCache') /\ mailCache'.identity = mailCache.identity
      /\ mailCache'.mailboxes = mailCache.mailboxes
      /\ mailCache'.pending = mailCache.pending
      /\ DOMAIN mailCache'.mails = DOMAIN mailCache.mails
  <2>1. mailCache' = [mailCache EXCEPT !.mails[key].armed = TRUE] /\ IsCache(mailCache)
    BY DEF Arm, MailTypeOK
  <2> QED BY <2>1, ArmedIs
<1>4. CacheTyped /\ CallsTyped /\ changes' \in Nat
  BY <1>3, SameCalls, ChangeTyped DEF Arm, MailTypeOK, CacheTyped
<1>5. MailTypeOK'
  BY <1>2, <1>4, TypesOf DEF MailTypeOK, Arm
<1> QED BY <1>3, <1>5

LEMMA TimerFiresIs ==
  ASSUME MailTypeOK, NEW key \in DOMAIN timers, TimerFires(key)
  PROVE  /\ MailTypeOK' /\ mailCache'.identity = mailCache.identity
         /\ mailCache'.mailboxes = mailCache.mailboxes
         /\ mailCache'.pending = mailCache.pending
         /\ DOMAIN mailCache'.mails = DOMAIN mailCache.mails
<1>1. Partial(timers', Key, Nat \ {0})
  <2>1. CASE timers[key] = 1
    BY <2>1, RestrictPartial DEF TimerFires, MailTypeOK
  <2>2. CASE timers[key] # 1
    <3>1. timers[key] - 1 \in Nat \ {0}
      BY <2>2 DEF MailTypeOK, Partial
    <3>2. timers' = [timers EXCEPT ![key] = timers[key] - 1]
      BY <2>2 DEF TimerFires
    <3> QED BY <3>1, <3>2 DEF MailTypeOK, Partial
  <2> QED BY <2>1, <2>2
<1>2. /\ IsCache(mailCache') /\ mailCache'.identity = mailCache.identity
      /\ mailCache'.mailboxes = mailCache.mailboxes
      /\ mailCache'.pending = mailCache.pending
      /\ DOMAIN mailCache'.mails = DOMAIN mailCache.mails
  <2>1. CASE key \in DOMAIN mailCache.mails
    <3>1. mailCache' = [mailCache EXCEPT !.mails[key].armed = FALSE] /\ IsCache(mailCache)
      BY <2>1 DEF TimerFires, MailTypeOK
    <3> QED BY <2>1, <3>1, ArmedIs
  <2>2. CASE key \notin DOMAIN mailCache.mails
    BY <2>2 DEF TimerFires, MailTypeOK
  <2> QED BY <2>1, <2>2
<1>3. CacheTyped /\ CallsTyped
  BY <1>2, SameCalls DEF TimerFires, MailTypeOK, CacheTyped
<1>4. MailTypeOK'
  BY <1>1, <1>3, TypesOf DEF MailTypeOK, TimerFires
<1> QED BY <1>2, <1>4

LEMMA EditAccountTypes ==
  ASSUME MailTypeOK, NEW a \in MailAccounts, EditAccount(a)
  PROVE  MailTypeOK'
<1>1. connector' \in Connector
  BY DEF EditAccount, MailTypeOK, Connector
<1>2. told' \in History
  BY DEF EditAccount, MailTypeOK, History
<1>3. CacheTyped /\ CallsTyped /\ changes' \in Nat
  BY <1>1, <1>2, SameCalls, ChangeTyped DEF EditAccount, MailTypeOK, CacheTyped
<1> QED BY <1>3, TypesOf DEF MailTypeOK, EditAccount

LEMMA SwitchBoxIs ==
  ASSUME MailTypeOK, NEW b \in Boxes, SwitchBox(b)
  PROVE  /\ MailTypeOK' /\ connector'.account = connector.account
         /\ mailCache'.identity = connector' /\ Settled(mailCache)'
         /\ Held' \subseteq Held
<1> DEFINE selected == ~isBoxSelected(connector, b)
<1>1. selected \in BOOLEAN /\ connector' = boxSelection_set(connector, b, selected)
  BY DEF SwitchBox, isBoxSelected, MailTypeOK, Connector
<1> HIDE DEF selected
<1>2. connector' \in Connector /\ connector'.account = connector.account
  BY <1>1, SelectTyped DEF MailTypeOK
<1>3. IsCache(mailCache) /\ mailCache.boxes \in SUBSET Boxes
      /\ mailCache' = topology_set(mailCache, mailCache.boxes, connector')
  BY CacheFields DEF MailTypeOK, SwitchBox
<1>4. /\ IsCache(mailCache') /\ mailCache'.identity = connector' /\ Settled(mailCache')
      /\ HeldIn(mailCache') \subseteq HeldIn(mailCache)
  BY <1>2, <1>3, TopologyLess
<1>5. told' \in History
  BY <1>3, TakenOffTyped DEF SwitchBox, MailTypeOK, History
<1>6. CacheTyped /\ CallsTyped /\ changes' \in Nat
  BY <1>2, <1>4, <1>5, SameCalls, ChangeTyped DEF SwitchBox, MailTypeOK, CacheTyped
<1>7. MailTypeOK'
  BY <1>6, TypesOf DEF MailTypeOK, SwitchBox
<1> QED BY <1>2, <1>4, <1>7 DEF Held

LEMMA NetworkTypes ==
  ASSUME MailTypeOK, Suspend \/ Resume
  PROVE  MailTypeOK'
<1>1. CacheTyped /\ CallsTyped
  BY SameCalls DEF Suspend, Resume, MailTypeOK, CacheTyped
<1>2. changes' \in Nat
  BY ChangeTyped DEF Suspend, Resume, MailTypeOK
<1> QED BY <1>1, <1>2, TypesOf DEF MailTypeOK, Suspend, Resume

\* What happens to a box elsewhere: a message comes, or the unread ones change, or the box is
\* made anew; and what was marked read for this page and is made unread is forgotten.
LEMMA BoxChangesIs ==
  ASSUME MailTypeOK, NEW a \in MailAccounts, NEW b \in Boxes, BoxChanges(a, b)
  PROVE  /\ MailTypeOK'
         /\ told'.contested = told.contested /\ told'.disturbed = told.disturbed
         /\ told'.read \subseteq told.read
         /\ \A x \in MailAccounts, y \in Boxes :
              x # a \/ y # b => mailServer'[x][y] = mailServer[x][y]
         /\ LET box == mailServer[a][b]
                next == mailServer'[a][b]
            IN \/ /\ next.validity = box.validity /\ next.last = box.last + 1
                  /\ next.unread = box.unread \cup {next.last}
               \/ /\ next.validity = box.validity /\ next.last = box.last
                  /\ next.unread \subseteq box.unread
               \/ /\ next.validity = box.validity /\ next.last = box.last
                  /\ \E u \in Uids :
                       /\ next.unread = box.unread \cup {u}
                       /\ <<a, [box |-> b, validity |-> box.validity, uid |-> u]>> \notin told'.read
               \/ /\ next.validity = box.validity + 1 /\ next.unread = {}
         /\ mailServer[a][b] \in BoxState
<1> DEFINE box == mailServer[a][b]
<1>1. box \in BoxState /\ box \in [validity: Validities, last: 0 .. MaxUid, unread: SUBSET Uids]
      /\ box.last \in Nat /\ box.unread \subseteq 1 .. box.last /\ told \in History
      /\ mailServer \in [MailAccounts -> BoxStates]
  BY MailAssumption DEF MailTypeOK, BoxStates, BoxState
<1>2. changes' \in Nat
  BY ChangeTyped DEF BoxChanges
<1>3. /\ told' \in History
      /\ told'.contested = told.contested /\ told'.disturbed = told.disturbed
      /\ told'.read \subseteq told.read
  BY <1>1 DEF BoxChanges, History
<1>4. \/ /\ box.last < MaxUid
         /\ mailServer' = [mailServer EXCEPT ![a][b].last = @ + 1, ![a][b].unread = @ \cup {box.last + 1}]
      \/ \E u \in box.unread : mailServer' = [mailServer EXCEPT ![a][b].unread = box.unread \ {u}]
      \/ \E u \in (1 .. box.last) \ box.unread :
           /\ mailServer' = [mailServer EXCEPT ![a][b].unread = box.unread \cup {u}]
           /\ told'.read = told.read \ {<<a, [box |-> b, validity |-> box.validity, uid |-> u]>>}
      \/ /\ box.validity + 1 \in Validities
         /\ mailServer' = [mailServer EXCEPT
                             ![a][b] = [validity |-> box.validity + 1, last |-> 0, unread |-> {}]]
  BY <1>1 DEF BoxChanges, History
<1> HIDE DEF box
<1>5. /\ mailServer' \in [MailAccounts -> BoxStates]
      /\ \A x \in MailAccounts, y \in Boxes :
           x # a \/ y # b => mailServer'[x][y] = mailServer[x][y]
      /\ LET next == mailServer'[a][b]
         IN \/ /\ next.validity = box.validity /\ next.last = box.last + 1
               /\ next.unread = box.unread \cup {next.last}
            \/ /\ next.validity = box.validity /\ next.last = box.last
               /\ next.unread \subseteq box.unread
            \/ /\ next.validity = box.validity /\ next.last = box.last
               /\ \E u \in Uids :
                    /\ next.unread = box.unread \cup {u}
                    /\ <<a, [box |-> b, validity |-> box.validity, uid |-> u]>> \notin told'.read
            \/ /\ next.validity = box.validity + 1 /\ next.unread = {}
  <2>1. CASE /\ box.last < MaxUid
             /\ mailServer' = [mailServer EXCEPT ![a][b].last = @ + 1, ![a][b].unread = @ \cup {box.last + 1}]
    <3> DEFINE new == [box EXCEPT !.last = box.last + 1, !.unread = box.unread \cup {box.last + 1}]
    <3>1. mailServer' = [mailServer EXCEPT ![a][b] = new]
      BY <2>1 DEF box
    <3>2. new \in BoxState /\ new.validity = box.validity /\ new.last = box.last + 1
          /\ new.unread = box.unread \cup {box.last + 1}
      <4>1. box.last + 1 \in 0 .. MaxUid /\ box.last + 1 \in Uids
            /\ box.unread \cup {box.last + 1} \subseteq 1 .. (box.last + 1)
        BY <1>1, <2>1, MailAssumption DEF Uids
      <4>2. new \in [validity: Validities, last: 0 .. MaxUid, unread: SUBSET Uids]
            /\ new.validity = box.validity /\ new.last = box.last + 1
            /\ new.unread = box.unread \cup {box.last + 1}
        BY <1>1, <4>1
      <4> HIDE DEF new
      <4> QED BY <4>1, <4>2 DEF BoxState
    <3> HIDE DEF new
    <3>3. /\ mailServer' \in [MailAccounts -> BoxStates] /\ mailServer'[a][b] = new
          /\ \A x \in MailAccounts, y \in Boxes :
               x # a \/ y # b => mailServer'[x][y] = mailServer[x][y]
      BY <1>1, <3>1, <3>2 DEF BoxStates
    <3> QED BY <3>2, <3>3
  <2>2. CASE \E u \in box.unread : mailServer' = [mailServer EXCEPT ![a][b].unread = box.unread \ {u}]
    <3>1. PICK u \in box.unread : mailServer' = [mailServer EXCEPT ![a][b].unread = box.unread \ {u}]
      BY <2>2
    <3> DEFINE uids == box.unread \ {u}
    <3>2. uids \in SUBSET (1 .. mailServer[a][b].last)
      BY <1>1 DEF box
    <3>3. uids \subseteq box.unread
      OBVIOUS
    <3>4. UnreadBecomes(a, b, uids)
      BY <3>1 DEF UnreadBecomes
    <3> HIDE DEF uids
    <3>5. /\ mailServer' \in [MailAccounts -> BoxStates]
          /\ mailServer'[a][b].unread = uids
          /\ mailServer'[a][b].last = mailServer[a][b].last
          /\ mailServer'[a][b].validity = mailServer[a][b].validity
          /\ \A x \in MailAccounts, y \in Boxes :
               x # a \/ y # b => mailServer'[x][y] = mailServer[x][y]
      BY <1>1, <3>2, <3>4, UnreadSet
    <3> QED BY <3>3, <3>5 DEF box
  <2>3. CASE \E u \in (1 .. box.last) \ box.unread :
               /\ mailServer' = [mailServer EXCEPT ![a][b].unread = box.unread \cup {u}]
               /\ told'.read = told.read \ {<<a, [box |-> b, validity |-> box.validity, uid |-> u]>>}
    <3>1. PICK u \in (1 .. box.last) \ box.unread :
               /\ mailServer' = [mailServer EXCEPT ![a][b].unread = box.unread \cup {u}]
               /\ told'.read = told.read \ {<<a, [box |-> b, validity |-> box.validity, uid |-> u]>>}
      BY <2>3
    <3> DEFINE uids == box.unread \cup {u}
    <3>2. uids \in SUBSET (1 .. mailServer[a][b].last)
      BY <1>1 DEF box
    <3>3. u \in Uids
      BY <1>1, MailAssumption DEF Uids
    <3>4. uids = box.unread \cup {u}
      OBVIOUS
    <3>5. UnreadBecomes(a, b, uids)
      BY <3>1 DEF UnreadBecomes
    <3> HIDE DEF uids
    <3>6. /\ mailServer' \in [MailAccounts -> BoxStates]
          /\ mailServer'[a][b].unread = uids
          /\ mailServer'[a][b].last = mailServer[a][b].last
          /\ mailServer'[a][b].validity = mailServer[a][b].validity
          /\ \A x \in MailAccounts, y \in Boxes :
               x # a \/ y # b => mailServer'[x][y] = mailServer[x][y]
      BY <1>1, <3>2, <3>5, UnreadSet
    <3>7. <<a, [box |-> b, validity |-> box.validity, uid |-> u]>> \notin told'.read
      BY <3>1
    <3> QED BY <3>3, <3>4, <3>6, <3>7 DEF box
  <2>4. CASE /\ box.validity + 1 \in Validities
             /\ mailServer' = [mailServer EXCEPT
                                 ![a][b] = [validity |-> box.validity + 1, last |-> 0, unread |-> {}]]
    <3> DEFINE new == [validity |-> box.validity + 1, last |-> 0, unread |-> {}]
    <3>1. new \in BoxState /\ new.validity = box.validity + 1 /\ new.unread = {}
      BY <2>4, MailAssumption DEF BoxState
    <3>2. mailServer' = [mailServer EXCEPT ![a][b] = new]
      BY <2>4
    <3> HIDE DEF new
    <3>3. /\ mailServer' \in [MailAccounts -> BoxStates] /\ mailServer'[a][b] = new
          /\ \A x \in MailAccounts, y \in Boxes :
               x # a \/ y # b => mailServer'[x][y] = mailServer[x][y]
      BY <1>1, <3>1, <3>2 DEF BoxStates
    <3> QED BY <3>1, <3>3
  <2> QED BY <1>4, <2>1, <2>2, <2>3, <2>4
<1>6. CacheTyped /\ CallsTyped
  BY <1>3, SameCalls DEF BoxChanges, MailTypeOK, CacheTyped
<1>7. MailTypeOK'
  BY <1>2, <1>5, <1>6, TypesOf DEF MailTypeOK, BoxChanges
<1> QED BY <1>1, <1>3, <1>5, <1>7 DEF box

LEMMA TypesStep ==
  ASSUME MailTypeOK, [MailNext]_mailVars
  PROVE  MailTypeOK'
<1>1. CASE UNCHANGED mailVars
  BY <1>1, SameCalls DEF mailVars, MailTypeOK
<1>2. ASSUME NEW s \in MailSlots, Sync(s) PROVE MailTypeOK'
  BY <1>2, SyncTypes
<1>3. ASSUME NEW s \in MailSlots, GetBoxes(s) PROVE MailTypeOK'
  BY <1>3, GetBoxesTypes
<1>4. ASSUME NEW s \in MailSlots, Serve(s) PROVE MailTypeOK'
  BY <1>4, ServeTypes
<1>5. ASSUME NEW s \in MailSlots, CallFails(s) PROVE MailTypeOK'
  BY <1>5, CallFailsIs
<1>6. ASSUME NEW s \in MailSlots, MailAnswer(s) PROVE MailTypeOK'
  BY <1>6, AnswerTypes
<1>7. ASSUME NEW s \in MailSlots, NEW key \in DOMAIN mailCache.mails, MarkRow(s, key) \/ View(s, key)
      PROVE  MailTypeOK'
  BY <1>7, MarkTypes, ViewTypes
<1>8. ASSUME NEW s \in MailSlots, NEW d \in dialogs, MarkDialog(s, d) PROVE MailTypeOK'
  BY <1>8, MarkTypes
<1>9. ASSUME NEW key \in DOMAIN mailCache.mails, Arm(key) PROVE MailTypeOK'
  BY <1>9, ArmIs
<1>10. ASSUME NEW key \in DOMAIN timers, TimerFires(key) PROVE MailTypeOK'
  BY <1>10, TimerFiresIs
<1>11. ASSUME NEW a \in MailAccounts, EditAccount(a) PROVE MailTypeOK'
  BY <1>11, EditAccountTypes
<1>12. ASSUME NEW b \in Boxes, SwitchBox(b) PROVE MailTypeOK'
  BY <1>12, SwitchBoxIs
<1>13. CASE Suspend \/ Resume
  BY <1>13, NetworkTypes
<1>14. ASSUME NEW a \in MailAccounts, NEW b \in Boxes, BoxChanges(a, b) PROVE MailTypeOK'
  BY <1>14, BoxChangesIs
<1> QED BY <1>1, <1>2, <1>3, <1>4, <1>5, <1>6, <1>7, <1>8, <1>9, <1>10, <1>11, <1>12, <1>13, <1>14,
           Zenon DEF MailNext

-----------------------------------------------------------------------------
(* Undisturbed, the page knows what it may know: every step keeps it. *)

\* A call goes on as it was.
GoesOn(c, d) ==
    /\ SameCall(c, d) /\ d.states = c.states /\ d.left = c.left /\ d.result = c.result
    /\ c.late => d.late
    /\ d.step = "list" => c.step = "list"

\* A call is sent, and has brought nothing yet.
IsSent(s) ==
    LET c == mailCall'[s]
    IN /\ c.result = NoBoxes /\ c.connector.account = connector.account
       /\ c.key \in Key => Delivered(connector.account, c.key)
       /\ c.kind \in {"sync", "seen"} => mailCache'.identity = connector'
       /\ c.kind = "sync" => SyncFits(c, Held')
       /\ c.kind = "seen" =>
            /\ c.key \in mailCache'.pending
            /\ \A t \in MailSlots : Seen(t)' /\ t # s /\ mailCall'[t].key = c.key =>
                 c.key \in told'.contested

\* A step of the page: it learns nothing new.
PageStep ==
    /\ mailServer' = mailServer /\ told'.read = told.read
    /\ told.contested \subseteq told'.contested
    /\ connector'.account = connector.account
    /\ Settled(mailCache)' /\ Held' \subseteq Held
    /\ \/ mailCache'.identity = connector'
       \/ mailCache'.identity = mailCache.identity /\ connector' = connector
    /\ \A d \in dialogs' : d \in dialogs
         \/ (d.connector.account = connector.account /\ Delivered(connector.account, d.key))
    /\ \A s \in MailSlots : mailCall'[s] # NoMail =>
         IsSent(s) \/ (mailCall[s] # NoMail /\ GoesOn(mailCall[s], mailCall'[s]))
    /\ \A s \in MailSlots :
         /\ Seen(s)' /\ mailCall[s] # NoMail
         /\ mailCall'[s].key \in mailCache.pending \ mailCache'.pending
         => mailCall'[s].key \in told'.contested

LEMMA GoesOnIs ==
  ASSUME NEW c, NEW d, GoesOn(c, d)
  PROVE  /\ d.kind = c.kind /\ d.key = c.key /\ d.connector = c.connector
         /\ Added(d) = Added(c)
         /\ \A held : SyncFits(c, held) => SyncFits(d, held)
<1>1. /\ d.kind = c.kind /\ d.key = c.key /\ d.connector = c.connector
      /\ Added(d) = Added(c)
  BY DEF GoesOn, SameCall, Added, Covered
<1>2. ASSUME NEW held, SyncFits(c, held) PROVE SyncFits(d, held)
  BY <1>2, FitsStep DEF GoesOn
<1> QED BY <1>1, <1>2

LEMMA PageStepKeeps ==
  ASSUME Undisturbed, PageStep
  PROVE  Undisturbed'
<1>1. ASSUME NEW s \in MailSlots, mailCall'[s] # NoMail, ~IsSent(s)
      PROVE  /\ mailCall[s] # NoMail /\ GoesOn(mailCall[s], mailCall'[s])
             /\ mailCall'[s].kind = mailCall[s].kind /\ mailCall'[s].key = mailCall[s].key
             /\ mailCall'[s].connector = mailCall[s].connector
             /\ Added(mailCall'[s]) = Added(mailCall[s])
  BY <1>1, GoesOnIs DEF PageStep
<1>2. ASSUME NEW s \in MailSlots, IsSent(s)
      PROVE  Added(mailCall'[s]) = {}
  BY <1>2, NoBoxesPartial DEF IsSent, Added, Covered
<1>3. HeldFits'
  <2>1. IsFiniteSet(Held') /\ Cardinality(Held') <= Cardinality(Held)
    BY FS_Subset DEF PageStep, Undisturbed, HeldFits
  <2>2. Cardinality(Held') \in Nat /\ Cardinality(Held) \in Nat
    BY <2>1, FS_CardinalityType DEF Undisturbed, HeldFits
  <2> QED BY <2>1, <2>2, MailAssumption DEF PageStep, Undisturbed, HeldFits
<1>4. SyncsFit'
  <2> SUFFICES ASSUME NEW s \in MailSlots, Timely(s)'
               PROVE  /\ SyncFits(mailCall'[s], Held')
                      /\ \A k \in Added(mailCall'[s]) :
                           <<mailCall'[s].connector.account, k>> \in told'.read =>
                             k \in told'.contested
    BY DEF SyncsFit
  <2>1. mailCall'[s] # NoMail /\ mailCall'[s].kind = "sync" /\ ~mailCall'[s].late
    BY DEF Timely, Out
  <2>2. CASE IsSent(s)
    BY <1>2, <2>1, <2>2 DEF IsSent
  <2>3. CASE ~IsSent(s)
    <3>1. Timely(s) /\ GoesOn(mailCall[s], mailCall'[s])
      BY <1>1, <2>1, <2>3 DEF Timely, Out, GoesOn
    <3>2. SyncFits(mailCall[s], Held)
      BY <3>1 DEF Undisturbed, SyncsFit
    <3>3. SyncFits(mailCall'[s], Held)
      BY <3>1, <3>2, GoesOnIs
    <3>4. SyncFits(mailCall'[s], Held')
      BY <3>3, FitsLess DEF PageStep
    <3>5. \A k \in Added(mailCall[s]) :
            <<mailCall[s].connector.account, k>> \in told.read => k \in told.contested
      BY <3>1 DEF Undisturbed, SyncsFit
    <3> QED BY <1>1, <2>1, <2>3, <3>4, <3>5 DEF PageStep
  <2> QED BY <2>2, <2>3
<1>5. MarksFit'
  <2>1. ASSUME NEW s \in MailSlots, Seen(s)'
        PROVE  mailCall'[s].key \in mailCache'.pending \cup told'.contested
    <3>1. CASE IsSent(s)
      BY <2>1, <3>1 DEF IsSent, Seen, Out
    <3>2. CASE ~IsSent(s)
      <4>1. Seen(s) /\ mailCall'[s].key = mailCall[s].key
        BY <1>1, <2>1, <3>2 DEF Seen, Out
      <4>2. mailCall[s].key \in mailCache.pending \cup told.contested
        BY <4>1 DEF Undisturbed, MarksFit
      <4> QED BY <2>1, <4>1, <4>2 DEF PageStep, Seen, Out
    <3> QED BY <3>1, <3>2
  <2>2. ASSUME NEW s \in MailSlots, NEW t \in MailSlots, Seen(s)', Seen(t)', s # t,
               mailCall'[s].key = mailCall'[t].key
        PROVE  mailCall'[s].key \in told'.contested
    <3>1. CASE IsSent(s) \/ IsSent(t)
      BY <2>2, <3>1 DEF IsSent, Seen, Out
    <3>2. CASE ~IsSent(s) /\ ~IsSent(t)
      <4>1. Seen(s) /\ mailCall'[s].key = mailCall[s].key
        BY <1>1, <2>2, <3>2 DEF Seen, Out
      <4>2. Seen(t) /\ mailCall'[t].key = mailCall[t].key
        BY <1>1, <2>2, <3>2 DEF Seen, Out
      <4>3. mailCall[s].key \in told.contested
        BY <2>2, <4>1, <4>2 DEF Undisturbed, MarksFit
      <4> QED BY <4>1, <4>3 DEF PageStep
    <3> QED BY <3>1, <3>2
  <2> QED BY <2>1, <2>2 DEF MarksFit
<1>6. OneAccount'
  <2>1. \A a, k : Delivered(a, k)' <=> Delivered(a, k)
    BY DEF PageStep, Delivered
  <2>2. ASSUME mailCache'.identity # connector'
        PROVE  Held' = {} /\ \A s \in MailSlots : ~Seen(s)' /\ ~Out(s, "sync")'
    <3>1. mailCache.identity # connector
      BY <2>2 DEF PageStep
    <3>2. Held = {} /\ \A s \in MailSlots : ~Seen(s) /\ ~Out(s, "sync")
      BY <3>1 DEF Undisturbed, OneAccount
    <3>3. ASSUME NEW s \in MailSlots, Seen(s)' \/ Out(s, "sync")' PROVE FALSE
      <4>1. mailCall'[s] # NoMail /\ mailCall'[s].kind \in {"seen", "sync"}
        BY <3>3 DEF Seen, Out
      <4>2. ~IsSent(s)
        BY <2>2, <4>1 DEF IsSent
      <4> QED BY <1>1, <3>2, <4>1, <4>2 DEF Seen, Out
    <3> QED BY <3>2, <3>3 DEF PageStep
  <2>3. \A k \in Held' : Delivered(connector.account, k)
    BY DEF PageStep, Undisturbed, OneAccount
  <2>4. \A d \in dialogs' :
          d.connector.account = connector.account /\ Delivered(connector.account, d.key)
    BY DEF PageStep, Undisturbed, OneAccount
  <2>5. ASSUME NEW s \in MailSlots, mailCall'[s] # NoMail
        PROVE  /\ mailCall'[s].connector.account = connector.account
               /\ mailCall'[s].key \in Key => Delivered(connector.account, mailCall'[s].key)
               /\ \A k \in Added(mailCall'[s]) : Delivered(connector.account, k)
    <3>1. CASE IsSent(s)
      BY <1>2, <3>1 DEF IsSent
    <3>2. CASE ~IsSent(s)
      BY <1>1, <2>5, <3>2 DEF Undisturbed, OneAccount
    <3> QED BY <3>1, <3>2
  <2>6. connector'.account = connector.account
    BY DEF PageStep
  <2> QED BY <2>1, <2>2, <2>3, <2>4, <2>5, <2>6 DEF OneAccount
<1>7. ReadsFit'
  BY DEF PageStep, Undisturbed, ReadsFit, Delivered, Unseen
<1> QED BY <1>3, <1>4, <1>5, <1>6, <1>7 DEF Undisturbed

LEMMA NothingAdded == ASSUME NEW c, c.result = NoBoxes PROVE Added(c) = {} /\ \A k : ~Covered(c, k)
  BY NoBoxesPartial DEF Added, Covered

LEMMA KnownIs ==
  ASSUME NEW c, NEW k \in Key, k \in HeldIn(c), c.mailboxes[k.box] = k.validity,
         k.box \in DOMAIN c.mailboxes
  PROVE  k.box \in DOMAIN States(c) /\ States(c)[k.box].validity = k.validity
           /\ k.uid \in States(c)[k.box].known
<1>1. k.uid \in KnownUids(c, k.box)
  BY DEF KnownUids, HeldIn
<1> QED BY <1>1 DEF States

\* A sync names everything the page knows.
LEMMA AskedForFits ==
  ASSUME IsCache(mailCache), connector \in Connector, Settled(mailCache)
  PROVE  SyncFits(AskedFor, HeldIn(Prepared))
<1> DEFINE held == HeldIn(Prepared)
<1>1. Settled(Prepared) /\ IsCache(Prepared) /\ held \subseteq Key
  BY PreparedLess, CacheFields
<1>2. /\ AskedFor.result = NoBoxes /\ AskedFor.left = HeaderMaximum
      /\ AskedFor.step = "list" <=> Prepared.mailboxes = NoMail
      /\ AskedFor.states = IF Prepared.mailboxes = NoMail THEN NoBoxes ELSE States(Prepared)
  BY AskedForTyped
<1>3. AskedFor.step = "list" => held = {}
  BY <1>1, <1>2 DEF Settled
<1>4. ASSUME NEW k \in held, k.box \in DOMAIN AskedFor.states
      PROVE  AskedFor.states[k.box].validity = k.validity /\ k.uid \in AskedFor.states[k.box].known
  <2>1. Prepared.mailboxes # NoMail
    BY <1>1, <1>4 DEF Settled
  <2>2. k.box \in DOMAIN Prepared.mailboxes /\ Prepared.mailboxes[k.box] = k.validity /\ k \in Key
    BY <1>1, <2>1 DEF Settled
  <2> QED BY <1>2, <2>1, <2>2, KnownIs
<1>5. Added(AskedFor) = {} /\ \A k : ~Covered(AskedFor, k)
  BY <1>2, NothingAdded
<1>6. IsFiniteSet({}) /\ Cardinality({}) + AskedFor.left <= HeaderMaximum
  BY <1>2, FS_EmptySet, MailAssumption
<1> HIDE DEF held
<1>7. {} \in SUBSET Key
  OBVIOUS
<1> QED BY <1>3, <1>4, <1>5, <1>6, <1>7 DEF SyncFits, held

LEMMA CallsStay ==
  ASSUME NEW c PROVE GoesOn(c, c)
  BY DEF GoesOn, SameCall

LEMMA Before ==
  ASSUME MailInv, ~told.disturbed
  PROVE  Undisturbed /\ Settled(mailCache) /\ IsCache(mailCache) /\ connector \in Connector
         /\ told \in History /\ Held \subseteq Key
  BY CacheFields DEF MailInv, MailTypeOK, Undisturbed, HeldFits, Held

LEMMA SyncKeeps ==
  ASSUME MailInv, ~told.disturbed, NEW s \in MailSlots, Sync(s)
  PROVE  PageStep
<1>1. /\ Undisturbed /\ Settled(mailCache) /\ IsCache(mailCache) /\ connector \in Connector
      /\ MailTypeOK
  BY Before DEF MailInv
<1>2. /\ mailCache' = Prepared /\ mailServer' = mailServer /\ told' = told
      /\ connector' = connector /\ dialogs' = dialogs
  BY DEF Sync
<1>3. /\ Prepared.identity = connector /\ HeldIn(Prepared) \subseteq Held /\ Settled(Prepared)
      /\ mailCache.identity = connector => Prepared.pending = mailCache.pending
  BY <1>1, PreparedLess
<1>4. mailCall' = mailCall \/ Send(s, AskedFor)
  BY DEF Sync, AskedFor
<1>5. ASSUME NEW t \in MailSlots, mailCall'[t] # NoMail
      PROVE  IsSent(t) \/ (mailCall[t] # NoMail /\ GoesOn(mailCall[t], mailCall'[t]))
  <2>1. CASE mailCall'[t] = mailCall[t]
    BY <1>5, <2>1, CallsStay
  <2>2. CASE mailCall'[t] # mailCall[t]
    <3>1. t = s /\ mailCall'[s] = AskedFor
      BY <1>1, <1>4, <2>2, SendTyped, AskedForTyped
    <3>2. /\ AskedFor.kind = "sync" /\ AskedFor.connector = connector /\ AskedFor.key = NoMail
          /\ AskedFor.result = NoBoxes
      BY <1>1, AskedForTyped
    <3>3. SyncFits(AskedFor, Held')
      BY <1>1, <1>2, AskedForFits DEF Held
    <3>4. NoMail \notin Key
      BY MailAssumption
    <3> QED BY <1>2, <1>3, <3>1, <3>2, <3>3, <3>4 DEF IsSent
  <2> QED BY <2>1, <2>2
<1>6. ASSUME NEW t \in MailSlots, Seen(t)', mailCall[t] # NoMail,
             mailCall'[t].key \in mailCache.pending \ mailCache'.pending
      PROVE  FALSE
  <2>1. mailCache.identity # connector
    BY <1>2, <1>3, <1>6
  <2>2. ~Seen(t)
    BY <1>1, <2>1 DEF Undisturbed, OneAccount
  <2>3. mailCall'[t] = mailCall[t]
    BY <1>1, <1>4, <1>6, SendTyped, AskedForTyped
  <2> QED BY <1>6, <2>2, <2>3 DEF Seen, Out
<1> QED BY <1>2, <1>3, <1>5, <1>6 DEF PageStep, Held

LEMMA GetBoxesKeeps ==
  ASSUME MailInv, ~told.disturbed, NEW s \in MailSlots, GetBoxes(s)
  PROVE  PageStep
<1>1. Undisturbed /\ Settled(mailCache) /\ MailTypeOK
  BY Before DEF MailInv
<1>2. /\ mailCache' = mailCache /\ mailServer' = mailServer /\ told' = told
      /\ connector' = connector /\ dialogs' = dialogs
  BY DEF GetBoxes
<1>3. mailCall'[s] = NewCall("list") /\ IsMailCall(NewCall("list")) 
      /\ \A t \in MailSlots : t # s => mailCall'[t] = mailCall[t]
  BY <1>1, SendTyped, GetBoxesTypes DEF GetBoxes
<1>4. NewCall("list").key \notin Key /\ NewCall("list").result = NoBoxes
      /\ NewCall("list").kind = "list" /\ NewCall("list").connector = connector
  BY MailAssumption DEF NewCall
<1>5. ASSUME NEW t \in MailSlots, mailCall'[t] # NoMail
      PROVE  IsSent(t) \/ (mailCall[t] # NoMail /\ GoesOn(mailCall[t], mailCall'[t]))
  BY <1>3, <1>4, <1>5, CallsStay DEF IsSent
<1> QED BY <1>1, <1>2, <1>5 DEF PageStep, Held

LEMMA ViewKeeps ==
  ASSUME MailInv, ~told.disturbed, NEW s \in MailSlots, NEW key \in DOMAIN mailCache.mails,
         View(s, key)
  PROVE  PageStep
<1>1. Undisturbed /\ Settled(mailCache) /\ MailTypeOK
  BY Before DEF MailInv
<1>2. /\ mailCache' = mailCache /\ mailServer' = mailServer /\ told' = told
      /\ connector' = connector /\ dialogs' = dialogs
  BY DEF View
<1>3. /\ mailCall'[s].key = key /\ mailCall'[s].kind = "content"
      /\ mailCall'[s].connector = connector /\ mailCall'[s].result = NoBoxes
  BY <1>1, ViewTypes
<1>4. \A t \in MailSlots : t # s => mailCall'[t] = mailCall[t]
  BY <1>1, SlotSet DEF View, Send
<1>5. Delivered(connector.account, key)
  BY <1>1 DEF Undisturbed, OneAccount, Held, HeldIn
<1>6. ASSUME NEW t \in MailSlots, mailCall'[t] # NoMail
      PROVE  IsSent(t) \/ (mailCall[t] # NoMail /\ GoesOn(mailCall[t], mailCall'[t]))
  BY <1>3, <1>4, <1>5, <1>6, CallsStay DEF IsSent
<1> QED BY <1>1, <1>2, <1>6 DEF PageStep, Held

LEMMA MarkKeeps ==
  ASSUME MailInv, ~told'.disturbed, NEW s \in MailSlots, NEW key \in Key, NEW conn \in Connector,
         Mark(s, key, conn), dialogs' \subseteq dialogs, mailServer' = mailServer,
         connector' = connector, conn.account = connector.account
  PROVE  ~told.disturbed /\ PageStep
<1>1. MailTypeOK /\ told \in History
  BY DEF MailInv, MailTypeOK
<1>2. /\ ~told.disturbed /\ key \in Held /\ told'.read = told.read
      /\ told.contested \subseteq told'.contested
      /\ Marking(key) => key \in told'.contested
  BY <1>1 DEF Mark, History, Held, HeldIn
<1>3. Undisturbed /\ Settled(mailCache)
  BY <1>2, Before
<1>4. /\ Send(s, MarkCall(key, conn))
      /\ mailCache'.pending = mailCache.pending \cup {key}
      /\ DOMAIN mailCache'.mails = DOMAIN mailCache.mails \ {key}
      /\ mailCache'.mailboxes = mailCache.mailboxes
      /\ mailCache'.identity = mailCache.identity
  BY <1>1, MarkIs
<1>5. LET c == MarkCall(key, conn)
      IN /\ IsMailCall(c) /\ c.kind = "seen" /\ c.connector = conn /\ c.key = key
         /\ c.result = NoBoxes
  BY <1>1, MarkCallIs
<1>6. mailCall[s] = NoMail /\ mailCall'[s] = MarkCall(key, conn)
      /\ \A t \in MailSlots : t # s => mailCall'[t] = mailCall[t]
  BY <1>1, <1>4, <1>5, SendTyped
<1>7. HeldIn(mailCache') = HeldIn(mailCache)
  BY <1>2, <1>4 DEF HeldIn, Held
<1>8. Settled(mailCache')
  BY <1>3, <1>4, <1>7 DEF Settled
<1>9. mailCache.identity = connector /\ Delivered(connector.account, key)
  BY <1>2, <1>3 DEF Undisturbed, OneAccount
<1>10. \A t \in MailSlots : Seen(t)' /\ t # s /\ mailCall'[t].key = key => key \in told'.contested
  BY <1>2, <1>6 DEF Marking, Seen, Out
<1>11. IsSent(s)
  BY <1>4, <1>5, <1>6, <1>9, <1>10 DEF IsSent
<1>12. ASSUME NEW t \in MailSlots, mailCall'[t] # NoMail
       PROVE  IsSent(t) \/ (mailCall[t] # NoMail /\ GoesOn(mailCall[t], mailCall'[t]))
  BY <1>6, <1>11, <1>12, CallsStay
<1>13. mailCache'.identity = mailCache.identity /\ connector' = connector
         /\ connector'.account = connector.account
  BY <1>4
<1>14. \A t \in MailSlots : mailCall'[t].key \notin mailCache.pending \ mailCache'.pending
  BY <1>4
<1> QED BY <1>2, <1>7, <1>8, <1>12, <1>13, <1>14 DEF PageStep, Held

\* Timers, dialogs and the network: what is known and what is asked for stay.
LEMMA QuietKeeps ==
  ASSUME MailInv, ~told.disturbed, told' = told, mailCall' = mailCall, mailServer' = mailServer,
         connector' = connector, dialogs' = dialogs, mailCache'.identity = mailCache.identity,
         mailCache'.mailboxes = mailCache.mailboxes, mailCache'.pending = mailCache.pending,
         DOMAIN mailCache'.mails = DOMAIN mailCache.mails
  PROVE  PageStep
<1>1. Settled(mailCache)
  BY Before
<1>2. HeldIn(mailCache') = HeldIn(mailCache) /\ Settled(mailCache')
  BY <1>1 DEF HeldIn, Settled
<1>3. \A t \in MailSlots : GoesOn(mailCall[t], mailCall'[t])
  BY CallsStay
<1> QED BY <1>2, <1>3 DEF PageStep, Held

LEMMA CallFailsKeeps ==
  ASSUME MailInv, ~told.disturbed, NEW s \in MailSlots, CallFails(s)
  PROVE  PageStep
<1>1. MailTypeOK /\ Settled(mailCache)
  BY Before DEF MailInv
<1>2. ASSUME NEW t \in MailSlots, mailCall'[t] # NoMail
      PROVE  mailCall[t] # NoMail /\ GoesOn(mailCall[t], mailCall'[t])
  BY <1>1, <1>2, CallFailsIs, CallsStay DEF GoesOn
<1> QED BY <1>1, <1>2 DEF PageStep, CallFails, Held

\* Boxes listed or selected anew: the marks they take off the page are contested.
LEMMA TopologyKeeps ==
  ASSUME MailInv, ~told.disturbed, Settled(mailCache)', Held' \subseteq Held,
         mailCache'.identity = connector', connector'.account = connector.account,
         mailServer' = mailServer, dialogs' \subseteq dialogs,
         told' = [told EXCEPT !.contested = @ \cup TakenOff],
         \A t \in MailSlots : mailCall'[t] # NoMail =>
           mailCall[t] # NoMail /\ GoesOn(mailCall[t], mailCall'[t])
  PROVE  PageStep
<1>1. told'.read = told.read /\ told'.contested = told.contested \cup TakenOff
  BY Before DEF History
<1>2. ASSUME NEW t \in MailSlots, Seen(t)',
             mailCall'[t].key \in mailCache.pending \ mailCache'.pending
      PROVE  mailCall'[t].key \in told'.contested
  <2>1. Seen(t) /\ mailCall[t].key = mailCall'[t].key
    BY <1>2 DEF Seen, Out, GoesOn, SameCall
  <2>2. Marking(mailCall'[t].key)
    BY <2>1 DEF Marking, Seen
  <2> QED BY <1>1, <1>2, <2>2 DEF TakenOff
<1> QED BY <1>1, <1>2 DEF PageStep

LEMMA SwitchBoxKeeps ==
  ASSUME MailInv, ~told.disturbed, NEW b \in Boxes, SwitchBox(b)
  PROVE  PageStep
<1>1. /\ connector'.account = connector.account /\ mailCache'.identity = connector'
      /\ Settled(mailCache)' /\ Held' \subseteq Held
  BY SwitchBoxIs DEF MailInv
<1>2. \A t \in MailSlots : GoesOn(mailCall[t], mailCall'[t])
  BY CallsStay DEF SwitchBox
<1> QED BY <1>1, <1>2, TopologyKeeps DEF SwitchBox

LEMMA AnswerKeeps ==
  ASSUME MailInv, ~told.disturbed, ~told'.disturbed, NEW s \in MailSlots, MailAnswer(s),
         ~AnswersSync(mailCall[s])
  PROVE  PageStep
<1> DEFINE c == mailCall[s]
<1>1. /\ MailTypeOK /\ Settled(mailCache) /\ IsCache(mailCache) /\ Undisturbed
      /\ connector \in Connector /\ told \in History
  BY Before DEF MailInv
<1>2. /\ c # NoMail /\ IsMailCall(c) /\ mailCall'[s] = NoMail
      /\ \A t \in MailSlots : mailCall'[t] # NoMail =>
           mailCall[t] # NoMail /\ GoesOn(mailCall[t], mailCall'[t])
  BY <1>1, AnswerEnds DEF GoesOn
<1>3. mailServer' = mailServer
  BY DEF MailAnswer
<1>4. CASE AnswersMark(c)
  <2>1. /\ c.kind = "seen" /\ AnswerSeen(c) /\ c.key \in Key /\ Seen(s)
        /\ connector' = connector /\ dialogs' = dialogs
    BY <1>2, <1>4, CallFields DEF AnswersMark, AnswerSeen, Seen, Out
  <2>2. /\ mailCache'.identity = mailCache.identity
        /\ mailCache'.mailboxes = mailCache.mailboxes
        /\ mailCache'.pending = mailCache.pending \/ mailCache'.pending = mailCache.pending \ {c.key}
        /\ DOMAIN mailCache'.mails = DOMAIN mailCache.mails
             \/ (c.step # "ok" /\ DOMAIN mailCache'.mails \subseteq DOMAIN mailCache.mails \cup {c.key})
    BY <1>1, <1>2, <2>1, RollbackIs, CommitIs DEF AnswerSeen
  <2>3. told'.read = told.read /\ told'.contested = told.contested
        /\ (c.step # "ok" => c.key \in mailCache.pending)
    BY <1>1, <2>1 DEF AnswerSeen, History
  <2>4. HeldIn(mailCache') \subseteq HeldIn(mailCache)
    BY <2>2, <2>3 DEF HeldIn
  <2>5. Settled(mailCache')
    BY <1>1, <2>2, <2>4 DEF Settled
  <2>6. ASSUME NEW t \in MailSlots, Seen(t)',
               mailCall'[t].key \in mailCache.pending \ mailCache'.pending
        PROVE  mailCall'[t].key \in told'.contested
    <3>1. Seen(t) /\ mailCall[t].key = mailCall'[t].key /\ t # s
      BY <1>2, <2>6 DEF Seen, Out, GoesOn, SameCall
    <3>2. mailCall[t].key = c.key
      BY <2>2, <2>6, <3>1
    <3> QED BY <1>1, <2>1, <2>3, <3>1, <3>2 DEF Undisturbed, MarksFit
  <2> QED BY <1>2, <1>3, <2>1, <2>2, <2>3, <2>4, <2>5, <2>6 DEF PageStep, Held
<1>5. CASE AnswersContent(c)
  <2>1. /\ c.kind = "content" /\ c.key \in Key
        /\ dialogs' = dialogs \cup {[key |-> c.key, connector |-> c.connector]}
        /\ connector' = connector /\ mailCache' = mailCache /\ told' = told
    BY <1>2, <1>5, CallFields DEF AnswersContent, AnswerContent
  <2>2. c.connector.account = connector.account /\ Delivered(connector.account, c.key)
    BY <1>1, <1>2, <2>1 DEF Undisturbed, OneAccount
  <2>3. \A d \in dialogs' : d \in dialogs
          \/ (d.connector.account = connector.account /\ Delivered(connector.account, d.key))
    BY <2>1, <2>2
  <2> QED BY <1>1, <1>2, <1>3, <2>1, <2>3 DEF PageStep, Held
<1>6. CASE AnswersList(c)
  <2>1. /\ connector' = boxSelection_migrate(connector, Boxes)
        /\ mailCache' = topology_set(mailCache, Boxes, connector')
        /\ told' = [told EXCEPT !.contested = @ \cup TakenOff] /\ dialogs' = dialogs
    BY <1>6 DEF AnswersList, AnswerList
  <2>2. connector' \in Connector /\ connector'.account = connector.account
    BY <1>1, <2>1, MigrateTyped
  <2>3. /\ mailCache'.identity = connector' /\ Settled(mailCache')
        /\ HeldIn(mailCache') \subseteq HeldIn(mailCache)
    <3>1. Boxes \in SUBSET Boxes
      OBVIOUS
    <3> QED BY <1>1, <2>1, <2>2, <3>1, TopologyLess
  <2> QED BY <1>2, <1>3, <2>1, <2>2, <2>3, TopologyKeeps DEF Held
<1>7. CASE AnswersNothing(c)
  BY <1>1, <1>2, <1>3, <1>7 DEF AnswersNothing, PageStep, Held
<1> QED BY <1>4, <1>5, <1>6, <1>7, AnswerCases

\* An answer to a sync leaves no more than the request to the proxy may name, and nothing of
\* the messages marked read for this page that is not contested.
LEMMA AnswerSyncKeeps ==
  ASSUME MailInv, ~told.disturbed, ~told'.disturbed, NEW s \in MailSlots, MailAnswer(s),
         AnswersSync(mailCall[s])
  PROVE  /\ Undisturbed'
         /\ \A k \in DOMAIN mailCache'.mails \ DOMAIN mailCache.mails :
              <<connector.account, k>> \in told.read => k \in told.contested
<1> DEFINE c == mailCall[s]
<1>1. /\ MailTypeOK /\ Settled(mailCache) /\ IsCache(mailCache) /\ Undisturbed
      /\ connector \in Connector /\ told \in History
  BY Before DEF MailInv
<1>2. /\ c # NoMail /\ IsMailCall(c) /\ mailCall'[s] = NoMail
      /\ \A t \in MailSlots : mailCall'[t] # NoMail =>
           /\ mailCall[t] # NoMail /\ GoesOn(mailCall[t], mailCall'[t])
           /\ mailCall'[t].kind = "sync" => mailCall'[t].late
  BY <1>1, AnswerEnds DEF GoesOn
<1>3. /\ c.kind = "sync" /\ connector' = connector /\ dialogs' = dialogs
      /\ mailServer' = mailServer
      /\ mailCache' = sync_apply(mailCache, c.result, c.connector.account)
      /\ told' = [told EXCEPT !.contested = @ \cup TakenOff,
                              !.disturbed = @ \/ c.late \/ c.connector # connector]
  BY DEF AnswersSync, AnswerSync, MailAnswer
<1>4. /\ told'.contested = told.contested \cup TakenOff /\ told'.read = told.read
      /\ ~c.late /\ c.connector = connector
  BY <1>1, <1>3 DEF History
<1>5. /\ Timely(s) /\ mailCache.identity = connector
  BY <1>1, <1>2, <1>3, <1>4 DEF Timely, Out, Undisturbed, OneAccount
<1>6. /\ SyncFits(c, Held)
      /\ \A k \in Added(c) : <<connector.account, k>> \in told.read => k \in told.contested
      /\ \A k \in Added(c) : Delivered(connector.account, k)
  BY <1>1, <1>2, <1>4, <1>5 DEF Undisturbed, SyncsFit, OneAccount
<1>7. /\ IsCache(mailCache') /\ mailCache'.identity = mailCache.identity /\ Settled(mailCache')
      /\ \A k \in HeldIn(mailCache') :
           Brings(c.result, k) \/ (k \in HeldIn(mailCache) /\ Leaves(c.result, k))
      /\ \A k \in DOMAIN mailCache'.mails \ DOMAIN mailCache.mails : Brings(c.result, k)
  <2>1. Results(c.result) /\ c.connector.account \in MailAccounts
    BY <1>2, CallFields DEF Connector
  <2> QED BY <1>1, <1>3, <2>1, AppliedIs
<1>8. HeldIn(mailCache') \subseteq Key /\ DOMAIN mailCache'.mails \subseteq Key
  BY <1>7, CacheFields
<1>9. \A k \in Key : Brings(c.result, k) => k \in Added(c)
  BY DEF Brings, Added, Covered
<1>10. \A k \in HeldIn(mailCache') :
         k \in Added(c) \/ (k \in Held /\ Covered(c, k) /\ k.uid \notin c.result[k.box].removed)
  BY <1>7, <1>8, <1>9 DEF Leaves, Covered, Held
<1>11. HeldFits'
  <2>1. PICK kept \in SUBSET Key :
          /\ IsFiniteSet(kept) /\ Cardinality(kept) + c.left <= HeaderMaximum
          /\ Added(c) \subseteq kept
          /\ \A k \in Held : Covered(c, k) => k.uid \in c.result[k.box].removed \/ k \in kept
    BY <1>6 DEF SyncFits
  <2>2. HeldIn(mailCache') \subseteq kept
    BY <1>10, <2>1
  <2>3. IsFiniteSet(HeldIn(mailCache')) /\ Cardinality(HeldIn(mailCache')) <= Cardinality(kept)
    BY <2>1, <2>2, FS_Subset
  <2>4. Cardinality(HeldIn(mailCache')) \in Nat /\ Cardinality(kept) \in Nat /\ c.left \in Nat
    BY <1>2, <2>1, <2>3, FS_CardinalityType, CallFields, MailAssumption
  <2> QED BY <1>7, <2>1, <2>3, <2>4, MailAssumption DEF HeldFits, Held
<1>12. SyncsFit'
  BY <1>2 DEF SyncsFit, Timely, Out
<1>13. ASSUME NEW t \in MailSlots, Seen(t)'
       PROVE  Seen(t) /\ mailCall'[t].key = mailCall[t].key
  BY <1>2, <1>13 DEF Seen, Out, GoesOn, SameCall
<1>14. MarksFit'
  <2>1. ASSUME NEW t \in MailSlots, Seen(t)'
        PROVE  mailCall'[t].key \in mailCache'.pending \cup told'.contested
    <3>1. mailCall[t].key \in mailCache.pending \cup told.contested /\ Marking(mailCall[t].key)
      BY <1>1, <1>13, <2>1 DEF Undisturbed, MarksFit, Marking, Seen
    <3> QED BY <1>4, <1>13, <2>1, <3>1 DEF TakenOff
  <2>2. ASSUME NEW t \in MailSlots, NEW u \in MailSlots, Seen(t)', Seen(u)', t # u,
               mailCall'[t].key = mailCall'[u].key
        PROVE  mailCall'[t].key \in told'.contested
    BY <1>1, <1>4, <1>13, <2>2 DEF Undisturbed, MarksFit
  <2> QED BY <2>1, <2>2 DEF MarksFit
<1>15. OneAccount'
  <2>1. \A a, k : Delivered(a, k)' <=> Delivered(a, k)
    BY <1>3 DEF Delivered
  <2>2. \A k \in HeldIn(mailCache') : Delivered(connector.account, k)
    BY <1>1, <1>6, <1>10 DEF Undisturbed, OneAccount
  <2>3. ASSUME NEW t \in MailSlots, mailCall'[t] # NoMail
        PROVE  /\ mailCall'[t].connector.account = connector.account
               /\ mailCall'[t].key \in Key => Delivered(connector.account, mailCall'[t].key)
               /\ \A k \in Added(mailCall'[t]) : Delivered(connector.account, k)
    BY <1>1, <1>2, <2>3, GoesOnIs DEF Undisturbed, OneAccount
  <2>4. \A d \in dialogs' :
          d.connector.account = connector.account /\ Delivered(connector.account, d.key)
    BY <1>1, <1>3 DEF Undisturbed, OneAccount
  <2>5. mailCache'.identity = connector' /\ connector' = connector
    BY <1>3, <1>5, <1>7
  <2> QED BY <2>1, <2>2, <2>3, <2>4, <2>5 DEF OneAccount, Held
<1>16. ReadsFit'
  BY <1>1, <1>3, <1>4 DEF Undisturbed, ReadsFit, Delivered, Unseen
<1>17. \A k \in DOMAIN mailCache'.mails \ DOMAIN mailCache.mails :
         <<connector.account, k>> \in told.read => k \in told.contested
  BY <1>6, <1>7, <1>8, <1>9
<1> QED BY <1>11, <1>12, <1>14, <1>15, <1>16, <1>17 DEF Undisturbed

\* A mark that is stored is not unread any more, and no sync brings it.
LEMMA ServeKeeps ==
  ASSUME MailInv, ~told.disturbed, NEW s \in MailSlots, Serve(s)
  PROVE  Undisturbed'
<1> DEFINE c == mailCall[s]
           d == mailCall'[s]
           a == c.connector.account
           stored == c.kind = "seen" /\ d.step = "ok"
<1>1. MailTypeOK /\ Undisturbed /\ told \in History /\ Held \subseteq Key
  BY Before DEF MailInv
<1>2. /\ mailCache' = mailCache /\ connector' = connector /\ dialogs' = dialogs
  BY DEF Serve
<1>3. /\ c # NoMail /\ IsMailCall(c) /\ c.step \in {"sent", "list"} /\ d \in Served(c)
      /\ SameCall(c, d) /\ \A t \in MailSlots : t # s => mailCall'[t] = mailCall[t]
  BY <1>1, ServeIs
<1>4. /\ d.late = c.late
      /\ \A k \in Added(d) : k \in Added(c) \/ Unseen(a, k)
      /\ SyncFits(c, Held) => SyncFits(d, Held)
      /\ d.kind = c.kind /\ d.key = c.key /\ d.connector = c.connector
  BY <1>1, <1>3, ServedFits DEF MailTypeOK, SameCall
<1>5. a \in MailAccounts /\ a = connector.account
  BY <1>1, <1>3, CallFields DEF Connector, Undisturbed, OneAccount
<1>6. stored => c.key \in Key /\ Seen(s) /\ Delivered(a, c.key)
  BY <1>1, <1>3, <1>5, CallFields DEF Undisturbed, OneAccount, Seen, Out
<1>7. /\ \A x \in MailAccounts, k \in Key : Delivered(x, k)' <=> Delivered(x, k)
      /\ \A x \in MailAccounts, k \in Key : Unseen(x, k)' => Unseen(x, k)
      /\ \A x, k : stored /\ x = a /\ k = c.key => ~Unseen(x, k)'
      /\ told'.contested = told.contested
      /\ told'.read = IF stored THEN told.read \cup {<<a, c.key>>} ELSE told.read
  <2>1. CASE ~stored
    BY <1>1, <2>1, MarkStored DEF Delivered, Unseen
  <2>2. CASE stored
    <3> DEFINE key == c.key
               uids == mailServer[a][key.box].unread \ {key.uid}
    <3>1. /\ key \in Key
          /\ mailServer' = [mailServer EXCEPT ![a][key.box].unread = uids]
          /\ told' = [told EXCEPT !.read = @ \cup {<<a, key>>}]
      BY <1>1, <2>2, MarkStored
    <3>2. mailServer[a][key.box] \in BoxState /\ key.box \in Boxes
      BY <1>1, <1>5, <3>1 DEF MailTypeOK, BoxStates, Key
    <3>3. uids \in SUBSET (1 .. mailServer[a][key.box].last)
      BY <3>2 DEF BoxState
    <3>4. uids = mailServer[a][key.box].unread \ {key.uid}
      OBVIOUS
    <3>5. UnreadBecomes(a, key.box, uids)
      BY <3>1 DEF UnreadBecomes
    <3>6. told'.contested = told.contested /\ told'.read = told.read \cup {<<a, key>>}
      BY <1>1, <3>1 DEF History
    <3> HIDE DEF uids
    <3>7. /\ mailServer'[a][key.box].unread = uids
          /\ mailServer'[a][key.box].last = mailServer[a][key.box].last
          /\ mailServer'[a][key.box].validity = mailServer[a][key.box].validity
          /\ \A x \in MailAccounts, y \in Boxes :
               x # a \/ y # key.box => mailServer'[x][y] = mailServer[x][y]
      BY <1>1, <1>5, <3>2, <3>3, <3>5, UnreadSet DEF MailTypeOK
    <3>8. \A x \in MailAccounts, k \in Key :
            /\ mailServer'[x][k.box].validity = mailServer[x][k.box].validity
            /\ mailServer'[x][k.box].last = mailServer[x][k.box].last
            /\ mailServer'[x][k.box].unread \subseteq mailServer[x][k.box].unread
      <4> TAKE x \in MailAccounts, k \in Key
      <4>1. k.box \in Boxes
        BY DEF Key
      <4>2. CASE x = a /\ k.box = key.box
        BY <3>4, <3>7, <4>2
      <4>3. CASE x # a \/ k.box # key.box
        BY <3>7, <4>1, <4>3
      <4> QED BY <4>2, <4>3
    <3>9. key.uid \notin mailServer'[a][key.box].unread
      BY <3>4, <3>7
    <3>10. /\ \A x \in MailAccounts, k \in Key : Delivered(x, k)' <=> Delivered(x, k)
           /\ \A x \in MailAccounts, k \in Key : Unseen(x, k)' => Unseen(x, k)
      <4> HIDE DEF key, a
      <4> QED BY <3>8 DEF Delivered, Unseen
    <3>11. \A x, k : x = a /\ k = c.key => ~Unseen(x, k)'
      BY <3>9 DEF Unseen
    <3> HIDE DEF stored, a
    <3> QED BY <2>2, <3>6, <3>10, <3>11
  <2> QED BY <2>1, <2>2
<1> HIDE DEF stored
<1>8. stored => c.kind = "seen"
  BY DEF stored
<1>9. \A t \in MailSlots : \A k \in Added(mailCall'[t]) :
        k \in Key /\ (k \in Added(mailCall[t]) \/ (t = s /\ Unseen(a, k)))
  BY <1>3, <1>4 DEF Added
<1>10. HeldFits'
  BY <1>1, <1>2 DEF Undisturbed, HeldFits, Held
<1>11. SyncsFit'
  <2> SUFFICES ASSUME NEW t \in MailSlots, Timely(t)'
               PROVE  /\ SyncFits(mailCall'[t], Held')
                      /\ \A k \in Added(mailCall'[t]) :
                           <<mailCall'[t].connector.account, k>> \in told'.read =>
                             k \in told'.contested
    BY DEF SyncsFit
  <2>1. Timely(t) /\ mailCall'[t].connector = mailCall[t].connector /\ Held' = Held
        /\ mailCall[t].kind = "sync"
    BY <1>2, <1>3, <1>4 DEF Timely, Out, Held
  <2>2. /\ SyncFits(mailCall[t], Held)
        /\ \A k \in Added(mailCall[t]) :
             <<mailCall[t].connector.account, k>> \in told.read => k \in told.contested
    BY <1>1, <2>1 DEF Undisturbed, SyncsFit
  <2>3. SyncFits(mailCall'[t], Held)
    BY <1>3, <1>4, <2>2
  <2>4. ASSUME NEW k \in Added(mailCall'[t]),
               <<mailCall'[t].connector.account, k>> \in told'.read
        PROVE  k \in told'.contested
    <3>1. CASE <<mailCall[t].connector.account, k>> \in told.read
      <4>1. CASE k \in Added(mailCall[t])
        BY <1>7, <2>2, <3>1, <4>1
      <4>2. CASE t = s /\ Unseen(a, k)
        BY <1>1, <1>5, <1>9, <3>1, <4>2 DEF Undisturbed, ReadsFit
      <4> QED BY <1>9, <4>1, <4>2
    <3>2. CASE <<mailCall[t].connector.account, k>> \notin told.read
      <4>1. stored /\ k = c.key /\ t # s
        BY <1>7, <1>8, <2>1, <2>4, <3>2
      <4>2. k \in Added(mailCall[t])
        BY <1>9, <4>1
      <4>3. k \notin Held
        BY <2>2, <4>2 DEF SyncFits
      <4>4. k \in mailCache.pending \cup told.contested
        BY <1>1, <1>6, <4>1 DEF Undisturbed, MarksFit
      <4> QED BY <1>7, <4>3, <4>4 DEF Held, HeldIn
    <3> QED BY <3>1, <3>2
  <2> QED BY <2>1, <2>3, <2>4
<1>12. MarksFit'
  <2>1. \A t \in MailSlots : Seen(t)' => Seen(t) /\ mailCall'[t].key = mailCall[t].key
    BY <1>3, <1>4 DEF Seen, Out
  <2> QED BY <1>1, <1>2, <1>7, <2>1 DEF Undisturbed, MarksFit
<1>13. OneAccount'
  <2>1. connector.account \in MailAccounts
    BY <1>5
  <2>2. ASSUME NEW k \in Key, Unseen(a, k) PROVE Delivered(connector.account, k)
    <3>1. mailServer[a][k.box] \in BoxState
      BY <1>1, <1>5 DEF MailTypeOK, BoxStates, Key
    <3>2. mailServer[a][k.box].unread \subseteq 1 .. mailServer[a][k.box].last
      BY <3>1 DEF BoxState
    <3>3. k.uid \in 1 .. mailServer[a][k.box].last
      BY <2>2, <3>2 DEF Unseen
    <3>4. k.uid <= mailServer[a][k.box].last
      BY <3>3
    <3> QED BY <1>5, <2>2, <3>4 DEF Unseen, Delivered
  <2>3. ASSUME NEW t \in MailSlots, mailCall'[t] # NoMail
        PROVE  /\ mailCall'[t].connector.account = connector.account
               /\ mailCall'[t].key \in Key => Delivered(connector.account, mailCall'[t].key)
               /\ \A k \in Added(mailCall'[t]) : Delivered(connector.account, k)
    <3>1. /\ mailCall[t] # NoMail /\ mailCall'[t].connector = mailCall[t].connector
          /\ mailCall'[t].key = mailCall[t].key
      BY <1>3, <1>4, <2>3
    <3>2. /\ mailCall[t].connector.account = connector.account
          /\ mailCall[t].key \in Key => Delivered(connector.account, mailCall[t].key)
          /\ \A k \in Added(mailCall[t]) : Delivered(connector.account, k)
      BY <1>1, <3>1 DEF Undisturbed, OneAccount
    <3> QED BY <1>9, <2>2, <3>1, <3>2
  <2>4. /\ \A k \in Held : Delivered(connector.account, k)
        /\ \A e \in dialogs : e.connector.account = connector.account
                              /\ e.key \in Key /\ Delivered(connector.account, e.key)
        /\ mailCache.identity # connector =>
             Held = {} /\ \A t \in MailSlots : ~Seen(t) /\ ~Out(t, "sync")
    BY <1>1 DEF Undisturbed, OneAccount, MailTypeOK
  <2>5. \A t \in MailSlots : (Seen(t)' => Seen(t)) /\ (Out(t, "sync")' => Out(t, "sync"))
    BY <1>3, <1>4 DEF Seen, Out
  <2>6. \A x \in MailAccounts, k \in Key : Delivered(x, k) => Delivered(x, k)'
    BY <1>7
  <2>7. \A t \in MailSlots : \A k \in Added(mailCall'[t]) : k \in Key
    BY <1>9
  <2>8. Held' = Held
    BY <1>2 DEF Held
  <2> QED BY <1>1, <1>2, <2>1, <2>3, <2>4, <2>5, <2>6, <2>7, <2>8 DEF OneAccount
<1>14. ReadsFit'
  <2> SUFFICES ASSUME NEW x \in MailAccounts, NEW k \in Key, <<x, k>> \in told'.read
               PROVE  Delivered(x, k)' /\ ~Unseen(x, k)'
    BY DEF ReadsFit
  <2>1. CASE <<x, k>> \in told.read
    BY <1>1, <1>7, <2>1 DEF Undisturbed, ReadsFit
  <2>2. CASE <<x, k>> \notin told.read
    <3>1. stored /\ x = a /\ k = c.key
      BY <1>7, <2>2
    <3> QED BY <1>6, <1>7, <3>1
  <2> QED BY <2>1, <2>2
<1> QED BY <1>10, <1>11, <1>12, <1>13, <1>14 DEF Undisturbed

LEMMA EditAccountKeeps ==
  ASSUME MailInv, ~told'.disturbed, NEW a \in MailAccounts, EditAccount(a)
  PROVE  ~told.disturbed /\ Undisturbed'
<1>1. told \in History
  BY DEF MailInv, MailTypeOK
<1>2. /\ ~told.disturbed /\ mailCache.pending = {} /\ DOMAIN mailCache.mails = {} /\ dialogs = {}
      /\ \A s \in MailSlots : mailCall[s] = NoMail
      /\ told'.read = told.read
  BY <1>1 DEF EditAccount, History
<1>3. /\ mailCache' = mailCache /\ mailCall' = mailCall /\ dialogs' = dialogs
      /\ mailServer' = mailServer
  BY DEF EditAccount
<1>4. Undisturbed
  BY <1>2, Before
<1>5. Held' = {}
  BY <1>2, <1>3 DEF Held, HeldIn
<1>6. HeldFits'
  BY <1>3, <1>4 DEF Undisturbed, HeldFits, Held
<1>7. SyncsFit' /\ MarksFit'
  BY <1>2, <1>3 DEF SyncsFit, MarksFit, Timely, Seen, Out
<1>8. OneAccount'
  BY <1>2, <1>3, <1>5 DEF OneAccount, Seen, Out
<1>9. ReadsFit'
  BY <1>2, <1>3, <1>4 DEF Undisturbed, ReadsFit, Delivered, Unseen
<1> QED BY <1>2, <1>6, <1>7, <1>8, <1>9 DEF Undisturbed

\* What happens in the boxes undelivers nothing, and what becomes unread was not marked read.
LEMMA BoxChangesKeeps ==
  ASSUME MailInv, ~told.disturbed, NEW a \in MailAccounts, NEW b \in Boxes, BoxChanges(a, b)
  PROVE  Undisturbed'
<1>1. MailTypeOK /\ Undisturbed /\ Held \subseteq Key
  BY Before DEF MailInv
<1>2. /\ mailCache' = mailCache /\ connector' = connector /\ dialogs' = dialogs
      /\ mailCall' = mailCall
  BY DEF BoxChanges
<1> DEFINE box == mailServer[a][b]
           next == mailServer'[a][b]
<1>3. /\ told'.contested = told.contested /\ told'.read \subseteq told.read
      /\ \A x \in MailAccounts, y \in Boxes :
           x # a \/ y # b => mailServer'[x][y] = mailServer[x][y]
      /\ \/ /\ next.validity = box.validity /\ next.last = box.last + 1
            /\ next.unread = box.unread \cup {next.last}
         \/ /\ next.validity = box.validity /\ next.last = box.last
            /\ next.unread \subseteq box.unread
         \/ /\ next.validity = box.validity /\ next.last = box.last
            /\ \E u \in Uids :
                 /\ next.unread = box.unread \cup {u}
                 /\ <<a, [box |-> b, validity |-> box.validity, uid |-> u]>> \notin told'.read
         \/ /\ next.validity = box.validity + 1 /\ next.unread = {}
      /\ box \in BoxState
  BY <1>1, BoxChangesIs
<1>4. box.validity \in Nat /\ box.last \in Nat /\ \A k \in Key : k.validity \in Nat /\ k.uid \in Nat
  BY <1>3, MailAssumption DEF BoxState, Key, Uids, Validities
<1> HIDE DEF box, next
<1>5. \A x \in MailAccounts, k \in Key : Delivered(x, k) => Delivered(x, k)'
  <2> TAKE x \in MailAccounts, k \in Key
  <2>1. CASE x = a /\ k.box = b
    <3>1. k.validity < box.validity \/ (k.validity = box.validity /\ k.uid <= box.last) =>
            k.validity < next.validity \/ (k.validity = next.validity /\ k.uid <= next.last)
      BY <1>3, <1>4
    <3> QED BY <2>1, <3>1 DEF Delivered, box, next
  <2>2. CASE x # a \/ k.box # b
    BY <1>3, <2>2 DEF Delivered, Key
  <2> QED BY <2>1, <2>2
<1>6. \A x \in MailAccounts, k \in Key :
        <<x, k>> \in told'.read /\ Delivered(x, k) /\ ~Unseen(x, k) => ~Unseen(x, k)'
  <2> TAKE x \in MailAccounts, k \in Key
  <2> SUFFICES ASSUME <<x, k>> \in told'.read, Delivered(x, k), ~Unseen(x, k)
               PROVE  ~Unseen(x, k)'
    OBVIOUS
  <2>1. CASE x = a /\ k.box = b
    <3>1. k = [box |-> b, validity |-> k.validity, uid |-> k.uid]
      BY <2>1 DEF Key
    <3>2. k.validity < box.validity \/ (k.validity = box.validity /\ k.uid <= box.last)
      BY <2>1 DEF Delivered, box
    <3>3. ~(k.validity = box.validity /\ k.uid \in box.unread)
      BY <2>1 DEF Unseen, box
    <3>4. <<a, [box |-> b, validity |-> k.validity, uid |-> k.uid]>> \in told'.read
      BY <2>1, <3>1
    <3>5. ~(k.validity = next.validity /\ k.uid \in next.unread)
      <4> SUFFICES ASSUME k.validity = next.validity, k.uid \in next.unread
                   PROVE  FALSE
        OBVIOUS
      <4>1. next.last = box.last + 1 => k.uid # next.last \/ k.validity # box.validity
        BY <1>4, <3>2
      <4>2. next.validity = box.validity + 1 => next.unread # {}
        OBVIOUS
      <4>3. ASSUME NEW u \in Uids, next.unread = box.unread \cup {u}, next.validity = box.validity,
                   <<a, [box |-> b, validity |-> box.validity, uid |-> u]>> \notin told'.read
            PROVE  FALSE
        <5>1. k.uid = u
          BY <3>3, <4>3
        <5> QED BY <3>4, <4>3, <5>1
      <4> QED BY <1>3, <3>3, <4>1, <4>2, <4>3
    <3> QED BY <2>1, <3>5 DEF Unseen, next
  <2>2. CASE x # a \/ k.box # b
    BY <1>3, <2>2 DEF Unseen, Key
  <2> QED BY <2>1, <2>2
<1>7. HeldFits' /\ Held' = Held
  BY <1>1, <1>2 DEF Undisturbed, HeldFits, Held
<1>8. SyncsFit'
  <2>1. \A s \in MailSlots : (Timely(s)' <=> Timely(s)) /\ mailCall'[s] = mailCall[s]
    BY <1>2 DEF Timely, Out
  <2> QED BY <1>1, <1>3, <1>7, <2>1 DEF Undisturbed, SyncsFit
<1>9. MarksFit'
  <2>1. \A s \in MailSlots : (Seen(s)' <=> Seen(s)) /\ mailCall'[s] = mailCall[s]
    BY <1>2 DEF Seen, Out
  <2> QED BY <1>1, <1>2, <1>3, <2>1 DEF Undisturbed, MarksFit
<1>10. OneAccount'
  <2>1. \A s \in MailSlots : (Seen(s)' <=> Seen(s)) /\ (Out(s, "sync")' <=> Out(s, "sync"))
    BY <1>2 DEF Seen, Out
  <2>2. connector.account \in MailAccounts /\ \A d \in dialogs : d.key \in Key
    BY <1>1 DEF MailTypeOK, Connector
  <2>3. \A s \in MailSlots : \A k \in Added(mailCall[s]) : k \in Key
    BY DEF Added
  <2>4. OneAccount /\ Held' = Held /\ Held \subseteq Key
    BY <1>1, <1>7 DEF Undisturbed
  <2> QED BY <1>2, <1>5, <2>1, <2>2, <2>3, <2>4 DEF OneAccount
<1>11. ReadsFit'
  BY <1>1, <1>3, <1>5, <1>6 DEF Undisturbed, ReadsFit
<1> QED BY <1>7, <1>8, <1>9, <1>10, <1>11 DEF Undisturbed

-----------------------------------------------------------------------------
(* The theorems. *)

LEMMA MailInvInit ==
  ASSUME MailInit
  PROVE  MailInv
<1>1. /\ mailBound \in MailCases /\ mailCache = EmptyCache /\ dialogs = {}
      /\ mailCall = [s \in MailSlots |-> NoMail]
      /\ told = [contested |-> {}, read |-> {}, disturbed |-> FALSE]
  BY DEF MailInit
<1>2. mailBound.saved \in Connector /\ mailBound.start \in BoxStates
  BY <1>1, MailAssumption
<1>3. IsCache(mailCache) /\ Held = {} /\ EmptyCache.mailboxes = NoMail
      /\ EmptyCache.identity = NoMail
  BY <1>1, EmptyCacheIs DEF Held, EmptyCache
<1>4. MailTypeOK
  <2>1. Partial(timers, Key, Nat \ {0})
    BY DEF MailInit, Partial
  <2>2. mailServer \in [MailAccounts -> BoxStates] /\ connector \in Connector
    BY <1>2 DEF MailInit
  <2>3. told \in History
    BY <1>1 DEF History
  <2>4. mailNetwork \in BOOLEAN /\ changes \in Nat
    BY DEF MailInit
  <2>5. mailCall = [s \in MailSlots |-> mailCall[s]] /\ \A s \in MailSlots : mailCall[s] = NoMail
    BY <1>1
  <2> QED BY <1>1, <1>3, <2>1, <2>2, <2>3, <2>4, <2>5 DEF MailTypeOK
<1>5. Undisturbed
  <2>1. \A s \in MailSlots : mailCall[s] = NoMail
    BY <1>1
  <2>2. HeldFits
    BY <1>1, <1>3, FS_EmptySet, MailAssumption DEF HeldFits, Settled, Held
  <2>3. SyncsFit /\ MarksFit
    BY <2>1 DEF SyncsFit, MarksFit, Timely, Seen, Out
  <2>4. OneAccount
    BY <1>1, <1>3, <2>1 DEF OneAccount, Seen, Out
  <2>5. ReadsFit
    BY <1>1 DEF ReadsFit
  <2> QED BY <2>2, <2>3, <2>4, <2>5 DEF Undisturbed
<1> QED BY <1>4, <1>5 DEF MailInv

\* What is known to be disturbed stays so.
LEMMA DisturbedStays ==
  ASSUME MailTypeOK, [MailNext]_mailVars, told.disturbed
  PROVE  told'.disturbed
<1>1. told \in History
  BY DEF MailTypeOK
<1>2. CASE told' = told
  BY <1>2
<1>3. CASE \E s \in MailSlots : \E key, conn : Mark(s, key, conn)
  BY <1>1, <1>3 DEF Mark, History
<1>4. CASE \E s \in MailSlots : Serve(s)
  BY <1>1, <1>4 DEF Serve, History
<1>5. CASE \E s \in MailSlots : MailAnswer(s)
  <2>1. PICK s \in MailSlots : MailAnswer(s)
    BY <1>5
  <2>2. CASE AnswersSync(mailCall[s])
    BY <1>1, <2>2 DEF AnswersSync, AnswerSync, History
  <2>3. CASE AnswersMark(mailCall[s])
    BY <1>1, <2>3 DEF AnswersMark, AnswerSeen, History
  <2>4. CASE AnswersContent(mailCall[s]) \/ AnswersNothing(mailCall[s])
    BY <2>4 DEF AnswersContent, AnswerContent, AnswersNothing
  <2>5. CASE AnswersList(mailCall[s])
    BY <1>1, <2>5 DEF AnswersList, AnswerList, History
  <2> QED BY <2>1, <2>2, <2>3, <2>4, <2>5, AnswerCases
<1>6. CASE \E a \in MailAccounts : EditAccount(a)
  BY <1>1, <1>6 DEF EditAccount, History
<1>7. CASE \E b \in Boxes : SwitchBox(b)
  BY <1>1, <1>7 DEF SwitchBox, History
<1>8. CASE \E a \in MailAccounts, b \in Boxes : BoxChanges(a, b)
  BY <1>8, BoxChangesIs
<1>9. \/ told' = told
      \/ \E s \in MailSlots : \E key, conn : Mark(s, key, conn)
      \/ \E s \in MailSlots : Serve(s)
      \/ \E s \in MailSlots : MailAnswer(s)
      \/ \E a \in MailAccounts : EditAccount(a)
      \/ \E b \in Boxes : SwitchBox(b)
      \/ \E a \in MailAccounts, b \in Boxes : BoxChanges(a, b)
  BY DEF MailNext, mailVars, Sync, GetBoxes, CallFails, View, MarkRow, MarkDialog, Arm, TimerFires,
         Suspend, Resume
<1> QED BY <1>2, <1>3, <1>4, <1>5, <1>6, <1>7, <1>8, <1>9

LEMMA MailInvStep ==
  ASSUME MailInv, [MailNext]_mailVars
  PROVE  MailInv'
<1>1. MailTypeOK /\ MailTypeOK'
  BY TypesStep DEF MailInv
<1>2. SUFFICES ASSUME ~told'.disturbed PROVE Undisturbed'
  BY <1>1 DEF MailInv
<1>3. ~told.disturbed
  BY <1>1, <1>2, DisturbedStays
<1>4. Undisturbed /\ Settled(mailCache)
  BY <1>3, Before
<1>5. PageStep => Undisturbed'
  BY <1>4, PageStepKeeps
<1>6. CASE UNCHANGED mailVars
  BY <1>3, <1>5, <1>6, QuietKeeps DEF mailVars
<1>7. ASSUME NEW s \in MailSlots, Sync(s) \/ GetBoxes(s) \/ CallFails(s) PROVE Undisturbed'
  BY <1>3, <1>5, <1>7, SyncKeeps, GetBoxesKeeps, CallFailsKeeps
<1>8. ASSUME NEW s \in MailSlots, Serve(s) PROVE Undisturbed'
  BY <1>3, <1>8, ServeKeeps
<1>9. ASSUME NEW s \in MailSlots, MailAnswer(s) PROVE Undisturbed'
  <2>1. CASE AnswersSync(mailCall[s])
    BY <1>2, <1>3, <1>9, <2>1, AnswerSyncKeeps
  <2>2. CASE ~AnswersSync(mailCall[s])
    BY <1>2, <1>3, <1>5, <1>9, <2>2, AnswerKeeps
  <2> QED BY <2>1, <2>2
<1>10. ASSUME NEW s \in MailSlots, NEW key \in DOMAIN mailCache.mails, View(s, key)
       PROVE  Undisturbed'
  BY <1>3, <1>5, <1>10, ViewKeeps
<1>11. ASSUME NEW s \in MailSlots, NEW key \in DOMAIN mailCache.mails, MarkRow(s, key)
       PROVE  Undisturbed'
  <2>1. key \in Key /\ connector \in Connector
    BY <1>1, CacheFields DEF MailTypeOK
  <2>2. /\ Mark(s, key, connector) /\ dialogs' \subseteq dialogs /\ mailServer' = mailServer
        /\ connector' = connector
    BY <1>11 DEF MarkRow
  <2> QED BY <1>2, <1>5, <2>1, <2>2, MarkKeeps
<1>12. ASSUME NEW s \in MailSlots, NEW d \in dialogs, MarkDialog(s, d)
       PROVE  Undisturbed'
  <2>1. d.key \in Key /\ d.connector \in Connector
    BY <1>1 DEF MailTypeOK
  <2>2. /\ Mark(s, d.key, d.connector) /\ dialogs' \subseteq dialogs /\ mailServer' = mailServer
        /\ connector' = connector
    BY <1>12 DEF MarkDialog
  <2>3. d.connector.account = connector.account
    BY <1>4 DEF Undisturbed, OneAccount
  <2> QED BY <1>2, <1>5, <2>1, <2>2, <2>3, MarkKeeps
<1>13. ASSUME NEW key \in DOMAIN mailCache.mails, Arm(key) PROVE Undisturbed'
  BY <1>1, <1>3, <1>5, <1>13, ArmIs, QuietKeeps DEF Arm
<1>14. ASSUME NEW key \in DOMAIN timers, TimerFires(key) PROVE Undisturbed'
  BY <1>1, <1>3, <1>5, <1>14, TimerFiresIs, QuietKeeps DEF TimerFires
<1>15. ASSUME NEW a \in MailAccounts, EditAccount(a) PROVE Undisturbed'
  BY <1>2, <1>15, EditAccountKeeps
<1>16. ASSUME NEW b \in Boxes, SwitchBox(b) PROVE Undisturbed'
  BY <1>3, <1>5, <1>16, SwitchBoxKeeps
<1>17. CASE Suspend \/ Resume
  BY <1>3, <1>5, <1>17, QuietKeeps DEF Suspend, Resume
<1>18. ASSUME NEW a \in MailAccounts, NEW b \in Boxes, BoxChanges(a, b) PROVE Undisturbed'
  BY <1>3, <1>18, BoxChangesKeeps
<1> QED BY <1>6, <1>7, <1>8, <1>9, <1>10, <1>11, <1>12, <1>13, <1>14, <1>15, <1>16, <1>17, <1>18,
           Zenon DEF MailNext

THEOREM MailTypesKept == MailSpec => []MailTypeOK
<1>1. MailInit => MailTypeOK
  BY MailInvInit DEF MailInv
<1>2. MailTypeOK /\ [MailNext]_mailVars => MailTypeOK'
  BY TypesStep
<1> QED BY <1>1, <1>2, PTL DEF MailSpec

THEOREM MailInvariant == MailSpec => []MailInv
<1>1. MailInit => MailInv
  BY MailInvInit
<1>2. MailInv /\ [MailNext]_mailVars => MailInv'
  BY MailInvStep
<1> QED BY <1>1, <1>2, PTL DEF MailSpec

LEMMA InvKnownFits == MailInv => KnownFits
<1> SUFFICES ASSUME MailInv, mailCache.mailboxes # NoMail, ~told.disturbed
             PROVE  ~Refused(States(mailCache))
  BY DEF KnownFits
<1> DEFINE c == mailCache
           named == UNION {{b} \X States(c)[b].known : b \in DOMAIN States(c)}
           keyOf == [p \in named |-> [box |-> p[1], validity |-> c.mailboxes[p[1]], uid |-> p[2]]]
<1>1. IsFiniteSet(Held) /\ Cardinality(Held) <= HeaderMaximum
  BY Before DEF Undisturbed, HeldFits
<1>2. \A p \in named : /\ p = <<p[1], p[2]>> /\ p[1] \in DOMAIN c.mailboxes
                       /\ p[2] \in KnownUids(c, p[1])
  <2> TAKE p \in named
  <2>1. PICK b \in DOMAIN States(c) : p \in {b} \X States(c)[b].known
    OBVIOUS
  <2>2. b \in DOMAIN c.mailboxes /\ States(c)[b].known = KnownUids(c, b)
    BY DEF States
  <2> QED BY <2>1, <2>2
<1>3. \A b, u : u \in KnownUids(c, b) => [box |-> b, validity |-> c.mailboxes[b], uid |-> u] \in Held
  <2> SUFFICES ASSUME NEW b, NEW k \in Held, k.box = b, k.validity = c.mailboxes[b]
               PROVE  [box |-> b, validity |-> c.mailboxes[b], uid |-> k.uid] \in Held
    BY DEF KnownUids, Held, HeldIn
  <2>1. k \in Key
    BY Before
  <2>2. k = [box |-> b, validity |-> c.mailboxes[b], uid |-> k.uid]
    BY <2>1 DEF Key
  <2> QED BY <2>2
<1>4. \A p \in named : keyOf[p] \in Held
  BY <1>2, <1>3
<1>5. \A p, q \in named : keyOf[p] = keyOf[q] => p = q
  <2> SUFFICES ASSUME NEW p \in named, NEW q \in named, keyOf[p] = keyOf[q] PROVE p = q
    OBVIOUS
  <2>1. p[1] = q[1] /\ p[2] = q[2]
    OBVIOUS
  <2> QED BY <1>2, <2>1
<1> HIDE DEF named
<1>6. keyOf \in Injection(named, Held)
  BY <1>4, <1>5 DEF Injection, IsInjective
<1> HIDE DEF keyOf
<1>7. IsFiniteSet(named) /\ Cardinality(named) <= Cardinality(Held)
  BY <1>1, <1>6, FS_Injection
<1>8. Cardinality(named) \in Nat /\ Cardinality(Held) \in Nat
  BY <1>1, <1>7, FS_CardinalityType
<1>9. ~(Cardinality(named) > HeaderMaximum)
  BY <1>1, <1>7, <1>8, MailAssumption
<1> QED BY <1>9 DEF Refused, named

\* What the page knows always fits in the request the next sync sends.
THEOREM KnownAlwaysFits == MailSpec => []KnownFits
BY MailInvariant, InvKnownFits, PTL

LEMMA StepStaysAway ==
  ASSUME MailInv, [MailNext]_mailVars, NEW s \in MailSlots, Out(s, "sync"), mailCall'[s] = NoMail,
         ~told'.disturbed, NEW key \in DOMAIN mailCache'.mails \ DOMAIN mailCache.mails,
         <<connector.account, key>> \in told.read
  PROVE  key \in told.contested
<1>1. MailTypeOK /\ ~told.disturbed
  BY DisturbedStays DEF MailInv
<1>2. CASE \E t \in MailSlots : MailAnswer(t) /\ AnswersSync(mailCall[t])
  BY <1>1, <1>2, AnswerSyncKeeps
<1>3. ASSUME NEW t \in MailSlots, MailAnswer(t), ~AnswersSync(mailCall[t]) PROVE FALSE
  <2>1. CASE t = s
    <3>1. mailCache' = mailCache
      BY <1>3, <2>1, AnswerCases
         DEF AnswersSync, AnswersMark, AnswersContent, AnswersList, AnswersNothing, Out
    <3> QED BY <3>1
  <2>2. CASE t # s
    <3>1. mailCall[t].kind # "sync" \/ AnswersNothing(mailCall[t])
      BY <1>3, AnswerCases DEF AnswersMark, AnswersContent, AnswersList
    <3>2. CASE AnswersNothing(mailCall[t])
      BY <3>2 DEF AnswersNothing
    <3>3. CASE mailCall[t].kind # "sync"
      <4>1. mailCall'[s] = mailCall[s]
        BY <1>3, <2>2, <3>3 DEF MailAnswer
      <4> QED BY <4>1 DEF Out
    <3> QED BY <3>1, <3>2, <3>3
  <2> QED BY <2>1, <2>2
<1>4. CASE DOMAIN mailCache'.mails \subseteq DOMAIN mailCache.mails
  BY <1>4
<1>5. \/ \E t \in MailSlots : MailAnswer(t)
      \/ DOMAIN mailCache'.mails \subseteq DOMAIN mailCache.mails
  <2>1. CASE mailCache' = mailCache
    BY <2>1
  <2>2. ASSUME NEW t \in MailSlots, Sync(t) PROVE DOMAIN mailCache'.mails \subseteq DOMAIN mailCache.mails
    <3>1. mailCache' = Prepared
      BY <2>2 DEF Sync
    <3>2. DOMAIN EmptyCache.mails = {} /\ IsCache(mailCache) /\ IsCache(EmptyCache)
      BY <1>1, EmptyCacheIs DEF MailTypeOK, EmptyCache
    <3> QED BY <3>1, <3>2 DEF Prepared, IsCache
  <2>3. ASSUME NEW t \in MailSlots,
               \/ \E k \in DOMAIN mailCache.mails : MarkRow(t, k)
               \/ \E d \in dialogs : MarkDialog(t, d)
        PROVE  DOMAIN mailCache'.mails \subseteq DOMAIN mailCache.mails
    <3>1. ASSUME NEW k \in Key, NEW conn \in Connector, Mark(t, k, conn)
          PROVE  DOMAIN mailCache'.mails \subseteq DOMAIN mailCache.mails
      BY <1>1, <3>1, MarkIs
    <3>2. DOMAIN mailCache.mails \subseteq Key /\ connector \in Connector
          /\ \A d \in dialogs : d.key \in Key /\ d.connector \in Connector
      BY <1>1, CacheFields DEF MailTypeOK
    <3> QED BY <2>3, <3>1, <3>2 DEF MarkRow, MarkDialog
  <2>4. ASSUME NEW k \in DOMAIN mailCache.mails, Arm(k)
        PROVE  DOMAIN mailCache'.mails \subseteq DOMAIN mailCache.mails
    BY <1>1, <2>4, ArmIs
  <2>5. ASSUME NEW k \in DOMAIN timers, TimerFires(k)
        PROVE  DOMAIN mailCache'.mails \subseteq DOMAIN mailCache.mails
    BY <1>1, <2>5, TimerFiresIs
  <2>6. ASSUME NEW b \in Boxes, SwitchBox(b)
        PROVE  mailCall' = mailCall
    BY <2>6 DEF SwitchBox
  <2>7. mailCall' # mailCall
    BY DEF Out
  <2>8. ASSUME NEW t \in MailSlots, GetBoxes(t) \/ Serve(t) \/ CallFails(t)
                 \/ \E k \in DOMAIN mailCache.mails : View(t, k)
        PROVE  mailCache' = mailCache
    BY <2>8 DEF GetBoxes, Serve, CallFails, View
  <2>9. ASSUME Suspend \/ Resume \/ (\E a \in MailAccounts : EditAccount(a))
                 \/ (\E a \in MailAccounts, b \in Boxes : BoxChanges(a, b)) \/ UNCHANGED mailVars
        PROVE  mailCache' = mailCache
    BY <2>9 DEF Suspend, Resume, EditAccount, BoxChanges, mailVars
  <2> QED BY <2>1, <2>2, <2>3, <2>4, <2>5, <2>6, <2>7, <2>8, <2>9 DEF MailNext
<1> QED BY <1>2, <1>3, <1>4, <1>5

\* A message marked read for this page does not come back with the answer to a sync.
THEOREM MarkedReadIsGone == MailSpec => MarkedReadStaysAway
<1>1. MailInv /\ [MailNext]_mailVars =>
        [\A s \in MailSlots :
           Out(s, "sync") /\ mailCall'[s] = NoMail /\ ~told'.disturbed =>
             \A key \in DOMAIN mailCache'.mails \ DOMAIN mailCache.mails :
               <<connector.account, key>> \in told.read => key \in told.contested]_mailVars
  BY StepStaysAway
<1> QED BY <1>1, MailInvariant, PTL DEF MailSpec, MarkedReadStaysAway

-----------------------------------------------------------------------------
(* WeatherForecast: types. *)

WeatherInv == WeatherTypeOK /\ ForecastTellsTheDay

LEMMA AskedIsRequest ==
  ASSUME WeatherTypeOK
  PROVE  Asked \in Request
<1>1. now \div HoursPerDay \in {h \div HoursPerDay : h \in FirstHour .. LastHour}
  BY DEF WeatherTypeOK
<1>2. config.place \in Places /\ config.maxday \in DayCounts /\ DayCounts \subseteq Int
  BY WeatherAssumption DEF WeatherTypeOK
<1>3. (IF config.maxday < 1 THEN 1 ELSE config.maxday) \in {d \in DayCounts \cup {1} : d >= 1}
  <2>1. config.maxday \in Int
    BY <1>2
  <2>2. CASE config.maxday < 1
    BY <2>2
  <2>3. CASE ~(config.maxday < 1)
    <3>1. config.maxday >= 1
      BY <2>1, <2>3
    <3> QED BY <1>2, <2>3, <3>1
  <2> QED BY <2>2, <2>3
<1> QED BY <1>1, <1>2, <1>3 DEF Asked, Request

LEMMA OffsetsTyped ==
  ASSUME WeatherTypeOK, NEW h
  PROVE  OffsetAt(h) \in {zone.before, zone.after} /\ OffsetAt(h) \in -HoursPerDay .. HoursPerDay
BY WeatherAssumption DEF WeatherTypeOK, OffsetAt

LEMMA WeatherTypesStep == WeatherTypeOK /\ [WeatherNext]_forecastvars => WeatherTypeOK'
<1> SUFFICES ASSUME WeatherTypeOK, [WeatherNext]_forecastvars PROVE WeatherTypeOK'
  OBVIOUS
<1>1. CASE Refresh
  BY <1>1, AskedIsRequest DEF Refresh, WeatherTypeOK
<1>2. CASE Configure
  BY <1>2 DEF Configure, EditPlace, EditDays, Locate, Import, WeatherTypeOK
<1>3. CASE SuspendOrResume
  BY <1>3 DEF SuspendOrResume, WeatherTypeOK
<1>4. CASE HoursPass
  BY <1>4, WeatherAssumption DEF HoursPass, WeatherTypeOK
<1>5. ASSUME NEW r \in requests, NEW kind \in {"full", "empty"}, Answered(r, kind) PROVE WeatherTypeOK'
  <2>1. r \in Request /\ OffsetAt(now) \in -HoursPerDay .. HoursPerDay
    BY OffsetsTyped DEF WeatherTypeOK
  <2>2. IsContent(content)'
    BY <1>5, <2>1 DEF Answered, IsContent
  <2> QED BY <1>5, <2>2 DEF Answered, WeatherTypeOK
<1>6. ASSUME NEW r \in requests, Broken(r) PROVE WeatherTypeOK'
  BY <1>6 DEF Broken, WeatherTypeOK
<1>7. CASE UNCHANGED forecastvars
  BY <1>7 DEF forecastvars, WeatherTypeOK, IsContent
<1> QED BY <1>1, <1>2, <1>3, <1>4, <1>5, <1>6, <1>7 DEF WeatherNext, AnswerFull, AnswerEmpty

-----------------------------------------------------------------------------
(* WeatherForecast: the hours of an answer. *)

LEMMA DivisionOf ==
  ASSUME NEW n \in Nat \ {0}, NEW d \in Int, NEW k \in 0 .. n - 1
  PROVE  (d * n + k) \div n = d /\ (d * n + k) % n = k
OBVIOUS

LEMMA RequestFields ==
  ASSUME NEW r \in Request
  PROVE  r.place \in Places /\ r.start \in Int /\ r.days \in Nat \ {0}
<1>1. \A h \in FirstHour .. LastHour : h \div HoursPerDay \in Int
  BY WeatherAssumption
<1>2. /\ r.place \in Places /\ r.start \in {h \div HoursPerDay : h \in FirstHour .. LastHour}
      /\ r.days \in {d \in DayCounts \cup {1} : d >= 1}
  BY DEF Request
<1>3. r.start \in Int
  BY <1>1, <1>2
<1>4. r.days \in Int /\ r.days >= 1
  <2>1. r.days \in DayCounts \cup {1} /\ r.days >= 1 /\ DayCounts \subseteq Int
    BY <1>2, WeatherAssumption
  <2>2. CASE r.days \in DayCounts
    BY <2>1, <2>2
  <2>3. CASE r.days = 1
    BY <2>3
  <2> QED BY <2>1, <2>2, <2>3
<1> QED BY <1>2, <1>3, <1>4

\* Every date asked for has its first displayed hour in the answer, even if the clock changes.
LEMMA DateIsGiven ==
  ASSUME WeatherTypeOK, NEW r \in Request, NEW d \in r.start .. r.start + r.days - 1,
         NEW o \in {zone.before, zone.after}, \A h \in Given(r) : OffsetAt(h) = o
  PROVE  \E h \in Given(r) : TrueDate(h) = d /\ TrueHour(h) = ShownFrom
<1> DEFINE h == d * HoursPerDay + ShownFrom - o
           k == ShownFrom + (OffsetAt(h) - o)
<1>1. /\ HoursPerDay \in Nat \ {0} /\ ShownFrom \in Nat
      /\ zone \in [before: -HoursPerDay .. HoursPerDay, after: -HoursPerDay .. HoursPerDay, at: Int]
      /\ ShownFrom + (zone.after - zone.before) \in 1 .. HoursPerDay - 1
      /\ ShownFrom + (zone.before - zone.after) \in 1 .. HoursPerDay - 1
  BY WeatherAssumption DEF WeatherTypeOK
<1>2. r.start \in Int /\ r.days \in Nat \ {0} /\ d \in Int /\ o \in -HoursPerDay .. HoursPerDay
  BY <1>1, RequestFields
<1>3. OffsetAt(h) \in {zone.before, zone.after} /\ OffsetAt(h) \in Int
  BY <1>1, OffsetsTyped
<1>4. ShownFrom \in 1 .. HoursPerDay - 1
  BY <1>1
<1>5. k \in 1 .. HoursPerDay - 1
  BY <1>1, <1>2, <1>3, <1>4
<1>6. d * HoursPerDay \in Int /\ h + OffsetAt(h) = d * HoursPerDay + k
  BY <1>1, <1>2, <1>3
<1>7. TrueDate(h) = d /\ TrueHour(h) = k
  <2> HIDE DEF h, k
  <2>1. k \in 0 .. HoursPerDay - 1
    BY <1>1, <1>5
  <2>2. (d * HoursPerDay + k) \div HoursPerDay = d /\ (d * HoursPerDay + k) % HoursPerDay = k
    BY <1>1, <1>2, <2>1, DivisionOf
  <2> QED BY <1>6, <2>2 DEF TrueDate, TrueHour
<1>8. h \in Around(r)
  <2>1. (r.start - 1) * HoursPerDay <= (d - 1) * HoursPerDay
    BY <1>1, <1>2
  <2>2. (d + 2) * HoursPerDay <= (r.start + r.days + 1) * HoursPerDay
    BY <1>1, <1>2
  <2>3. (d - 1) * HoursPerDay = d * HoursPerDay - HoursPerDay /\ (d + 2) * HoursPerDay = d * HoursPerDay + 2 * HoursPerDay
    BY <1>1, <1>2
  <2>4. (r.start - 1) * HoursPerDay \in Int /\ (r.start + r.days + 1) * HoursPerDay \in Int
    BY <1>1, <1>2
  <2> QED BY <1>1, <1>2, <1>4, <1>6, <2>1, <2>2, <2>3, <2>4 DEF Around
<1>9. h \in Given(r)
  BY <1>5, <1>7, <1>8 DEF Given
<1>10. OffsetAt(h) = o
  BY <1>9
<1>11. k = ShownFrom
  BY <1>1, <1>2, <1>10
<1> QED BY <1>7, <1>9, <1>11

\* A finite set of numbers has a greatest: the one with the fewest above it.
LEMMA GreatestIs ==
  ASSUME NEW S \in SUBSET Int, IsFiniteSet(S), S # {}
  PROVE  \E x \in S : \A y \in S : y <= x
<1> DEFINE above(x) == {y \in S : y > x}
           T == {Cardinality(above(x)) : x \in S}
<1>1. \A x \in S : IsFiniteSet(above(x)) /\ Cardinality(above(x)) \in Nat
  BY FS_Subset, FS_CardinalityType
<1>2. T \subseteq Nat /\ T # {}
  BY <1>1
<1>3. PICK n \in T : \A m \in T : n <= m
  BY <1>2, NatHasLeast
<1>4. PICK x \in S : n = Cardinality(above(x))
  BY <1>3
<1>5. ASSUME NEW y \in S, ~(y <= x) PROVE FALSE
  <2>1. y > x /\ x \in Int /\ y \in Int
    BY <1>5
  <2>2. above(y) \subseteq above(x)
    <3> SUFFICES ASSUME NEW z \in above(y) PROVE z \in above(x)
      OBVIOUS
    <3>1. z \in S /\ z \in Int /\ z > y
      OBVIOUS
    <3> QED BY <2>1, <3>1
  <2>6. y \in above(x) /\ y \notin above(y)
    BY <2>1
  <2>3. Cardinality(above(y)) <= Cardinality(above(x)) /\ Cardinality(above(y)) # Cardinality(above(x))
    BY <1>1, <2>2, <2>6, FS_Subset
  <2>4. Cardinality(above(y)) \in T
    OBVIOUS
  <2>5. Cardinality(above(x)) <= Cardinality(above(y))
    BY <1>3, <1>4, <2>4
  <2> QED BY <1>1, <2>3, <2>5
<1> QED BY <1>5

LEMMA ExtremesOf ==
  ASSUME NEW S \in SUBSET Int, IsFiniteSet(S), S # {}
  PROVE  Max(S) \in S /\ (\A x \in S : x <= Max(S)) /\ Min(S) \in S /\ (\A x \in S : Min(S) <= x)
<1>1. Max(S) \in S /\ \A x \in S : Max(S) >= x
  <2>1. \E x \in S : \A y \in S : x >= y
    <3>1. PICK x \in S : \A y \in S : y <= x
      BY GreatestIs
    <3> QED BY <3>1
  <2> QED BY <2>1 DEF Max
<1> DEFINE R == {-x : x \in S}
<1>2. R \in SUBSET Int /\ R # {} /\ IsFiniteSet(R)
  <2> DEFINE f == [x \in S |-> -x]
  <2>1. f \in Surjection(S, R)
    BY DEF Surjection
  <2>2. IsFiniteSet(R)
    BY <2>1, FS_Surjection
  <2>3. R \in SUBSET Int
    OBVIOUS
  <2>4. R # {}
    <3>1. PICK x \in S : TRUE
      OBVIOUS
    <3>2. -x \in R
      BY <3>1
    <3> QED BY <3>2
  <2> HIDE DEF R
  <2> QED BY <2>2, <2>3, <2>4
<1>3. PICK z \in R : \A y \in R : y <= z
  BY <1>2, GreatestIs
<1>4. -z \in S /\ \A y \in S : -z =< y
  BY <1>2, <1>3
<1>5. Min(S) \in S /\ \A x \in S : Min(S) =< x
  <2>1. \E x \in S : \A y \in S : x =< y
    BY <1>4
  <2> QED BY <2>1 DEF Min
<1> QED BY <1>1, <1>5

-----------------------------------------------------------------------------
(* WeatherForecast: the cards. *)

\* A row of dates, and its i-th.
LEMMA RowCount ==
  ASSUME NEW a \in Int, NEW n \in Nat
  PROVE  Cardinality(a .. a + n - 1) = n
<1>1. a + n - 1 \in Int
  OBVIOUS
<1>2. Cardinality(a .. a + n - 1) = IF a > a + n - 1 THEN 0 ELSE (a + n - 1) - a + 1
  BY <1>1, FS_Interval
<1> QED BY <1>2

LEMMA NthOfRow ==
  ASSUME NEW a \in Int, NEW n \in Nat, NEW i \in 1 .. n
  PROVE  LET dates == a .. a + n - 1
         IN  (CHOOSE date \in dates : Cardinality({d \in dates : d < date}) = i - 1) = a + i - 1
<1> DEFINE dates == a .. a + n - 1
           rank(date) == Cardinality({d \in dates : d < date})
<1>1. \A date \in dates : rank(date) = date - a
  <2> SUFFICES ASSUME NEW date \in dates PROVE rank(date) = date - a
    OBVIOUS
  <2>1. {d \in dates : d < date} = a .. date - 1
    OBVIOUS
  <2>2. Cardinality(a .. date - 1) = IF a > date - 1 THEN 0 ELSE (date - 1) - a + 1
    BY FS_Interval
  <2>3. date \in Int /\ date >= a
    OBVIOUS
  <2>4. Cardinality(a .. date - 1) = date - a
    BY <2>2, <2>3
  <2> QED BY <2>1, <2>4
<1>2. a + i - 1 \in dates
  OBVIOUS
<1>3. \A date \in dates : rank(date) = i - 1 <=> date = a + i - 1
  <2> SUFFICES ASSUME NEW date \in dates PROVE rank(date) = i - 1 <=> date = a + i - 1
    OBVIOUS
  <2>1. rank(date) = date - a /\ date \in Int
    BY <1>1
  <2> HIDE DEF rank
  <2> QED BY <2>1
<1>4. (CHOOSE date \in dates : rank(date) = i - 1) = a + i - 1
  <2> HIDE DEF dates, rank
  <2> QED BY <1>2, <1>3
<1> QED BY <1>4

\* A card of one or more hours, of which one or more are displayed, tells their extremes.
LEMMA CardTells ==
  ASSUME NEW date, NEW hours, NEW said, IsFiniteSet(hours),
         \A h \in hours : said[h].temp \in Int /\ said[h].wind \in Int,
         \E h \in hours : Displayed(HourRead(h))
  PROVE  LET card == Card(date, hours, said)
             visible == {h \in hours : Displayed(HourRead(h))}
         IN  /\ card.day = date
             /\ \A h \in hours : said[h].temp \in card.min .. card.max
             /\ \E h \in hours : said[h].temp = card.min
             /\ \E h \in hours : said[h].temp = card.max
             /\ \A h \in visible : said[h].wind <= card.wind
             /\ \E h \in visible : said[h].wind = card.wind
             /\ \A c \in card.codes : \E h \in visible : said[h].code = c
<1> DEFINE card == Card(date, hours, said)
           visible == {h \in hours : Displayed(HourRead(h))}
           temps == {said[h].temp : h \in hours}
           winds == {said[h].wind : h \in visible}
           code == [h \in hours |-> said[h].code]
<1>1. visible # {} /\ hours # {} /\ visible \subseteq hours /\ IsFiniteSet(visible)
  BY FS_Subset
<1>2. temps \in SUBSET Int /\ temps # {} /\ IsFiniteSet(temps)
  <2> DEFINE f == [h \in hours |-> said[h].temp]
  <2>1. f \in Surjection(hours, temps)
    BY DEF Surjection
  <2>2. IsFiniteSet(temps)
    BY <2>1, FS_Surjection
  <2> QED BY <1>1, <2>2
<1>3. winds \in SUBSET Int /\ winds # {} /\ IsFiniteSet(winds)
  <2> DEFINE f == [h \in visible |-> said[h].wind]
  <2>1. f \in Surjection(visible, winds)
    BY DEF Surjection
  <2>2. IsFiniteSet(winds)
    BY <1>1, <2>1, FS_Surjection
  <2> QED BY <1>1, <2>2
<1>4. /\ card.day = date /\ card.min = Min(temps) /\ card.max = Max(temps)
      /\ card.wind = Max(winds) /\ card.codes = Frequent(code, visible)
  BY <1>1 DEF Card
<1>5. \A c \in Frequent(code, visible) : \E h \in visible : said[h].code = c
  <2>1. \A c \in Frequent(code, visible) : c \in {code[h] : h \in visible}
    BY <1>1 DEF Frequent
  <2>2. \A h \in visible : code[h] = said[h].code
    BY <1>1
  <2> QED BY <2>1, <2>2
<1> HIDE DEF card, code, visible
<1>6. Max(temps) \in temps /\ Min(temps) \in temps /\ \A t \in temps : Min(temps) <= t /\ t <= Max(temps)
  BY <1>2, ExtremesOf
<1>7. Max(winds) \in winds /\ \A w \in winds : w <= Max(winds)
  BY <1>3, ExtremesOf
<1>8. \A h \in hours : said[h].temp \in card.min .. card.max
  BY <1>2, <1>4, <1>6
<1>9. (\E h \in hours : said[h].temp = card.min) /\ (\E h \in hours : said[h].temp = card.max)
  BY <1>4, <1>6
<1>10. (\A h \in visible : said[h].wind <= card.wind) /\ (\E h \in visible : said[h].wind = card.wind)
  BY <1>4, <1>7
<1> QED BY <1>4, <1>5, <1>8, <1>9, <1>10 DEF card, visible

\* The dates of a full answer, read with the offset its hours have: each asked for, and no other.
LEMMA DatesRead ==
  ASSUME WeatherTypeOK, NEW r \in Request, \A h \in Given(r) : OffsetAt(h) = OffsetAt(now)
  PROVE  /\ \A h \in Given(r) : DateRead(h) = TrueDate(h) /\ HourRead(h) = TrueHour(h)
         /\ {DateRead(h) : h \in Given(r)} = r.start .. r.start + r.days - 1
         /\ \A d \in r.start .. r.start + r.days - 1 :
              \E h \in Given(r) : DateRead(h) = d /\ Displayed(HourRead(h))
<1>1. \A h \in Given(r) : DateRead(h) = TrueDate(h) /\ HourRead(h) = TrueHour(h)
  BY DEF DateRead, HourRead, ReadOffset, TrueDate, TrueHour
<1>2. \A d \in r.start .. r.start + r.days - 1 :
        \E h \in Given(r) : DateRead(h) = d /\ Displayed(HourRead(h))
  <2> SUFFICES ASSUME NEW d \in r.start .. r.start + r.days - 1
               PROVE  \E h \in Given(r) : DateRead(h) = d /\ Displayed(HourRead(h))
    OBVIOUS
  <2>1. PICK h \in Given(r) : TrueDate(h) = d /\ TrueHour(h) = ShownFrom
    BY DateIsGiven, OffsetsTyped
  <2>2. Displayed(ShownFrom)
    BY WeatherAssumption DEF Displayed
  <2> QED BY <1>1, <2>1, <2>2
<1>3. \A h \in Given(r) : TrueDate(h) \in r.start .. r.start + r.days - 1
  BY DEF Given
<1> QED BY <1>1, <1>2, <1>3

LEMMA GivenIs ==
  ASSUME NEW r \in Request
  PROVE  /\ IsFiniteSet(Given(r))
         /\ \A h \in Given(r) : Forecast[r.place][h].temp \in Int /\ Forecast[r.place][h].wind \in Int
<1>1. r.start \in Int /\ r.days \in Nat /\ HoursPerDay \in Nat
  BY RequestFields, WeatherAssumption
<1>2. (r.start - 1) * HoursPerDay \in Int /\ (r.start + r.days + 1) * HoursPerDay \in Int
  BY <1>1
<1>3. IsFiniteSet(Around(r))
  BY <1>2, FS_Interval DEF Around
<1>4. Given(r) \subseteq Around(r)
  BY DEF Given
<1> QED BY <1>3, <1>4, FS_Subset, WeatherAssumption

\* The hours of a date in a full answer, and the displayed ones.
HoursOf(r, date) == {h \in Given(r) : TrueDate(h) = date}
DisplayedOf(r, date) == {h \in HoursOf(r, date) : TrueHour(h) \in ShownFrom .. ShownTo}

\* What the cards of a full answer say.
Tells(r, cards) ==
  LET said == Forecast[r.place]
  IN  /\ Len(cards) = r.days
      /\ \A i \in 1 .. r.days :
           LET card == cards[i]
               hours == HoursOf(r, card.day)
               displayed == DisplayedOf(r, card.day)
           IN  /\ card.day = r.start + i - 1
               /\ \A h \in hours : said[h].temp \in card.min .. card.max
               /\ \E h \in hours : said[h].temp = card.min
               /\ \E h \in hours : said[h].temp = card.max
               /\ \A h \in displayed : said[h].wind <= card.wind
               /\ \E h \in displayed : said[h].wind = card.wind
               /\ \A c \in card.codes : \E h \in displayed : said[h].code = c

LEMMA AnswerTells ==
  ASSUME WeatherTypeOK, NEW r \in Request, \A h \in Given(r) : OffsetAt(h) = OffsetAt(now)
  PROVE  Tells(r, Cards(Given(r), Forecast[r.place]))
<1> DEFINE said == Forecast[r.place]
           dates == {DateRead(h) : h \in Given(r)}
           nth(i) == CHOOSE date \in dates : Cardinality({d \in dates : d < date}) = i - 1
           hoursOf(date) == {h \in Given(r) : DateRead(h) = date}
           cards == Cards(Given(r), said)
<1>1. r.start \in Int /\ r.days \in Nat \ {0}
  BY RequestFields
<1>2. dates = r.start .. r.start + r.days - 1
  BY DatesRead
<1> HIDE DEF dates
<1>3. Cardinality(dates) = r.days
  BY <1>1, <1>2, RowCount
<1>4. \A i \in 1 .. r.days : nth(i) = r.start + i - 1
  <2> SUFFICES ASSUME NEW i \in 1 .. r.days PROVE nth(i) = r.start + i - 1
    OBVIOUS
  <2> DEFINE row == r.start .. r.start + r.days - 1
  <2>1. (CHOOSE date \in row : Cardinality({d \in row : d < date}) = i - 1) = r.start + i - 1
    BY <1>1, NthOfRow
  <2> HIDE DEF row
  <2>2. dates = row
    BY <1>2 DEF row
  <2> QED BY <2>1, <2>2
<1>5. cards = [i \in 1 .. r.days |-> Card(nth(i), hoursOf(nth(i)), said)]
  BY <1>3 DEF Cards, dates
<1> HIDE DEF nth, hoursOf, cards, dates, said
<1>6. Len(cards) = r.days
  BY <1>1, <1>5
<1>7. ASSUME NEW i \in 1 .. r.days
      PROVE  LET card == cards[i]
                 hours == {h \in Given(r) : TrueDate(h) = card.day}
                 displayed == {h \in hours : TrueHour(h) \in ShownFrom .. ShownTo}
             IN  /\ card.day = r.start + i - 1
                 /\ \A h \in hours : said[h].temp \in card.min .. card.max
                 /\ \E h \in hours : said[h].temp = card.min
                 /\ \E h \in hours : said[h].temp = card.max
                 /\ \A h \in displayed : said[h].wind <= card.wind
                 /\ \E h \in displayed : said[h].wind = card.wind
                 /\ \A c \in card.codes : \E h \in displayed : said[h].code = c
  <2> DEFINE date == r.start + i - 1
             hours == hoursOf(date)
             visible == {h \in hours : Displayed(HourRead(h))}
             card == Card(date, hours, said)
  <2>1. cards[i] = card
    BY <1>4, <1>5
  <2>2. date \in r.start .. r.start + r.days - 1
    BY <1>1
  <2>3. IsFiniteSet(hours) /\ \A h \in hours : said[h].temp \in Int /\ said[h].wind \in Int
    BY GivenIs, FS_Subset DEF hoursOf, said
  <2>4. \E h \in hours : Displayed(HourRead(h))
    BY <2>2, DatesRead DEF hoursOf
  <2> HIDE DEF date, hours, card
  <2>5. /\ card.day = date
        /\ \A h \in hours : said[h].temp \in card.min .. card.max
        /\ \E h \in hours : said[h].temp = card.min
        /\ \E h \in hours : said[h].temp = card.max
        /\ \A h \in visible : said[h].wind <= card.wind
        /\ \E h \in visible : said[h].wind = card.wind
        /\ \A c \in card.codes : \E h \in visible : said[h].code = c
    BY <2>3, <2>4, CardTells DEF card
  <2>6. hours = {h \in Given(r) : TrueDate(h) = card.day}
    BY <2>5, DatesRead DEF hours, hoursOf
  <2>7. visible = {h \in hours : TrueHour(h) \in ShownFrom .. ShownTo}
    <3>1. \A h \in hours : HourRead(h) = TrueHour(h)
      BY DatesRead DEF hours, hoursOf
    <3>2. \A h \in hours : TrueHour(h) \in Int
      <4>1. \A h \in Given(r) : h \in Int
        BY RequestFields, WeatherAssumption DEF Given, Around
      <4>2. \A h \in Given(r) : TrueHour(h) \in Int
        BY <4>1, OffsetsTyped, WeatherAssumption DEF TrueHour
      <4> QED BY <4>2 DEF hours, hoursOf
    <3> QED BY <3>1, <3>2, WeatherAssumption DEF Displayed
  <2> QED BY <2>1, <2>5, <2>6, <2>7 DEF date
<1> QED BY <1>6, <1>7 DEF Tells, HoursOf, DisplayedOf, cards, said

LEMMA ForecastStep == WeatherInv /\ [WeatherNext]_forecastvars => WeatherInv'
<1> SUFFICES ASSUME WeatherInv, [WeatherNext]_forecastvars PROVE WeatherInv'
  OBVIOUS
<1>1. WeatherTypeOK /\ WeatherTypeOK'
  BY WeatherTypesStep DEF WeatherInv
<1>2. zone' = zone
  BY DEF WeatherNext, Refresh, Configure, SuspendOrResume, HoursPass, AnswerFull, AnswerEmpty,
         Answered, Broken, forecastvars
<1>3. \A h : OffsetAt(h)' = OffsetAt(h) /\ TrueDate(h)' = TrueDate(h) /\ TrueHour(h)' = TrueHour(h)
  BY <1>2 DEF OffsetAt, TrueDate, TrueHour
<1>4. \A r : Given(r)' = Given(r)
  BY <1>3 DEF Given
<1>5. \A r, d : HoursOf(r, d)' = HoursOf(r, d) /\ DisplayedOf(r, d)' = DisplayedOf(r, d)
  BY <1>3, <1>4 DEF HoursOf, DisplayedOf
<1>6. CASE content' = content
  <2>1. ForecastTellsTheDay'
    <3>1. Shifted' = Shifted
      BY <1>3, <1>4, <1>6 DEF Shifted
    <3>2. \A r, d : HoursOf(r, d)' = HoursOf(r, d) /\ DisplayedOf(r, d)' = DisplayedOf(r, d)
      BY <1>5
    <3>3. Tells(content.of, content.cards)' = Tells(content.of, content.cards)
      BY <1>6, <3>2 DEF Tells
    <3>4. content # Nothing /\ content.kind = "full" /\ ~Shifted => Tells(content.of, content.cards)
      BY DEF WeatherInv, ForecastTellsTheDay, Tells, HoursOf, DisplayedOf
    <3>5. (content # Nothing /\ content.kind = "full" /\ ~Shifted => Tells(content.of, content.cards))'
      BY <1>6, <3>1, <3>4, <3>3
    <3> QED BY <3>5 DEF ForecastTellsTheDay, Tells, HoursOf, DisplayedOf
  <2> QED BY <1>1, <2>1 DEF WeatherInv
<1>7. ASSUME NEW r \in requests, NEW kind \in {"full", "empty"}, Answered(r, kind) PROVE WeatherInv'
  <2>1. r \in Request
    BY <1>1 DEF WeatherTypeOK
  <2>2. /\ content'.of = r /\ content'.kind = kind /\ content'.offset = OffsetAt(now)
        /\ kind = "full" => content'.cards = Cards(Given(r), Forecast[r.place])
    BY <1>7 DEF Answered
  <2> SUFFICES ASSUME kind = "full", ~Shifted' PROVE Tells(content.of, content.cards)'
    BY <1>1, <2>2 DEF WeatherInv, ForecastTellsTheDay, Tells, HoursOf, DisplayedOf
  <2>3. \A h \in Given(r) : OffsetAt(h) = OffsetAt(now)
    BY <1>3, <1>4, <2>2 DEF Shifted
  <2>4. Tells(r, Cards(Given(r), Forecast[r.place]))
    BY <1>1, <2>1, <2>3, AnswerTells
  <2> QED BY <1>5, <2>2, <2>4 DEF Tells
<1>8. \/ content' = content
      \/ \E r \in requests, kind \in {"full", "empty"} : Answered(r, kind)
  BY DEF WeatherNext, Refresh, Configure, SuspendOrResume, HoursPass, AnswerFull, AnswerEmpty,
         Broken, forecastvars
<1> QED BY <1>6, <1>7, <1>8

\* For any zones, places, days and times, what the forecast shows keeps its types.
THEOREM ForecastInvariant == WeatherSpec => []WeatherInv
<1>1. WeatherInit => WeatherInv
  BY WeatherAssumption DEF WeatherInit, WeatherInv, WeatherTypeOK, ForecastTellsTheDay
<1> QED BY <1>1, ForecastStep, PTL DEF WeatherSpec

\* A forecast tells its days (json_read_hourly), for any zones, places, days and times.
THEOREM ForecastTells == WeatherSpec => []ForecastTellsTheDay
<1>1. WeatherInv => ForecastTellsTheDay
  BY DEF WeatherInv
<1> QED BY <1>1, ForecastInvariant, PTL

=============================================================================
