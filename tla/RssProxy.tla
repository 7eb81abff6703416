------------------------------ MODULE RssProxy ------------------------------
(***************************************************************************)
(* One feed behind the RSS proxy of src/api/proxys/wget.rs: the cache      *)
(* entry of its URL, the calls of the pages that show it, and the feed     *)
(* itself.  A call loads the entry, may fetch the feed, and saves the      *)
(* entry, each in a critical section of its own; other calls run between. *)
(*                                                                         *)
(* What the feed says is a revision number that grows as the feed changes; *)
(* it stands for the document.  Time is counted in milliseconds.  `time`   *)
(* is physical and runs the timeout of a fetch; the server reads SystemTime, *)
(* which may be set back and is then `skew` behind.                        *)
(***************************************************************************)
EXTENDS Naturals

CONSTANTS
  Pages,        \* RSS modules of one URL, in any browsers; each has at most
                \* one call under way (they ask every ten minutes)
  Ttl,          \* CACHE_TTL_MILLISECONDS
  Timeout,      \* the longest fetch: HTTP_REQUEST_TIMEOUT, redirects included
  MaxTime,      \* bound on the time
  MaxRevision,  \* bound on the changes of the feed
  StepsBack,    \* bound on how far the clock is set back
  None          \* no record, no call

ASSUME RssAssumption ==
  /\ Ttl \in Nat /\ Timeout \in Nat
  /\ MaxTime \in Nat /\ MaxRevision \in Nat \ {0} /\ StepsBack \in Nat

VARIABLES
  feed,    \* the revision the feed says now
  left,    \* history: revision -> the time it was replaced at
  time, skew,
  cache,   \* the cache entry of the URL
  call,    \* page -> its call and what it holds
  shown,   \* page -> the revision it shows, its version, and (history) the
           \* time of the answer that last gave or confirmed it
  lastNew, \* history: when a fetch last ended with a new document
  past     \* history: circumstances that the properties except

vars == <<feed, left, time, skew, cache, call, shown, lastNew, past>>

Revisions == 1..MaxRevision
\* RssCacheRecord.  Its ETag and Last-Modified stand for its revision.
Record == [version: Nat \ {0}, revision: Revisions, validatedAt: Nat \ {0}]
Call ==
  [step: {"fetching"}, record: Record \cup {None}, since: Nat]
  \cup [step: {"answered"}, record: Record \cup {None}, since: Nat,
        revision: Revisions, new: BOOLEAN]
  \cup [step: {"saving"}, record: Record \cup {None}, due: Record, at: Nat]
Shown == [version: Nat \ {0}, revision: Revisions, at: Nat]

ASSUME NoneIsNothing == None \notin Record \cup Call \cup Shown

TypeOK ==
  /\ feed \in Revisions
  /\ left \in [Revisions -> Nat]
  /\ time \in Nat \ {0} /\ skew \in Nat /\ skew < time
  /\ cache \in Record \cup {None}
  /\ call \in [Pages -> Call \cup {None}]
  /\ shown \in [Pages -> Shown \cup {None}]
  /\ lastNew \in Nat
  /\ past \in [tied: BOOLEAN, overlapped: BOOLEAN, lost: BOOLEAN]

Init ==
  /\ feed = 1
  /\ left = [r \in Revisions |-> 0]
  /\ time = StepsBack + 1 /\ skew = 0
  /\ cache = None
  /\ call = [p \in Pages |-> None]
  /\ shown = [p \in Pages |-> None]
  /\ lastNew = 0
  /\ past = [tied |-> FALSE, overlapped |-> FALSE, lost |-> FALSE]

-----------------------------------------------------------------------------
Clock == time - skew    \* RssProxy::now_get

In(p, step) == call[p] # None /\ call[p].step = step

\* A faulty Fresh: an entry never grows old.
FreshForEver(record) == record # None /\ Clock >= record.validatedAt

Fresh(record) ==
  /\ record # None
  /\ Clock >= record.validatedAt
  /\ Clock - record.validatedAt <= Ttl

PreviousVersion(record) == IF record = None THEN 0 ELSE record.version

\* A faulty NewVersion: the numbers of an entry start again when it is evicted.
NewVersionCounted(record) == PreviousVersion(record) + 1

\* A faulty NewVersion: a new document keeps the number of the former one.
NewVersionKept(record) == PreviousVersion(record)

NewVersion(record) ==
  IF Clock > PreviousVersion(record) THEN Clock ELSE PreviousVersion(record) + 1

\* The page is told NOT_MODIFIED, or is sent the document.
Current(p, record) == shown[p] # None /\ shown[p].version = record.version

\* What an answer from record does to the page: nothing when it does not
\* arrive, or carries a document that the page cannot parse.
Answer(p, record, at) ==
  /\ call' = [call EXCEPT ![p] = None]
  /\ \/ UNCHANGED shown
     \/ /\ Current(p, record)
        /\ shown' = [shown EXCEPT ![p].at = at]
     \/ /\ ~Current(p, record)
        /\ shown' = [shown EXCEPT ![p] =
                       [version |-> record.version, revision |-> record.revision, at |-> at]]

-----------------------------------------------------------------------------
(* A call. *)

\* RssProxy::content_get finds a fresh entry.
AskFresh(p) ==
  /\ call[p] = None /\ Fresh(cache)
  /\ Answer(p, cache, time)
  /\ UNCHANGED <<feed, left, time, skew, cache, lastNew, past>>

\* It finds none, and fetches the feed with what it has loaded.
AskStale(p) ==
  /\ call[p] = None /\ ~Fresh(cache)
  /\ call' = [call EXCEPT ![p] = [step |-> "fetching", record |-> cache, since |-> time]]
  /\ UNCHANGED <<feed, left, time, skew, cache, shown, lastNew, past>>

\* The feed answers a conditional request "not modified" only when it still
\* says what the request names.  It may also send the document again; a feed
\* that gives no ETag or Last-Modified always does.
FeedAnswers(p) ==
  /\ In(p, "fetching")
  /\ \E new \in BOOLEAN :
       /\ new \/ (call[p].record # None /\ call[p].record.revision = feed)
       /\ call' = [call EXCEPT ![p] =
                     [step |-> "answered", record |-> call[p].record, since |-> call[p].since,
                      revision |-> feed, new |-> new]]
  /\ UNCHANGED <<feed, left, time, skew, cache, shown, lastNew, past>>

\* RssCacheRecord::revalidated_get: content and version stay.
Revalidated(c) == [c.record EXCEPT !.validatedAt = Clock]

Updated(c) ==
  [version |-> NewVersion(c.record), revision |-> c.revision, validatedAt |-> Clock]

\* The fetch is over and the next record computed.  Two calls overlap when
\* the entry is no longer, or will not stay, the one this record follows.
FetchEnds(p) ==
  /\ In(p, "answered") /\ time <= call[p].since + Timeout
  /\ call' = [call EXCEPT ![p] =
                [step |-> "saving", record |-> call[p].record,
                 due |-> IF call[p].new THEN Updated(call[p]) ELSE Revalidated(call[p]),
                 at |-> time]]
  /\ lastNew' = IF call[p].new THEN time ELSE lastNew
  /\ past' = [past EXCEPT
                !.tied = @ \/ (call[p].new /\ lastNew = time),
                !.overlapped = @ \/ cache # call[p].record
                                 \/ \E q \in Pages \ {p} : In(q, "saving")]
  /\ UNCHANGED <<feed, left, time, skew, cache, shown>>

\* A faulty Save: it stores the record that was loaded, with a new date.
SaveLoaded(p) ==
  /\ In(p, "saving")
  /\ cache' = IF call[p].record = None THEN call[p].due
              ELSE [call[p].record EXCEPT !.validatedAt = call[p].due.validatedAt]
  /\ Answer(p, call[p].due, call[p].at)
  /\ UNCHANGED <<feed, left, time, skew, lastNew, past>>

\* cacheRecord_save replaces the entry, whatever it is by now; when it fails
\* the call is answered all the same.
Save(p) ==
  /\ In(p, "saving")
  /\ \/ cache' = call[p].due /\ UNCHANGED past
     \/ UNCHANGED cache /\ past' = [past EXCEPT !.lost = TRUE]
  /\ Answer(p, call[p].due, call[p].at)
  /\ UNCHANGED <<feed, left, time, skew, lastNew>>

\* An error is answered, the fetch times out, the request is dropped with its
\* connection, or the server restarts.
Fail(p) ==
  /\ call[p] # None
  /\ call' = [call EXCEPT ![p] = None]
  /\ UNCHANGED <<feed, left, time, skew, cache, shown, lastNew, past>>

-----------------------------------------------------------------------------
(* The surroundings. *)

\* The entry is cleaned up for other feeds, or removed as unreadable.
Evict ==
  /\ cache # None
  /\ cache' = None
  /\ past' = [past EXCEPT !.lost = TRUE]
  /\ UNCHANGED <<feed, left, time, skew, call, shown, lastNew>>

FeedChanges ==
  /\ feed < MaxRevision
  /\ feed' = feed + 1
  /\ left' = [left EXCEPT ![feed] = time]
  /\ UNCHANGED <<time, skew, cache, call, shown, lastNew, past>>

Tick ==
  /\ time < MaxTime
  /\ time' = time + 1
  /\ UNCHANGED <<feed, left, skew, cache, call, shown, lastNew, past>>

ClockIsSetBack ==
  /\ skew < StepsBack
  /\ skew' = skew + 1
  /\ UNCHANGED <<feed, left, time, cache, call, shown, lastNew, past>>

Step(p) ==
  \/ AskFresh(p) \/ AskStale(p) \/ FeedAnswers(p) \/ FetchEnds(p)
  \/ Save(p) \/ Fail(p)

Next == (\E p \in Pages : Step(p)) \/ Evict \/ FeedChanges \/ Tick \/ ClockIsSetBack

Spec == Init /\ [][Next]_vars

-----------------------------------------------------------------------------
(* Properties. *)

Records == ({cache} \cup {call[p].record : p \in {q \in Pages : call[q] # None}}
            \cup {call[p].due : p \in {q \in Pages : In(q, "saving")}}
            \cup {shown[p] : p \in Pages}) \ {None}

\* A number is the clock, or one more than the number of the loaded entry.  It
\* can be given twice when the clock is of no help (two fetches end with new
\* documents in one millisecond, or the clock was set back) and the last number
\* given is not the one the call has loaded.
NumbersMayRepeat == (past.tied \/ skew > 0) /\ (past.lost \/ past.overlapped)

\* A version number names one document, in the cache, in every call and on
\* every page, so that a page told NOT_MODIFIED (clientResult_get compares the
\* numbers only) shows what the cache holds: overlapping calls, evictions and
\* failed saves do not spoil it, nor does a clock that is set back, unless they
\* come together.
VersionNamesContent ==
  NumbersMayRepeat \/ \A a, b \in Records : a.version = b.version => a.revision = b.revision

\* What a page shows is never older than promised: when an answer gave or
\* confirmed it, the feed said it, or had said it until at most the time to
\* live and one fetch before (and as much as the clock was set back).  This
\* must survive overlapping calls, evictions, failed saves and lost answers
\* (content_get, fresh_is, revalidated_get).
ShownWasRecent ==
  NumbersMayRepeat \/
  \A p \in Pages : shown[p] # None =>
    \/ shown[p].revision = feed
    \/ left[shown[p].revision] + Ttl + Timeout + skew >= shown[p].at

\* A page never goes back to an older document, unless two calls overlapped or
\* the entry was lost: revalidation and replacement move the entry forward,
\* even when the clock goes back.
ShownGoesForward ==
  [][\/ past'.overlapped \/ past'.lost
     \/ \A p \in Pages : shown[p] # None =>
          shown'[p] # None /\ shown'[p].revision >= shown[p].revision]_vars

=============================================================================
