------------------------------ MODULE MailSync ------------------------------
(***************************************************************************)
(* The mail module of one browser (front/modules/mail.rs), the IMAP proxy  *)
(* of the server (api/proxys/imap_inner.rs) and the mail server behind it, *)
(* which other mail clients use at the same time.                          *)
(*                                                                         *)
(* A message is a key: its box, the UIDVALIDITY of the box and its UID.    *)
(* What counts of a box is which of its messages the search of the proxy   *)
(* answers ("unread" below).  Boxes are numbers, in the order of their     *)
(* names.                                                                  *)
(***************************************************************************)
EXTENDS Naturals, FiniteSets, Functions, FiniteSetsExt

CONSTANTS
  MailAccounts,     \* mail accounts (host, port and login)
  Boxes,
  HeaderMaximum,    \* MAIL_HEADER_MAXIMUM, and SYNC_KNOWN_UID_MAXIMUM
  MailCases,        \* bounds, one of which holds in a behaviour
  MaxUid,           \* bound on the messages of a box
  MailSlots,        \* bound on the calls on their way
  NoMail

VARIABLES
  mailBound,  \* the element of MailCases this behaviour is about
  mailServer, \* account -> box -> its UIDVALIDITY, last UID and unread UIDs
  connector,  \* config.imap of the module
  mailCache,      \* mailsClientCache
  timers,     \* key -> confirmation timers that run
  dialogs,    \* dialogs that show a message, with the connector they captured
  mailCall,   \* slot -> a call to the proxy on its way
  mailNetwork, \* the holder's network is not suspended
  changes,    \* changes made on the mail server, for their bound
  told        \* history: what became of each mark, see History below

mailVars == <<mailBound, mailServer, connector, mailCache, timers, dialogs, mailCall,
              mailNetwork, changes, told>>

Uids == 1..MaxUid
Validities == 1..2
Key == [box: Boxes, validity: Validities, uid: Uids]
ShownMail == [armed: BOOLEAN, of: MailAccounts] \* confirmVue, and whose message it is
Selections == {NoMail} \cup SUBSET Boxes    \* boxAllowList
Connector == [account: MailAccounts, extra: BOOLEAN, allow: Selections, black: SUBSET Boxes]
BoxState == {b \in [validity: Validities, last: 0..MaxUid, unread: SUBSET Uids] :
               b.unread \subseteq 1..b.last}
BoxStates == [Boxes -> BoxState]
Kind == {"sync", "seen", "list", "content"}
\* f is a function from some elements of D to S.
Partial(f, D, S) == DOMAIN f \subseteq D /\ f \in [DOMAIN f -> S]
NoBoxes == [b \in {} |-> NoMail]

\* History, which no action of the code reads:
\*   contested messages marked again while a mark of them was on its way, or
\*             taken off the page meanwhile, by a sync that found them seen
\*             elsewhere or with their box;
\*   read      messages this page has marked on the mail server and that are
\*             not unread since;
\*   disturbed answers to overlapping syncs were applied, the account was edited
\*             over messages or calls, the selection over a sync, or a message was
\*             marked, or its mark rolled back, after a sync had dropped it
History == [contested: SUBSET Key, read: SUBSET (MailAccounts \X Key),
            disturbed: BOOLEAN]

IsCache(c) ==
  /\ c \in [identity: Connector \cup {NoMail}, mailboxes: {c.mailboxes}, mails: {c.mails},
            pending: SUBSET Key, confirmed: SUBSET Key, boxes: SUBSET Boxes]
  /\ c.mailboxes = NoMail \/ Partial(c.mailboxes, Boxes, Validities \cup {NoMail})
  /\ Partial(c.mails, Key, ShownMail)

IsMailCall(c) ==
  /\ c \in [kind: Kind, connector: Connector, step: {"sent", "list", "ok", "error"},
            key: Key \cup {NoMail}, old: ShownMail \cup {NoMail}, states: {c.states},
            left: 0..HeaderMaximum, result: {c.result}, late: BOOLEAN]
  /\ c.kind \in {"seen", "content"} => c.key \in Key
  /\ Partial(c.states, Boxes, [validity: Validities \cup {NoMail}, known: SUBSET Uids])
  /\ Partial(c.result, Boxes, [validity: Validities, removed: SUBSET Uids, mails: SUBSET Uids])

ASSUME MailAssumption ==
  /\ Boxes \subseteq Nat /\ IsFiniteSet(Boxes)
  /\ HeaderMaximum \in Nat \ {0} /\ MaxUid \in Nat
  /\ MailCases \subseteq [saved: Connector, changes: Nat, calls: Nat, refuses: BOOLEAN,
                          fails: BOOLEAN, edits: BOOLEAN, suspends: BOOLEAN,
                          arms: BOOLEAN, heavy: SUBSET Uids, start: BoxStates]
  /\ NoMail \notin Connector \cup Key \cup Validities \cup ShownMail
  /\ \A B \in SUBSET Boxes : NoMail # B /\ NoMail \notin [B -> Validities \cup {NoMail}]

MailTypeOK ==
  /\ mailBound \in MailCases
  /\ mailServer \in [MailAccounts -> BoxStates]
  /\ connector \in Connector
  /\ IsCache(mailCache)
  /\ Partial(timers, Key, Nat \ {0})
  /\ dialogs \subseteq [key: Key, connector: Connector]
  /\ mailCall = [s \in MailSlots |-> mailCall[s]]
  /\ \A s \in MailSlots : mailCall[s] # NoMail => IsMailCall(mailCall[s])
  /\ mailNetwork \in BOOLEAN
  /\ changes \in Nat
  /\ told \in History

-----------------------------------------------------------------------------
(* The cache of the module (MailsContent). *)

EmptyCache ==
  [identity |-> NoMail, mailboxes |-> NoMail, mails |-> [k \in {} |-> NoMail],
   pending |-> {}, confirmed |-> {}, boxes |-> {}]

MailInit ==
  /\ mailBound \in MailCases
  /\ mailServer = [a \in MailAccounts |-> mailBound.start]
  /\ connector = mailBound.saved
  /\ mailCache = EmptyCache
  /\ timers = [k \in {} |-> 1]
  /\ dialogs = {}
  /\ mailCall = [s \in MailSlots |-> NoMail]
  /\ mailNetwork = TRUE
  /\ changes = 0
  /\ told = [contested |-> {}, read |-> {}, disturbed |-> FALSE]

isBoxSelected(c, b) ==
  c.extra /\ IF c.allow # NoMail THEN b \in c.allow ELSE b \notin c.black

\* syncRequest_get, whose part on the cache comes first: what was kept for
\* another account or another selection goes.
Prepared ==
  LET kept == IF mailCache.identity = connector THEN mailCache
              ELSE [EmptyCache EXCEPT !.identity = connector]
  IN IF connector.extra /\ kept.mailboxes = NoMail /\ connector.allow # NoMail
       THEN [kept EXCEPT !.mailboxes = [b \in connector.allow |-> NoMail]]
       ELSE kept

KnownUids(c, b) ==
  {k.uid : k \in {key \in DOMAIN c.mails \cup c.pending :
                    key.box = b /\ key.validity = c.mailboxes[b]}}

States(c) ==
  [b \in DOMAIN c.mailboxes |-> [validity |-> c.mailboxes[b], known |-> KnownUids(c, b)]]

\* Keeps what the boxes m still have under their validity.
Kept(c, m) ==
  LET has(k) == k.box \in DOMAIN m /\ m[k.box] = k.validity
  IN [c EXCEPT !.mailboxes = m,
               !.mails = Restrict(@, {k \in DOMAIN @ : has(k)}),
               !.pending = {k \in @ : has(k)},
               !.confirmed = {k \in @ : has(k)}]

\* sync_apply
sync_apply(c, result, account) ==
  LET keyOf(b, u) == [box |-> b, validity |-> result[b].validity, uid |-> u]
      removed == UNION {{keyOf(b, u) : u \in result[b].removed} : b \in DOMAIN result}
      added == UNION {{keyOf(b, u) : u \in result[b].mails} : b \in DOMAIN result}
      known(b) == c.mailboxes # NoMail /\ b \in DOMAIN c.mailboxes
                    /\ c.mailboxes[b] = result[b].validity
      same == {k \in DOMAIN c.mails \cup c.pending \cup c.confirmed :
                 k.box \in DOMAIN result => known(k.box)} \ removed
      pending == c.pending \cap same
      confirmed == c.confirmed \cap same
      shown == (DOMAIN c.mails \cap same) \cup (added \ pending)
      reconciled == {k \in confirmed : k.box \in DOMAIN result
                                         /\ k.validity = result[k.box].validity}
  IN Kept([c EXCEPT
             !.mails = [k \in shown |-> IF k \in added \ pending
                                          THEN [armed |-> FALSE, of |-> account]
                                          ELSE @[k]],
             !.pending = pending \ reconciled,
             !.confirmed = confirmed \ reconciled],
          [b \in DOMAIN result |-> result[b].validity])

\* topology_set: the boxes listed and selected now, all of them interesting.
topology_set(c, listed, conn) ==
  LET old(b) == IF c.mailboxes # NoMail /\ b \in DOMAIN c.mailboxes
                  THEN c.mailboxes[b] ELSE NoMail
      now == [c EXCEPT !.identity = conn, !.boxes = listed]
  IN IF ~conn.extra
       THEN [now EXCEPT !.mailboxes = NoMail, !.mails = [k \in {} |-> NoMail],
                        !.pending = {}, !.confirmed = {}]
       ELSE Kept(now, [b \in {x \in listed : isBoxSelected(conn, x)} |-> old(b)])

-----------------------------------------------------------------------------
(* Calls.  What a call captures is read when it is sent; a call on its way *)
(* is served in steps, and its answer comes to whatever the module is by   *)
(* then.                                                                   *)

NewCall(kind) ==
  [kind |-> kind, connector |-> connector, step |-> "sent", key |-> NoMail,
   old |-> NoMail, states |-> NoBoxes, left |-> HeaderMaximum, result |-> NoBoxes,
   late |-> FALSE]

Out(s, kind) == mailCall[s] # NoMail /\ mailCall[s].kind = kind

Free(s) ==
  /\ mailCall[s] = NoMail
  /\ Cardinality({t \in MailSlots : mailCall[t] # NoMail}) < mailBound.calls
  /\ \A t \in MailSlots : t < s => mailCall[t] # NoMail

\* The bound on what users, other mail clients and failures do.
Change == changes < mailBound.changes /\ changes' = changes + 1

Send(s, call) == Free(s) /\ mailCall' = [mailCall EXCEPT ![s] = call]

\* Mail::refresh and Mail::sync, up to the call.
Sync(s) ==
  /\ mailNetwork
  /\ mailCache' = Prepared
  /\ IF ~connector.extra \/ Prepared.mailboxes = NoBoxes
       THEN mailCache' # mailCache /\ UNCHANGED mailCall \* nothing to ask for
       ELSE Send(s, [NewCall("sync") EXCEPT
                       !.step = IF Prepared.mailboxes = NoMail THEN "list" ELSE "sent",
                       !.states = IF Prepared.mailboxes = NoMail THEN NoBoxes
                                  ELSE States(Prepared)])
  /\ UNCHANGED <<mailBound, mailServer, connector, timers, dialogs, mailNetwork,
                 changes, told>>

Marking(key) == \E s \in MailSlots : Out(s, "seen") /\ mailCall[s].key = key
\* History: the marks on their way that a step takes off the page.
TakenOff == {k \in mailCache.pending \ mailCache'.pending : Marking(k)}

\* A faulty variant: hides the message without noting that its mark is on its way.
MarkUnnoted(s, key, conn) ==
  /\ Change
  /\ Send(s, [NewCall("seen") EXCEPT
                !.connector = conn, !.key = key,
                !.old = IF key \in DOMAIN mailCache.mails THEN mailCache.mails[key] ELSE NoMail])
  /\ mailCache' = [mailCache EXCEPT !.mails = Restrict(@, DOMAIN @ \ {key})]
  /\ UNCHANGED told

\* The call a message is marked read with: the dialog's button or the second
\* click on the row.  mailSeen_begin hides the message at once.
Mark(s, key, conn) ==
  /\ Change
  /\ Send(s, [NewCall("seen") EXCEPT
                !.connector = conn, !.key = key,
                !.old = IF key \in DOMAIN mailCache.mails THEN mailCache.mails[key] ELSE NoMail])
  /\ mailCache' = [mailCache EXCEPT !.pending = @ \cup {key},
                            !.mails = Restrict(@, DOMAIN @ \ {key})]
  /\ told' = [told EXCEPT
                !.contested = IF Marking(key) THEN @ \cup {key} ELSE @,
                !.disturbed = @ \/ key \notin DOMAIN mailCache.mails \cup mailCache.pending]

MarkRow(s, key) ==
  /\ key \in DOMAIN mailCache.mails /\ mailCache.mails[key].armed
  /\ Mark(s, key, connector)
  /\ UNCHANGED <<mailBound, mailServer, connector, timers, dialogs, mailNetwork>>

MarkDialog(s, d) ==
  /\ d \in dialogs
  /\ Mark(s, d.key, d.connector)
  /\ dialogs' = dialogs \ {d}
  /\ UNCHANGED <<mailBound, mailServer, connector, timers, mailNetwork>>

\* Mail::mail_view_content
View(s, key) ==
  /\ ~mailBound.arms
  /\ key \in DOMAIN mailCache.mails
  /\ Change
  /\ Send(s, [NewCall("content") EXCEPT !.key = key])
  /\ UNCHANGED <<mailBound, mailServer, connector, mailCache, timers, dialogs, mailNetwork, told>>

\* The button "get boxes" of the configuration.
GetBoxes(s) ==
  /\ mailBound.edits
  /\ Change
  /\ Send(s, NewCall("list"))
  /\ UNCHANGED <<mailBound, mailServer, connector, mailCache, timers, dialogs, mailNetwork, told>>

-----------------------------------------------------------------------------
(* The proxy (ImapProxy). *)

\* A faulty variant: every unread message, whatever the budget.
TrackAll(uids, left) == uids

\* ImapWorkBudget::trackedUids_get: the newest ones the budget allows.
trackedUids(uids, left) == {u \in uids : Cardinality({v \in uids : v > u}) < left}

\* ImapMailParser::headers_get: messages whose header is too long, or that FETCH
\* does not answer (mailBound.heavy), are left out without an error.
headers_get(uids) == uids \ mailBound.heavy

\* A faulty variant: only what is new.
DeltaOfNew(state, box, tracked) ==
  [validity |-> box.validity, removed |-> {},
   mails |-> headers_get(IF state.validity = box.validity THEN tracked \ state.known ELSE tracked)]

\* ImapMailboxDelta::new
Delta(state, box, tracked) ==
  LET known == IF state.validity = box.validity THEN state.known ELSE {}
  IN [validity |-> box.validity, removed |-> known \ tracked,
      mails |-> headers_get(tracked \ known)]

\* syncRequest_validate: more known UIDs than the budget are refused.
Refused(states) ==
  Cardinality(UNION {{b} \X states[b].known : b \in DOMAIN states}) > HeaderMaximum

\* One box of ImapProxy::sync_get: it is left out when the connector does not
\* select it or the mail server rejects SELECT (mailboxSync_get).
ServeBox(c) ==
  LET b == Min(DOMAIN c.states)
      rest == Restrict(c.states, DOMAIN c.states \ {b})
      box == mailServer[c.connector.account][b]
      tracked == trackedUids(box.unread, c.left)
      skipped == [c EXCEPT !.states = rest]
      served == [skipped EXCEPT !.left = @ - Cardinality(tracked),
                                !.result = [x \in DOMAIN @ \cup {b} |->
                                              IF x = b THEN Delta(c.states[b], box, tracked)
                                              ELSE @[x]]]
  IN IF ~isBoxSelected(c.connector, b) THEN {skipped}
     ELSE {served} \cup IF mailBound.refuses THEN {skipped} ELSE {}

\* mailboxes_get, for a sync whose connector names no boxes.
ListBoxes(c) ==
  [c EXCEPT !.step = "sent",
            !.states = [b \in Boxes |-> [validity |-> NoMail, known |-> {}]]]

\* mailContentFromSession_get and mailSeenInSession_set: the UIDVALIDITY of the
\* key must be the box's.
ServeMessage(c) ==
  [c EXCEPT !.step =
    IF mailServer[c.connector.account][c.key.box].validity = c.key.validity
      THEN "ok" ELSE "error"]

\* A step of the proxy for a call on its way, up to its answer.
Served(c) ==
  CASE c.step = "list" -> {ListBoxes(c)}
    [] c.step = "sent" /\ c.kind = "sync" /\ Refused(c.states) -> {[c EXCEPT !.step = "error"]}
    [] c.step = "sent" /\ c.kind = "sync" /\ ~Refused(c.states) /\ c.states # NoBoxes -> ServeBox(c)
    [] c.step = "sent" /\ c.kind \in {"seen", "content"} -> {ServeMessage(c)}
    [] OTHER -> {[c EXCEPT !.step = "ok"]}

\* mailSeenInSession_set stores the flag on the mail server.
Serve(s) ==
  LET c == mailCall[s]
  IN /\ c # NoMail /\ c.step \in {"sent", "list"}
     /\ \E served \in Served(c) :
          /\ mailCall' = [mailCall EXCEPT ![s] = served]
          /\ mailServer' = IF c.kind = "seen" /\ served.step = "ok"
                             THEN [mailServer EXCEPT
                                     ![c.connector.account][c.key.box].unread = @ \ {c.key.uid}]
                             ELSE mailServer
          /\ told' = IF c.kind = "seen" /\ served.step = "ok"
                       THEN [told EXCEPT !.read = @ \cup {<<c.connector.account, c.key>>}]
                       ELSE told
     /\ UNCHANGED <<mailBound, connector, mailCache, timers, dialogs, mailNetwork, changes>>

\* The call fails before or after its effect: connection, timeout, permits.
CallFails(s) ==
  /\ mailBound.fails
  /\ mailCall[s] # NoMail /\ mailCall[s].step # "error"
  /\ Change
  /\ mailCall' = [mailCall EXCEPT ![s].step = "error"]
  /\ UNCHANGED <<mailBound, mailServer, connector, mailCache, timers, dialogs, mailNetwork, told>>

-----------------------------------------------------------------------------
(* Answers. *)

\* mailSeen_rollback
Rollback(c) ==
  [mailCache EXCEPT !.pending = @ \ {c.key}, !.confirmed = @ \ {c.key},
                !.mails = IF c.old = NoMail THEN @
                          ELSE [k \in DOMAIN @ \cup {c.key} |->
                                  IF k = c.key THEN c.old ELSE @[k]]]

\* mailSeen_commit
Commit(c) ==
  [mailCache EXCEPT !.confirmed = IF c.key \in mailCache.pending THEN @ \cup {c.key} ELSE @]

\* boxSelection_migrate, on the connector as it is when the answer comes.
boxSelection_migrate(conn, listed) ==
  IF ~conn.extra THEN conn
  ELSE [conn EXCEPT !.allow = IF @ # NoMail THEN @ \cap listed ELSE listed \ conn.black]

AnswerSync(c) ==
  /\ mailCache' = sync_apply(mailCache, c.result, c.connector.account)
  /\ told' = [told EXCEPT !.contested = @ \cup TakenOff,
                          !.disturbed = @ \/ c.late \/ c.connector # connector]
  /\ UNCHANGED <<connector, dialogs>>

AnswerSeen(c) ==
  /\ mailCache' = IF c.step = "ok" THEN Commit(c) ELSE Rollback(c)
  /\ told' = IF c.step = "ok" THEN told
               ELSE [told EXCEPT !.disturbed = @ \/ c.key \notin mailCache.pending]
  /\ UNCHANGED <<connector, dialogs>>

AnswerContent(c) ==
  /\ dialogs' = dialogs \cup {[key |-> c.key, connector |-> c.connector]}
  /\ UNCHANGED <<connector, mailCache, told>>

AnswerList(c) ==
  /\ connector' = boxSelection_migrate(connector, Boxes)
  /\ mailCache' = topology_set(mailCache, Boxes, connector')
  /\ told' = [told EXCEPT !.contested = @ \cup TakenOff]
  /\ UNCHANGED dialogs

\* An answer is dropped when the holder's network is suspended by then.
MailAnswer(s) ==
  LET c == mailCall[s]
  IN /\ c # NoMail /\ c.step \in {"ok", "error"}
     /\ mailCall' = [t \in MailSlots |->
                       IF t = s THEN NoMail
                       ELSE IF c.kind = "sync" /\ mailNetwork /\ Out(t, "sync")
                              THEN [mailCall[t] EXCEPT !.late = TRUE] ELSE mailCall[t]]
     /\ \/ mailNetwork /\ c.step = "ok" /\ c.kind = "sync" /\ AnswerSync(c)
        \/ mailNetwork /\ c.kind = "seen" /\ AnswerSeen(c)
        \/ mailNetwork /\ c.step = "ok" /\ c.kind = "content" /\ AnswerContent(c)
        \/ mailNetwork /\ c.step = "ok" /\ c.kind = "list" /\ AnswerList(c)
        \/ /\ ~mailNetwork \/ (c.step = "error" /\ c.kind # "seen")
           /\ UNCHANGED <<connector, mailCache, dialogs, told>>
     /\ UNCHANGED <<mailBound, mailServer, timers, mailNetwork, changes>>

-----------------------------------------------------------------------------
(* The module's buttons and fields. *)

\* The first click on a row arms it for five seconds.
Arm(key) ==
  /\ mailBound.arms /\ key \in DOMAIN mailCache.mails /\ ~mailCache.mails[key].armed
  /\ Change
  /\ mailCache' = [mailCache EXCEPT !.mails[key].armed = TRUE]
  /\ timers' = [k \in DOMAIN timers \cup {key} |->
                  IF k \notin DOMAIN timers THEN 1
                  ELSE IF k = key THEN timers[k] + 1 ELSE timers[k]]
  /\ UNCHANGED <<mailBound, mailServer, connector, dialogs, mailCall, mailNetwork, told>>

TimerFires(key) ==
  /\ key \in DOMAIN timers
  /\ timers' = IF timers[key] = 1 THEN Restrict(timers, DOMAIN timers \ {key})
               ELSE [timers EXCEPT ![key] = @ - 1]
  /\ mailCache' = IF key \in DOMAIN mailCache.mails THEN [mailCache EXCEPT !.mails[key].armed = FALSE]
              ELSE mailCache
  /\ UNCHANGED <<mailBound, mailServer, connector, dialogs, mailCall, mailNetwork, changes,
                 told>>

\* The fields of the connection, and Mail::import when another browser edited
\* them: neither touches the cache.
EditAccount(account) ==
  /\ mailBound.edits /\ account # connector.account
  /\ Change
  /\ connector' = [connector EXCEPT !.account = account]
  /\ told' = [told EXCEPT !.disturbed =
                @ \/ mailCache.pending # {} \/ DOMAIN mailCache.mails # {} \/ dialogs # {}
                  \/ \E s \in MailSlots : mailCall[s] # NoMail]
  /\ UNCHANGED <<mailBound, mailServer, mailCache, timers, dialogs, mailCall, mailNetwork>>

boxSelection_set(conn, b, selected) ==
  LET allowed == IF conn.allow = NoMail THEN {} ELSE conn.allow
  IN [conn EXCEPT !.extra = TRUE,
                  !.allow = IF selected THEN allowed \cup {b} ELSE allowed \ {b}]

\* switchBoxFn, over the boxes listed last.
SwitchBox(b) ==
  /\ mailBound.edits /\ b \in mailCache.boxes
  /\ Change
  /\ connector' = boxSelection_set(connector, b, ~isBoxSelected(connector, b))
  /\ mailCache' = topology_set(mailCache, mailCache.boxes, connector')
  /\ told' = [told EXCEPT !.contested = @ \cup TakenOff]
  /\ UNCHANGED <<mailBound, mailServer, timers, dialogs, mailCall, mailNetwork>>

\* A password rotation suspends the network of the holder for a while.
Suspend ==
  /\ mailBound.suspends /\ mailNetwork
  /\ Change
  /\ mailNetwork' = FALSE
  /\ UNCHANGED <<mailBound, mailServer, connector, mailCache, timers, dialogs, mailCall, told>>

Resume ==
  /\ ~mailNetwork
  /\ mailNetwork' = TRUE
  /\ UNCHANGED <<mailBound, mailServer, connector, mailCache, timers, dialogs, mailCall, changes,
                 told>>

\* Other mail clients and the mail server.
BoxChanges(a, b) ==
  /\ mailBound.edits \/ a = connector.account \* bound: the accounts that matter
  /\ Change
  /\ LET box == mailServer[a][b]
     IN \/ /\ box.last < MaxUid \* a message comes
           /\ mailServer' = [mailServer EXCEPT ![a][b].last = @ + 1,
                                               ![a][b].unread = @ \cup {box.last + 1}]
           /\ UNCHANGED told
        \/ \E u \in box.unread : \* read or deleted elsewhere
             /\ mailServer' = [mailServer EXCEPT ![a][b].unread = @ \ {u}]
             /\ UNCHANGED told
        \/ \E u \in (1..box.last) \ box.unread : \* marked unread elsewhere
             /\ mailServer' = [mailServer EXCEPT ![a][b].unread = @ \cup {u}]
             /\ told' = [told EXCEPT
                           !.read = @ \ {<<a, [box |-> b, validity |-> box.validity, uid |-> u]>>}]
        \/ /\ box.validity + 1 \in Validities \* the box is made anew
           /\ mailServer' = [mailServer EXCEPT
                               ![a][b] = [validity |-> box.validity + 1, last |-> 0, unread |-> {}]]
           /\ UNCHANGED told
  /\ UNCHANGED <<mailBound, connector, mailCache, timers, dialogs, mailCall, mailNetwork>>

MailNext ==
  \/ \E s \in MailSlots :
       \/ Sync(s) \/ GetBoxes(s) \/ Serve(s) \/ CallFails(s) \/ MailAnswer(s)
       \/ \E key \in DOMAIN mailCache.mails : MarkRow(s, key) \/ View(s, key)
       \/ \E d \in dialogs : MarkDialog(s, d)
  \/ \E key \in DOMAIN mailCache.mails : Arm(key)
  \/ \E key \in DOMAIN timers : TimerFires(key)
  \/ \E a \in MailAccounts : EditAccount(a)
  \/ \E b \in Boxes : SwitchBox(b)
  \/ Suspend \/ Resume
  \/ \E a \in MailAccounts, b \in Boxes : BoxChanges(a, b)

\* The cron of the module ticks, calls have timeouts, timers fire and a
\* rotation ends.
MailFairness ==
  /\ WF_mailVars(\E s \in MailSlots : Sync(s))
  /\ \A s \in MailSlots : WF_mailVars(Serve(s)) /\ WF_mailVars(MailAnswer(s))
  /\ WF_mailVars(\E key \in DOMAIN timers : TimerFires(key))
  /\ WF_mailVars(Resume)

MailSpec == MailInit /\ [][MailNext]_mailVars /\ MailFairness

-----------------------------------------------------------------------------
(* Properties. *)

\* A message the mail server has marked read for this page is not shown again
\* by the answer to a sync, unless it became unread since, answers overlapped or
\* its box was deselected under the mark (pendingSeen, confirmedSeen and the order
\* of sync_apply).
MarkedReadStaysAway ==
  [][\A s \in MailSlots :
       Out(s, "sync") /\ mailCall'[s] = NoMail /\ ~told'.disturbed =>
         \A key \in DOMAIN mailCache'.mails \ DOMAIN mailCache.mails :
           <<connector.account, key>> \in told.read => key \in told.contested]_mailVars

\* What the page knows fits in one request: the proxy refuses more UIDs than it
\* answers, and would refuse every sync from then on (syncRequest_validate).
KnownFits ==
  mailCache.mailboxes # NoMail /\ ~told.disturbed => ~Refused(States(mailCache))

\* Once nobody changes the mailboxes, the page shows the newest unread messages
\* of the boxes it follows, as many as the budget allows, whatever was marked,
\* failed or refused before, except those whose mark was never answered and those
\* whose header the proxy leaves out, which take their part of the budget all the
\* same (headers_get).
Followed ==
  LET box(b) == mailServer[connector.account][b]
      before(b) == MapThenSumSet(LAMBDA x : Cardinality(box(x).unread),
                                 {x \in DOMAIN mailCache.mailboxes : x < b})
      newest(b) == {u \in box(b).unread :
                      Cardinality({v \in box(b).unread : v > u}) + before(b) < HeaderMaximum}
      keys == UNION {{[box |-> b, validity |-> box(b).validity, uid |-> u] :
                        u \in headers_get(newest(b))}
                       : b \in DOMAIN mailCache.mailboxes}
  IN mailCache.identity = connector /\ DOMAIN mailCache.mails = keys \ mailCache.pending
Converges ==
  <>[](told.disturbed \/ ~connector.extra \/ (mailCache.mailboxes # NoMail /\ Followed))
=============================================================================
