----------------------------- MODULE ModuleSync -----------------------------
(***************************************************************************)
(* The module holder of each browser (front/modules/module_holder.rs), the *)
(* Home page that opens and closes it (front/pages/home.rs), the calls it  *)
(* sends, and the documents the server keeps (api/modules/).               *)
(*                                                                         *)
(* Each browser has one tab and one holder.  A document is a block of the  *)
(* page or the list of links; its content is the moment it was last edited *)
(* at, which is also its timestamp (Cache::now, in nanoseconds), and the   *)
(* account it was edited under.  Ids are drawn at random: an id is the     *)
(* moment it was drawn.  The server runs one mutation of an account at a   *)
(* time (module AccountServer), so a call takes effect in one step.        *)
(***************************************************************************)
EXTENDS Naturals, FiniteSets, Functions

CONSTANTS
  Browsers, Accounts,
  Cases,     \* bounds, one of which holds in a behaviour: who signs in where,
             \* how often a browser opens its holder and starts a rotation,
             \* how many calls are on their way, the last moment, which
             \* opening and editing move towards, whether holders are closed
             \* and sessions expire, and where edit mode is used
  Slots,     \* bound on the calls on their way
  Saved,     \* the documents of each account at first
  FirstTime, \* the time at first
  MaxTime,   \* the last moment of all the cases
  None

VARIABLES
  bound,    \* the element of Cases this behaviour is about
  store,    \* account -> its documents on the server
  session,  \* browser -> the account its cookie is signed in to
  user,     \* browser -> the account the client holds the key of
  home,     \* browser -> the epoch of the Home shown, 0 on another page
  leaving,  \* browser -> a sign-out waits for the server
  rotating, \* browser -> a password rotation runs or is pending
  loaded,   \* browser -> is_initialized of the Home shown
  editing,  \* browser -> editMode of the Home shown
  holder,   \* browser -> its ModuleHolder
  call,     \* slot -> a call on its way
  time,
  suspends  \* browser -> rotations started, for their bound

vars == <<bound, store, session, user, home, leaving, rotating, loaded, editing,
          holder, call, time, suspends>>

Times == 0..MaxTime
Version == [at: Times, owner: Accounts, kind: {"links", "block"}]
\* A block of the page: what it holds, _sended, and the editor's dirty flag.
Block == {k \in [doc: Version, fetched: Times, dirty: BOOLEAN] : k.doc.kind = "block"}
Links == {l \in [id: Times, doc: Version, fetched: Times] : l.doc.kind = "links"}
Kinds == {"load", "cancel", "get", "save", "saveAll", "remove"}

\* Functions from some of the ids to S, for instance the documents under them.
IsTable(f, S) == DOMAIN f \subseteq Times /\ f \in [DOMAIN f -> S]
Nothing == [i \in {} |-> None]

IsHolder(h) ==
  /\ h \in [epoch: Nat,      \* _activeEpoch, 0 for none
            opened: Nat,     \* _epochCounter
            generation: Nat, suspended: BOOLEAN,
            links: Links \cup {None},
            blocks: {h.blocks},
            crons: {h.crons},  \* id -> it ticks
            due: SUBSET Times] \* refresh tasks spawned and not yet started
  /\ IsTable(h.blocks, Block) /\ IsTable(h.crons, BOOLEAN)

IsCall(c) ==
  /\ c \in [browser: Browsers, account: Accounts \cup {None}, \* the cookie's
            epoch: Nat, generation: Nat, kind: Kinds,
            sent: {c.sent}, answer: {c.answer},
            step: {"sent", "ok", "error", "auth"},
            live: BOOLEAN]    \* the task that waits for it is not cancelled
  /\ IsTable(c.sent, Version) /\ IsTable(c.answer, Version)

ASSUME SyncAssumption ==
  /\ Cases \subseteq [who: [Browsers -> SUBSET Accounts], opens: Nat, suspends: Nat,
                      calls: Nat, time: 0..MaxTime, closing: BOOLEAN,
                      layout: SUBSET Browsers]
  /\ FirstTime \in Nat /\ MaxTime \in Nat
  /\ FirstTime <= MaxTime
  /\ DOMAIN Saved = Accounts
  /\ \A a \in Accounts :
       /\ IsTable(Saved[a], Version)
       /\ \A i \in DOMAIN Saved[a] :
            Saved[a][i].owner = a /\ i <= FirstTime /\ Saved[a][i].at <= FirstTime
ASSUME NoneIsNothing == None \notin Accounts

TypeOK ==
  /\ bound \in Cases
  /\ DOMAIN store = Accounts
  /\ \A a \in Accounts : IsTable(store[a], Version)
  /\ session \in [Browsers -> Accounts \cup {None}]
  /\ user \in [Browsers -> Accounts \cup {None}]
  /\ home \in [Browsers -> Nat]
  /\ leaving \in [Browsers -> BOOLEAN]
  /\ rotating \in [Browsers -> BOOLEAN]
  /\ loaded \in [Browsers -> BOOLEAN]
  /\ editing \in [Browsers -> BOOLEAN]
  /\ DOMAIN holder = Browsers /\ \A b \in Browsers : IsHolder(holder[b])
  /\ DOMAIN call = Slots
  /\ \A s \in Slots : call[s] = None \/ IsCall(call[s])
  /\ time \in Times
  /\ suspends \in [Browsers -> Nat]

-----------------------------------------------------------------------------
(* The holder. *)

NewHolder ==
  [epoch |-> 0, opened |-> 0, generation |-> 0, suspended |-> FALSE,
   links |-> None, blocks |-> Nothing, crons |-> Nothing, due |-> {}]

Init ==
  /\ bound \in Cases
  /\ store = Saved
  /\ session = [b \in Browsers |-> None]
  /\ user = [b \in Browsers |-> None]
  /\ home = [b \in Browsers |-> 0]
  /\ leaving = [b \in Browsers |-> FALSE]
  /\ rotating = [b \in Browsers |-> FALSE]
  /\ loaded = [b \in Browsers |-> FALSE]
  /\ editing = [b \in Browsers |-> FALSE]
  /\ holder = [b \in Browsers |-> NewHolder]
  /\ call = [s \in Slots |-> None]
  /\ time = FirstTime
  /\ suspends = [b \in Browsers |-> 0]

\* A faulty variant: closing forgets to clear the blocks.
CloseInnerKeepsBlocks(h) ==
  [NewHolder EXCEPT !.opened = h.opened, !.generation = h.generation + 1,
                    !.blocks = h.blocks]

\* lifecycle_close_inner.  The links of a closed holder are never sent nor
\* shown, and lifecycle_open_inner makes new ones.
CloseInner(h) ==
  [NewHolder EXCEPT !.opened = h.opened, !.generation = h.generation + 1]

\* A faulty variant: any epoch closes the holder.
CloseAlways(h, epoch) == CloseInner(h)

CloseIf(h, epoch) == IF h.epoch = epoch THEN CloseInner(h) ELSE h

\* lifecycle_open_inner: LinksHolder::new stamps both of its caches.
OpenInner(h, account, now) ==
  LET doc == [at |-> now, owner |-> account, kind |-> "links"]
  IN [CloseInner(h) EXCEPT !.opened = h.opened + 1, !.epoch = h.opened + 1,
        !.links = [id |-> now, doc |-> doc, fetched |-> now]]

SuspendInner(h) ==
  IF h.suspended THEN h
  ELSE [h EXCEPT !.generation = h.generation + 1, !.suspended = TRUE,
          !.crons = [i \in DOMAIN h.crons |-> FALSE]]

ResumeInner(h) ==
  IF ~h.suspended THEN h
  ELSE [h EXCEPT !.suspended = FALSE,
          !.crons = [i \in DOMAIN h.crons |-> TRUE]]

\* network_generation_isActive
GenerationIsActive(h, epoch, generation) ==
  h.epoch = epoch /\ ~h.suspended /\ h.generation = generation

\* A faulty variant: import does not ask whether the block is older.
ImportedAlways(h, i, doc) == [doc |-> doc, fetched |-> doc.at, dirty |-> FALSE]

\* ModulePositions::import into a block that is shown, or a new block.
Imported(h, i, doc) ==
  IF i \in DOMAIN h.blocks /\ h.blocks[i].doc.at >= doc.at THEN h.blocks[i]
  ELSE [doc |-> doc, fetched |-> doc.at, dirty |-> FALSE]

\* module_inner_retrieve for the documents of an answer.  Links are imported
\* whatever their time; of several lists of links any one may come last.
LinksAfter(h, answer) ==
  LET ids == {i \in DOMAIN answer : answer[i].kind = "links"}
  IN IF ids = {} THEN {h.links}
     ELSE {[id |-> i, doc |-> answer[i], fetched |-> answer[i].at] : i \in ids}

AnsweredBlocks(answer) == {i \in DOMAIN answer : answer[i].kind = "block"}

Retrieved(h, answer, links, refresh) ==
  LET ids == AnsweredBlocks(answer)
  IN [h EXCEPT !.links = links,
        !.blocks = [i \in DOMAIN h.blocks \cup ids |->
                      IF i \in ids THEN Imported(h, i, answer[i])
                                   ELSE h.blocks[i]],
        !.crons = [i \in DOMAIN h.crons \cup ids |->
                      IF i \in ids THEN TRUE ELSE h.crons[i]],
        !.due = IF refresh THEN @ \cup ids ELSE @]

\* A faulty variant: the cron of a removed block is kept.
RemovedNotItsCron(h, ids) ==
  [h EXCEPT !.blocks = Restrict(h.blocks, DOMAIN h.blocks \ ids)]

Removed(h, ids) ==
  [h EXCEPT !.blocks = Restrict(h.blocks, DOMAIN h.blocks \ ids),
            !.crons = Restrict(h.crons, DOMAIN h.crons \ ids)]

-----------------------------------------------------------------------------
(* Sending.  network_deferredCall reads the generation and prepares the    *)
(* documents in one step; while suspended or signed out it sends nothing.  *)

Active(b) == home[b] # 0 /\ holder[b].epoch = home[b]
MaySend(b) == Active(b) /\ ~holder[b].suspended /\ user[b] # None

NewCall(b, kind, sent) ==
  [browser |-> b, account |-> session[b], epoch |-> holder[b].epoch,
   generation |-> holder[b].generation, kind |-> kind, sent |-> sent,
   step |-> "sent", answer |-> Nothing, live |-> TRUE]

Send(b, kind, sent) ==
  /\ Cardinality({s \in Slots : call[s] # None}) < bound.calls
  /\ \E s \in Slots : call[s] = None
                      /\ call' = [call EXCEPT ![s] = NewCall(b, kind, sent)]

BlockDocs(h, ids) == [i \in ids |-> h.blocks[i].doc]
AllDocs(h) ==
  [i \in {h.links.id} \cup DOMAIN h.blocks |->
     IF i = h.links.id THEN h.links.doc ELSE h.blocks[i].doc]

\* cache_mustUpdate: edited since it was fetched.
EditedDocs(h) ==
  Restrict(AllDocs(h),
    {i \in DOMAIN h.blocks : h.blocks[i].doc.at > h.blocks[i].fetched}
    \cup (IF h.links.doc.at > h.links.fetched THEN {h.links.id} ELSE {}))

\* Owner::cleanup: the tasks of browser b end.  What they sent may still
\* reach the server, unless the session it was sent under is gone (`gone`).
Writes == {"save", "saveAll", "remove"}
Cancelled(b, gone) ==
  [s \in Slots |->
     IF call[s] = None \/ call[s].browser # b THEN call[s]
     ELSE IF gone \/ call[s].step # "sent" \/ call[s].kind \notin Writes THEN None
     ELSE [call[s] EXCEPT !.live = FALSE]]

-----------------------------------------------------------------------------
(* Pages. *)

SignIn(b, a) ==
  /\ home[b] = 0 /\ user[b] = None /\ a \in bound.who[b]
  /\ session' = [session EXCEPT ![b] = a]
  /\ user' = [user EXCEPT ![b] = a]
  /\ holder' = [holder EXCEPT ![b] = CloseInner(@)]
  /\ call' = Cancelled(b, TRUE)
  /\ UNCHANGED <<bound, store, home, leaving, rotating, loaded, editing, time,
                 suspends>>

\* Home is mounted, with its ModuleActionFn.  When a Home is replaced by
\* another one, the cleanup of the old one runs last.
Mount(b) ==
  /\ user[b] # None /\ ~leaving[b]
  /\ holder[b].opened < bound.opens /\ time < bound.time
  /\ time' = time + 1
  /\ LET opened == OpenInner(holder[b], user[b], time + 1)
     IN holder' = [holder EXCEPT ![b] =
                     IF home[b] = 0 THEN opened ELSE CloseIf(opened, home[b])]
  /\ home' = [home EXCEPT ![b] = holder[b].opened + 1]
  /\ loaded' = [loaded EXCEPT ![b] = FALSE]
  /\ editing' = [editing EXCEPT ![b] = FALSE]
  /\ call' = Cancelled(b, FALSE)
  /\ UNCHANGED <<bound, store, session, user, leaving, rotating, suspends>>

\* Another page is shown: on_cleanup.
Leave(b) ==
  /\ home[b] # 0 /\ ~leaving[b] /\ bound.closing
  /\ holder' = [holder EXCEPT ![b] = CloseIf(@, home[b])]
  /\ home' = [home EXCEPT ![b] = 0]
  /\ editing' = [editing EXCEPT ![b] = FALSE]
  /\ call' = Cancelled(b, FALSE)
  /\ UNCHANGED <<bound, store, session, user, leaving, rotating, loaded, time,
                 suspends>>

\* user_disconnected, asked for by the user or because the key is gone.
SignOut(b) ==
  /\ home[b] # 0 /\ ~leaving[b] /\ bound.closing
  /\ leaving' = [leaving EXCEPT ![b] = TRUE]
  /\ holder' = [holder EXCEPT ![b] = CloseInner(@)]
  /\ call' = Cancelled(b, FALSE)
  /\ UNCHANGED <<bound, store, session, user, home, rotating, loaded, editing,
                 time, suspends>>

SignedOut(b) ==
  /\ leaving[b]
  /\ leaving' = [leaving EXCEPT ![b] = FALSE]
  /\ session' = [session EXCEPT ![b] = None]
  /\ user' = [user EXCEPT ![b] = None]
  /\ home' = [home EXCEPT ![b] = 0]
  /\ editing' = [editing EXCEPT ![b] = FALSE]
  /\ rotating' = [rotating EXCEPT ![b] = FALSE]
  /\ holder' = [holder EXCEPT ![b] = CloseIf(@, home[b])]
  /\ call' = Cancelled(b, TRUE)
  /\ UNCHANGED <<bound, store, loaded, time, suspends>>

\* The session expires, or is ended from elsewhere.
Expire(b) ==
  /\ session[b] # None /\ bound.closing
  /\ session' = [session EXCEPT ![b] = None]
  /\ UNCHANGED <<bound, store, user, home, leaving, rotating, loaded, editing,
                 holder, call, time, suspends>>

\* The effect of Home: the first load, once no rotation runs.
FirstLoad(b) ==
  /\ Active(b) /\ ~loaded[b] /\ ~rotating[b]
  /\ loaded' = [loaded EXCEPT ![b] = TRUE]
  /\ holder' = [holder EXCEPT ![b] = ResumeInner(@)]
  /\ IF user[b] = None THEN UNCHANGED call
     ELSE Send(b, "load", AllDocs(holder[b]))
  /\ UNCHANGED <<bound, store, session, user, home, leaving, rotating, editing,
                 time, suspends>>

\* passwordSubmit, or the effect of Home when a rotation is pending.
RotationStarts(b) ==
  /\ Active(b) /\ user[b] # None /\ ~rotating[b]
  /\ suspends[b] < bound.suspends
  /\ suspends' = [suspends EXCEPT ![b] = @ + 1]
  /\ rotating' = [rotating EXCEPT ![b] = TRUE]
  /\ holder' = [holder EXCEPT ![b] = SuspendInner(@)]
  /\ UNCHANGED <<bound, store, session, user, home, leaving, loaded, editing,
                 call, time>>

RotationEnds(b) ==
  /\ rotating[b]
  /\ rotating' = [rotating EXCEPT ![b] = FALSE]
  /\ holder' = [holder EXCEPT ![b] = ResumeInner(@)]
  /\ UNCHANGED <<bound, store, session, user, home, leaving, loaded, editing,
                 call, time, suspends>>

\* A Home opened while a rotation is pending: its effect suspends the network.
PendingRotation(b) ==
  /\ Active(b) /\ rotating[b] /\ ~holder[b].suspended
  /\ holder' = [holder EXCEPT ![b] = SuspendInner(@)]
  /\ UNCHANGED <<bound, store, session, user, home, leaving, rotating, loaded,
                 editing, call, time, suspends>>

-----------------------------------------------------------------------------
(* The user. *)

UnchangedByUser == UNCHANGED <<bound, store, session, user, home, leaving,
                               rotating, loaded, suspends>>

StartEditing(b) ==
  /\ Active(b) /\ ~editing[b] /\ b \in bound.layout
  /\ editing' = [editing EXCEPT ![b] = TRUE]
  /\ UNCHANGED <<holder, call, time>> /\ UnchangedByUser

Edited(doc) == [doc EXCEPT !.at = time + 1]

\* The text of a to-do list (`dirty`), or the place of a block.
EditBlock(b, i, dirty) ==
  /\ Active(b) /\ i \in DOMAIN holder[b].blocks
  /\ dirty \/ editing[b]
  /\ time < bound.time /\ time' = time + 1
  /\ LET k == holder[b].blocks[i]
     IN holder' = [holder EXCEPT
          ![b].blocks[i] = [k EXCEPT !.doc = Edited(k.doc), !.dirty = k.dirty \/ dirty]]
  /\ UNCHANGED <<editing, call>> /\ UnchangedByUser

\* The dialogs of the links test network_isActive; dragging a link does not.
EditLinks(b) ==
  /\ Active(b) /\ editing[b]
  /\ time < bound.time /\ time' = time + 1
  /\ holder' = [holder EXCEPT ![b].links.doc = Edited(@)]
  /\ UNCHANGED <<editing, call>> /\ UnchangedByUser

\* blocks_insert: both caches of the new block say now, and no cron ticks.
AddBlock(b) ==
  /\ Active(b) /\ editing[b] /\ user[b] # None
  /\ time < bound.time /\ time' = time + 1
  /\ LET doc == [at |-> time + 1, owner |-> user[b], kind |-> "block"]
         new == [doc |-> doc, fetched |-> time + 1, dirty |-> FALSE]
     IN holder' = [holder EXCEPT
          ![b].blocks = [i \in DOMAIN @ \cup {time + 1} |->
                           IF i = time + 1 THEN new ELSE @[i]]]
  /\ UNCHANGED <<editing, call>> /\ UnchangedByUser

\* save_now of the editor: the flag is cleared whether or not it is sent.
Save(b, i) ==
  /\ Active(b) /\ i \in DOMAIN holder[b].blocks /\ holder[b].blocks[i].dirty
  /\ holder' = [holder EXCEPT ![b].blocks[i].dirty = FALSE]
  /\ IF MaySend(b) THEN Send(b, "save", BlockDocs(holder[b], {i}))
                   ELSE UNCHANGED call
  /\ UNCHANGED <<editing, time>> /\ UnchangedByUser

\* editMode_validate and editMode_cancel.  Edit mode ends when the call ends,
\* at once when it is not sent.
EndEditing(b, kind, docs) ==
  /\ Active(b) /\ editing[b]
  /\ IF MaySend(b) THEN Send(b, kind, docs) /\ UNCHANGED editing
     ELSE editing' = [editing EXCEPT ![b] = FALSE] /\ UNCHANGED call
  /\ UNCHANGED <<holder, time>> /\ UnchangedByUser

SaveAll(b) == Active(b) /\ EndEditing(b, "saveAll", AllDocs(holder[b]))

\* With nothing edited the call ends without being sent.
Cancel(b) ==
  /\ Active(b)
  /\ LET docs == EditedDocs(holder[b])
     IN IF docs # Nothing THEN EndEditing(b, "cancel", docs)
        ELSE /\ editing[b]
             /\ editing' = [editing EXCEPT ![b] = FALSE]
             /\ UNCHANGED <<holder, call, time>> /\ UnchangedByUser

Remove(b, i) ==
  /\ MaySend(b) /\ editing[b] /\ i \in DOMAIN holder[b].blocks
  /\ Send(b, "remove", BlockDocs(holder[b], {i}))
  /\ UNCHANGED <<holder, editing, time>> /\ UnchangedByUser

\* A cron ticks: module_refresh spawns the refresh of the block.
Tick(b, i) ==
  /\ i \in DOMAIN holder[b].crons /\ holder[b].crons[i]
  /\ Active(b) /\ ~holder[b].suspended
  /\ i \in DOMAIN holder[b].blocks /\ i \notin holder[b].due
  /\ holder' = [holder EXCEPT ![b].due = @ \cup {i}]
  /\ UNCHANGED <<editing, call, time>> /\ UnchangedByUser

\* The refresh runs: a to-do list asks for its document.
Refresh(b, i) ==
  /\ i \in holder[b].due
  /\ holder' = [holder EXCEPT ![b].due = @ \ {i}]
  /\ IF MaySend(b) /\ i \in DOMAIN holder[b].blocks
     THEN Send(b, "get", BlockDocs(holder[b], {i})) ELSE UNCHANGED call
  /\ UNCHANGED <<editing, time>> /\ UnchangedByUser

-----------------------------------------------------------------------------
(* The server. *)

\* A faulty variant: the timestamps are not compared.
PutAlways(docs, i, doc, overwrite) == doc

\* ModuleContent::update for the documents S of a call, or remove.
Put(docs, i, doc, overwrite) ==
  IF ~overwrite /\ i \in DOMAIN docs /\ docs[i].at >= doc.at
  THEN docs[i] ELSE doc

StoreAfter(docs, c, S) ==
  CASE c.kind \in {"save", "saveAll"} ->
         [i \in DOMAIN docs \cup S |->
            IF i \in S THEN Put(docs, i, c.sent[i], c.kind = "saveAll")
                       ELSE docs[i]]
    [] c.kind = "remove" -> Restrict(docs, DOMAIN docs \ S)
    [] OTHER -> docs

\* API_modules_retrieve: what is newer than what was named, and all that was
\* not named; API_module_retrieve: the document named, if it is newer.
AnswerOf(docs, c) ==
  LET newer == {i \in DOMAIN c.sent \cap DOMAIN docs :
                  docs[i].at > c.sent[i].at}
  IN CASE c.kind \in {"load", "cancel"} ->
            Restrict(docs, newer \cup (DOMAIN docs \ DOMAIN c.sent))
       [] c.kind = "get" -> Restrict(docs, newer)
       [] OTHER -> Nothing

\* A call nobody waits for is forgotten once the server is done with it.
Answered(s, step, answer) ==
  call' = [call EXCEPT ![s] =
             IF @.live THEN [@ EXCEPT !.step = step, !.answer = answer]
                       ELSE None]

UnchangedByServer == UNCHANGED <<bound, session, user, home, leaving, rotating,
                                 loaded, editing, holder, time, suspends>>

Reaches(s) == call[s] # None /\ call[s].step = "sent"
Accepted(c) == c.account # None /\ session[c.browser] = c.account

Serve(s) ==
  /\ Reaches(s) /\ Accepted(call[s])
  /\ LET c == call[s]
         docs == store[c.account]
         missing == c.kind = "remove" /\ ~(DOMAIN c.sent \subseteq DOMAIN docs)
     IN /\ store' = [store EXCEPT ![c.account] =
                       StoreAfter(docs, c, DOMAIN c.sent)]
        /\ Answered(s, IF missing THEN "error" ELSE "ok", AnswerOf(docs, c))
  /\ UnchangedByServer

Refuse(s) ==
  /\ Reaches(s) /\ ~Accepted(call[s])
  /\ Answered(s, "auth", Nothing)
  /\ UNCHANGED store /\ UnchangedByServer

\* The call or its answer is lost, or a save fails: of a batch, any part may
\* have been stored.
Fail(s) ==
  /\ Reaches(s) /\ Accepted(call[s])
  /\ LET c == call[s]
         all == DOMAIN c.sent
     IN \E S \in (IF c.kind = "saveAll" THEN SUBSET all ELSE {{}, all}) :
          store' = [store EXCEPT ![c.account] = StoreAfter(@, c, S)]
  /\ Answered(s, "error", Nothing)
  /\ UnchangedByServer

-----------------------------------------------------------------------------
(* The rest of network_deferredCall, once the call has ended.  The toasts  *)
(* it waits for in between are left out: the generation is tested again    *)
(* after each of them, and an older generation never becomes active again. *)

Applied(h, c) ==
  CASE c.step = "ok" /\ c.kind \in {"load", "cancel", "get"} ->
         {Retrieved(h, c.answer, links, c.kind # "get") :
            links \in LinksAfter(h, c.answer)}
    [] c.step = "ok" /\ c.kind = "remove" -> {Removed(h, DOMAIN c.sent)}
    [] OTHER -> {h}

\* The task of edit mode goes on after the call, whatever became of it.
EditingAfter(c) ==
  IF c.kind \in {"cancel", "saveAll"} /\ holder[c.browser].epoch = c.epoch
  THEN [editing EXCEPT ![c.browser] = FALSE] ELSE editing

Finish(s) ==
  /\ call[s] # None /\ call[s].step # "sent"
  /\ LET c == call[s]
         h == holder[c.browser]
     IN IF ~GenerationIsActive(h, c.epoch, c.generation)
        THEN /\ call' = [call EXCEPT ![s] = None]
             /\ editing' = EditingAfter(c)
             /\ UNCHANGED <<user, holder>>
        ELSE IF c.step = "auth"
        THEN /\ user' = [user EXCEPT ![c.browser] = None]
             /\ holder' = [holder EXCEPT ![c.browser] = CloseIf(@, c.epoch)]
             /\ call' = Cancelled(c.browser, TRUE)
             /\ UNCHANGED editing
        ELSE /\ \E applied \in Applied(h, c) :
                  holder' = [holder EXCEPT ![c.browser] = applied]
             /\ call' = [call EXCEPT ![s] = None]
             /\ editing' = EditingAfter(c)
             /\ UNCHANGED user
  /\ UNCHANGED <<bound, store, session, home, leaving, rotating, loaded, time,
                 suspends>>

-----------------------------------------------------------------------------
Next ==
  \/ \E b \in Browsers :
       \/ \E a \in Accounts : SignIn(b, a)
       \/ Mount(b) \/ Leave(b) \/ SignOut(b) \/ SignedOut(b) \/ Expire(b)
       \/ FirstLoad(b)
       \/ RotationStarts(b) \/ RotationEnds(b) \/ PendingRotation(b)
       \/ StartEditing(b) \/ EditLinks(b) \/ AddBlock(b)
       \/ SaveAll(b) \/ Cancel(b)
       \/ \E i \in Times :
            \/ \E dirty \in BOOLEAN : EditBlock(b, i, dirty)
            \/ Save(b, i) \/ Remove(b, i) \/ Tick(b, i) \/ Refresh(b, i)
  \/ \E s \in Slots : Serve(s) \/ Refuse(s) \/ Fail(s) \/ Finish(s)

Spec == Init /\ [][Next]_vars
-----------------------------------------------------------------------------
(* Properties. *)

\* Whatever the server keeps for an account, and whatever an open holder
\* shows, was written under that account: closing a holder, ending its tasks
\* and refusing a cookie that is gone leave nothing of the account before
\* (lifecycle_close_inner, home.rs on_cleanup, user_disconnected).
ContentStaysWithItsAccount ==
  /\ \A a \in Accounts : \A i \in DOMAIN store[a] : store[a][i].owner = a
  /\ \A b \in Browsers : holder[b].epoch # 0 =>
       /\ holder[b].links.doc.owner = user[b]
       /\ \A i \in DOMAIN holder[b].blocks :
            holder[b].blocks[i].doc.owner = user[b]

\* Every cron belongs to a block that is shown by an open holder, and ticks
\* exactly while the network is not suspended, however suspensions, late
\* answers and removals fall (network_suspend_inner, add_cron).
CronsFollowTheNetwork ==
  \A b \in Browsers : \A i \in DOMAIN holder[b].crons :
    /\ holder[b].epoch # 0 /\ i \in DOMAIN holder[b].blocks
    /\ holder[b].crons[i] = ~holder[b].suspended

\* While a signed-in user looks at a Home, the holder is open under the epoch
\* of that Home: neither the cleanup of an earlier Home nor an answer to a
\* call of an earlier epoch has closed it (lifecycle_closeIf).
ShownHomeIsLive ==
  \A b \in Browsers :
    home[b] # 0 /\ user[b] # None /\ ~leaving[b] => holder[b].epoch = home[b]

\* While a holder stays open, a block goes to later versions only, also when a
\* retrieve sent before an edit is answered after it; and it disappears only
\* when the server has removed it (ModulePositions::import).
ShownBlocksGoForward ==
  [][\A b \in Browsers :
       holder'[b].epoch = holder[b].epoch =>
         \A i \in DOMAIN holder[b].blocks :
           \/ /\ i \in DOMAIN holder'[b].blocks
              /\ holder'[b].blocks[i].doc.at >= holder[b].blocks[i].doc.at
           \/ \E s \in Slots :
                /\ call[s] # None /\ call[s].browser = b /\ call[s].kind = "remove"
                /\ call[s].step = "ok" /\ i \in DOMAIN call[s].sent]_vars

\* A stored document is replaced by an older version only when edit mode saves
\* the whole page, and disappears only when it is removed: the automatic save
\* of a block never undoes a later edit of another browser, however late it
\* arrives (ModuleContent::update).
OnlySaveAllGoesBack ==
  [][\A a \in Accounts : \A i \in DOMAIN store[a] :
       \/ i \in DOMAIN store'[a] /\ store'[a][i].at >= store[a][i].at
       \/ \E s \in Slots :
            /\ call[s] # None /\ call[s].step = "sent" /\ call'[s] # call[s]
            /\ call[s].kind = IF i \in DOMAIN store'[a] THEN "saveAll" ELSE "remove"
            /\ i \in DOMAIN call[s].sent]_vars

=============================================================================
