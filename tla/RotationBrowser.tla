-------------------------- MODULE RotationBrowser --------------------------
(***************************************************************************)
(* A password rotation seen from the browser: the vault of keys in local   *)
(* storage and its copies in the tabs (src/front/utils/users_data.rs), the *)
(* requests on their way, and the account they reach.                      *)
(*                                                                         *)
(* The account is the atomic object of AtomicAccount, which AccountServer  *)
(* implements; a request takes effect on it, and on the session it carries, *)
(* in one step.  Requests may be overtaken, lost, or still arrive after    *)
(* the browser has given them up; so may answers.  Another browser of the  *)
(* same user works on the account meanwhile ("elsewhere").                 *)
(***************************************************************************)
EXTENDS AccountData, FiniteSets

CONSTANTS
  Tabs,        \* the tabs of the browser; they share storage and cookie
  Cases        \* bounds of the instances: the tabs that are open, the rotations and
               \* versions they get to, the requests and answers on their way at once

ASSUME CasesAssumption ==
  Cases \subseteq [tabs: SUBSET Tabs, rotations: SUBSET Rotations,
                  versions: 0 .. MaxVersion, inFlight: Nat \ {0}]

VARIABLES
  account, prepared,   \* the account and the snapshots handed out
  session,             \* the auth.user stored under the browser's cookie
  local,               \* the local-storage document: active and pending key
  held,                \* tab -> its signals, a copy of that document
  unseen,              \* tabs with a storage event they have not handled
  task,                \* tab -> the rotation or login it is busy with
  net,                 \* requests on their way to the server
  back,                \* answers on their way to a tab
  bounds,              \* the case that is checked
  sent, refused,       \* history: rotations sent, and dropped on a refusal
  crossed              \* history: a tab wrote the vault, or set out to, across
                       \* another one

vars == <<account, prepared, session, local, held, unseen, task, net, back,
          bounds, sent, refused, crossed>>

Server == INSTANCE AtomicAccount WITH account <- account, prepared <- prepared

User    == [version: Nat, rotation: Rotations \cup {None}]
Pending == [rotation: Rotations, old: Keys, new: Keys]
Vault   == [active: Keys, pending: Pending \cup {None}]
Task    == [step: {"prepare"}, old: Keys, new: Keys]
           \cup [step: {"finalize"}, pending: Pending]
           \cup [step: {"login"}, key: Keys]
Request == [kind: {"prepare"}, tab: Tabs, live: BOOLEAN, rotation: Rotations]
           \cup [kind: {"finalize"}, tab: Tabs, live: BOOLEAN, pending: Pending]
           \cup [kind: {"write"}, tab: Tabs, live: BOOLEAN, doc: Docs,
                 content: Blob \cup {None}]
Answer  == [tab: Tabs, kind: {"prepare", "finalize", "write"},
            rotation: Rotations \cup {None},
            code: {"OK", "AUTH_REQUIRED", "CONFLICT", "CURRENT_INVALID", "SERVER_ERROR"}]

ASSUME NoneIsNoVault == None \notin User \cup Pending \cup Vault \cup Task

TypeOK ==
  /\ account \in Account
  /\ prepared \in [Rotations -> Snapshot \cup {None}]
  /\ session \in User \cup {None}
  /\ local \in Vault \cup {None}
  /\ held \in [Tabs -> Vault \cup {None}]
  /\ unseen \in SUBSET Tabs
  /\ task \in [Tabs -> Task \cup {None}]
  /\ net \in SUBSET Request
  /\ back \in SUBSET Answer
  /\ bounds \in Cases
  /\ sent \in SUBSET Pending
  /\ refused \in SUBSET sent
  /\ crossed \in BOOLEAN

\* Everybody signed out; the account as it is after a sign-up.
Init ==
  /\ account \in {acc \in FreshAccounts : ~acc.legacy}
  /\ prepared = [rotation \in Rotations |-> None]
  /\ session = None
  /\ local = None
  /\ held = [t \in Tabs |-> None]
  /\ unseen = {}
  /\ task = [t \in Tabs |-> None]
  /\ net = {} /\ back = {} /\ sent = {} /\ refused = {}
  /\ bounds \in Cases
  /\ crossed = FALSE

-----------------------------------------------------------------------------
Current == session # None /\ session.version = account.version
Outdated == session # None /\ session.version # account.version

(* The vault. *)

OthersBusy(t) == \E u \in bounds.tabs \ {t} : task[u] # None

\* A tab writes the whole document and sets its own signals; the other tabs
\* get a storage event.  Nothing keeps it from writing over a document it has
\* not read yet, or one that another tab is working on.
VaultSet(t, vault) ==
  /\ crossed' = (crossed \/ t \in unseen \/ OthersBusy(t))
  /\ local' = vault
  /\ held' = [held EXCEPT ![t] = vault]
  /\ unseen' = (unseen \cup bounds.tabs) \ {t}

PendingOf(t) == IF held[t] = None THEN None ELSE held[t].pending

\* While a rotation runs or its outcome is unknown no module request leaves.
Suspended(t) == task[t] # None \/ PendingOf(t) # None

\* Bound: a tab starts a call only while few are on their way.
Room == Cardinality(net) + Cardinality(back) < bounds.inFlight

Ignored(m) == [m EXCEPT !.live = FALSE]

\* The answers to the tab's requests are no longer looked at: a write is
\* forgotten with the network generation, any request with its page.
Forget(t, kinds) ==
  /\ net' = {IF m.tab = t /\ m.kind \in kinds THEN Ignored(m) ELSE m : m \in net}
  /\ back' = {b \in back : ~(b.tab = t /\ b.kind \in kinds)}

\* The cookie's session is deleted: what is still on its way finds none.
Orphan ==
  /\ net' = {}
  /\ back' = back \cup {[tab |-> m.tab, kind |-> m.kind, code |-> "AUTH_REQUIRED",
                         rotation |-> None] : m \in {n \in net : n.live}}

-----------------------------------------------------------------------------
(* The tabs. *)

\* loginCheckAndCreate has accepted the passphrase and cycled the session id;
\* the tab goes on to fetch the preferences before it stores the key.
LoginSend(t) ==
  /\ held[t] = None /\ task[t] = None
  /\ session' = [version |-> account.version, rotation |-> None]
  /\ task' = [task EXCEPT ![t] = [step |-> "login", key |-> account.verifier]]
  /\ Orphan
  /\ crossed' = (crossed \/ unseen # {} \/ OthersBusy(t))
  /\ UNCHANGED <<account, prepared, local, held, unseen, sent, refused>>

\* login_apply: the key is stored unless the server denies the session, the
\* preferences then being created if there are none; if it does, all is undone.
LoginApply(t) ==
  /\ task[t] # None /\ task[t].step = "login"
  /\ task' = [task EXCEPT ![t] = None]
  /\ \/ /\ VaultSet(t, [active |-> task[t].key, pending |-> None])
        /\ \/ UNCHANGED account
           \/ \E d \in Docs, payload \in Payloads :
                /\ Current /\ account.docs[d] = None
                /\ account' = [account EXCEPT !.docs[d] =
                                 [key |-> task[t].key, payload |-> payload]]
        /\ UNCHANGED <<session, net, back>>
     \/ /\ ~Current
        /\ VaultSet(t, None)
        /\ session' = None
        /\ Orphan
        /\ UNCHANGED account
  /\ UNCHANGED <<prepared, sent, refused>>

\* Disconnecting: the server is told, the vault cleared whether it heard or not.
SignOut(t) ==
  /\ held[t] # None /\ task[t] = None
  /\ VaultSet(t, None)
  /\ \/ session' = None /\ Orphan
     \/ UNCHANGED <<session, net, back>>
  /\ UNCHANGED <<account, prepared, task, sent, refused>>

\* A faulty Sync: the requests under way when a pending key shows up still count.
SyncKeepsWrites(t) ==
  /\ t \in unseen
  /\ unseen' = unseen \ {t}
  /\ held' = [held EXCEPT ![t] = local]
  /\ \/ UNCHANGED session
     \/ local = None /\ session' = None
  /\ UNCHANGED <<account, prepared, local, crossed, task, net, back, sent, refused>>

\* browser_sync, and what Home's effects do with it: a tab that finds the vault
\* empty disconnects, one that finds a pending key suspends its requests.
Sync(t) ==
  /\ t \in unseen
  /\ unseen' = unseen \ {t}
  /\ held' = [held EXCEPT ![t] = local]
  /\ \/ /\ local # None
        /\ IF local.pending = None THEN UNCHANGED <<net, back>> ELSE Forget(t, {"write"})
        /\ UNCHANGED session
     \/ /\ local = None
        /\ \/ session' = None /\ Orphan
           \/ UNCHANGED <<session, net, back>>
  /\ UNCHANGED <<account, prepared, local, crossed, task, sent, refused>>

\* The page is loaded again, at any moment.
Reload(t) ==
  /\ held' = [held EXCEPT ![t] = local]
  /\ unseen' = unseen \ {t}
  /\ task' = [task EXCEPT ![t] = None]
  /\ Forget(t, {"prepare", "finalize", "write"})
  /\ UNCHANGED <<account, prepared, session, local, crossed, sent, refused>>

\* A module request: a document sealed with the tab's key, or its removal.
WriteSend(t, d, payload) ==
  /\ held[t] # None /\ ~Suspended(t) /\ Room
  /\ \A m \in net : ~(m.kind = "write" /\ m.tab = t)
  /\ net' = net \cup {[kind |-> "write", tab |-> t, live |-> TRUE, doc |-> d,
                       content |-> IF payload = None THEN None
                                   ELSE [key |-> held[t].active, payload |-> payload]]}
  /\ UNCHANGED <<account, prepared, session, local, held, unseen, crossed, task, back, sent, refused>>

\* network_deferredCall: AUTH_REQUIRED clears the vault, other answers do not
\* touch it.
WriteAnswered(t) ==
  \E b \in back :
    /\ b.tab = t /\ b.kind = "write"
    /\ back' = back \ {b}
    /\ IF b.code = "AUTH_REQUIRED" THEN VaultSet(t, None)
                                   ELSE UNCHANGED <<local, held, unseen, crossed>>
    /\ UNCHANGED <<account, prepared, session, task, net, sent, refused>>

\* passwordRotation_change up to its first await.  The id the server will draw
\* is already in the request.
ChangeBegin(t, rotation, new) ==
  /\ held[t] # None /\ ~Suspended(t) /\ Room
  /\ held[t].active # new
  /\ prepared[rotation] = None
  /\ \A m \in net : m.kind = "prepare" => m.rotation # rotation
  /\ task' = [task EXCEPT ![t] = [step |-> "prepare", old |-> held[t].active, new |-> new]]
  /\ net' = {IF m.tab = t THEN Ignored(m) ELSE m : m \in net}
            \cup {[kind |-> "prepare", tab |-> t, live |-> TRUE, rotation |-> rotation]}
  /\ back' = {b \in back : b.tab # t}
  /\ crossed' = (crossed \/ t \in unseen \/ OthersBusy(t))
  /\ UNCHANGED <<account, prepared, session, local, held, unseen, sent, refused>>

FinalizeRequest(t, pending) ==
  [kind |-> "finalize", tab |-> t, live |-> TRUE, pending |-> pending]

\* Nothing is stored: the request failed, the current passphrase was mistyped,
\* or a document does not open.
ChangeFails(t, b) ==
  /\ b.code # "AUTH_REQUIRED"
  /\ task' = [task EXCEPT ![t] = None]
  /\ UNCHANGED <<local, held, unseen, crossed, net, sent>>

\* A faulty ChangeStores: the pending key is kept in the tab only.
ChangeKeeps(t, b) ==
  LET pending == [rotation |-> b.rotation, old |-> task[t].old, new |-> task[t].new]
  IN /\ b.code = "OK" /\ held[t] # None
     /\ \A d \in Docs : LET blob == prepared[b.rotation].docs[d]
                        IN blob # None => blob.key = task[t].old
     /\ held' = [held EXCEPT ![t].pending = pending]
     /\ task' = [task EXCEPT ![t] = [step |-> "finalize", pending |-> pending]]
     /\ net' = net \cup {FinalizeRequest(t, pending)}
     /\ sent' = sent \cup {pending}
     /\ UNCHANGED <<local, unseen, crossed>>

\* Every document opens and is sealed again; the new key is stored as pending
\* before the request leaves.
ChangeStores(t, b) ==
  LET pending == [rotation |-> b.rotation, old |-> task[t].old, new |-> task[t].new]
  IN /\ b.code = "OK" /\ held[t] # None
     /\ \A d \in Docs : LET blob == prepared[b.rotation].docs[d]
                        IN blob # None => blob.key = task[t].old
     /\ VaultSet(t, [active |-> held[t].active, pending |-> pending])
     /\ task' = [task EXCEPT ![t] = [step |-> "finalize", pending |-> pending]]
     /\ net' = net \cup {FinalizeRequest(t, pending)}
     /\ sent' = sent \cup {pending}

ChangeDenied(t, b) ==
  /\ b.code = "AUTH_REQUIRED"
  /\ task' = [task EXCEPT ![t] = None]
  /\ VaultSet(t, None)
  /\ UNCHANGED <<net, sent>>

\* passwordRotation_change after its first await.
ChangeAnswered(t) ==
  \E b \in back :
    /\ b.tab = t /\ b.kind = "prepare"
    /\ back' = back \ {b}
    /\ ChangeFails(t, b) \/ ChangeStores(t, b) \/ ChangeDenied(t, b)
    /\ UNCHANGED <<account, prepared, session, refused>>

\* passwordRotation_resume: by the user, or when the page starts.
Resume(t) ==
  /\ task[t] = None /\ PendingOf(t) # None /\ Room
  /\ task' = [task EXCEPT ![t] = [step |-> "finalize", pending |-> PendingOf(t)]]
  /\ net' = net \cup {FinalizeRequest(t, PendingOf(t))}
  /\ UNCHANGED <<account, prepared, session, local, held, unseen, crossed, back, sent, refused>>

Definitive == {"CONFLICT", "CURRENT_INVALID"}

\* pending_promote and pending_clear act on the tab's own copy of the vault.
Owns(t) == PendingOf(t) # None /\ PendingOf(t).rotation = task[t].pending.rotation

\* A faulty Promote: a request that fails is taken for a success.
PromoteAnyway(t, b) ==
  /\ b.code \in {"OK", "SERVER_ERROR"} /\ Owns(t)
  /\ VaultSet(t, [active |-> PendingOf(t).new, pending |-> None])
  /\ UNCHANGED refused

Promote(t, b) ==
  /\ b.code = "OK" /\ Owns(t)
  /\ VaultSet(t, [active |-> PendingOf(t).new, pending |-> None])
  /\ UNCHANGED refused

\* A refusal that is final: the new key is dropped.
DropPending(t, b) ==
  /\ b.code \in Definitive /\ Owns(t)
  /\ VaultSet(t, [active |-> held[t].active, pending |-> None])
  /\ refused' = refused \cup {PendingOf(t)}

\* passwordRotation_finalizePending and what its callers do with the result.
FinalizeAnswered(t) ==
  \E b \in back :
    /\ b.tab = t /\ b.kind = "finalize"
    /\ back' = back \ {b}
    /\ task' = [task EXCEPT ![t] = None]
    /\ \/ Promote(t, b)
       \/ DropPending(t, b)
       \/ b.code = "AUTH_REQUIRED" /\ VaultSet(t, None) /\ UNCHANGED refused
       \/ /\ b.code = "SERVER_ERROR" \/ (b.code # "AUTH_REQUIRED" /\ ~Owns(t))
          /\ UNCHANGED <<local, held, unseen, crossed, refused>>
    /\ UNCHANGED <<account, prepared, session, net, sent>>

-----------------------------------------------------------------------------
(* The server, one request at a time. *)

\* mutation_begin and prepare spare a session that owns the account's receipt.
Spared == account.receipt # None /\ account.receipt.rotation = session.rotation

\* The answer to m is on its way, unless nobody waits for it.
AnswerTo(m, code, rotation) ==
  /\ net' = net \ {m}
  /\ back' = IF m.live
             THEN back \cup {[tab |-> m.tab, kind |-> m.kind, code |-> code,
                              rotation |-> rotation]}
             ELSE back

\* The request is refused as unauthenticated; its session, if any, is flushed.
Deny(m) ==
  /\ session' = None
  /\ AnswerTo(m, "AUTH_REQUIRED", None)
  /\ UNCHANGED <<account, prepared>>

ServeWrite(m) ==
  /\ m.kind = "write"
  /\ \/ /\ Current
        /\ m.content # None \/ account.docs[m.doc] # None
        /\ account' = [account EXCEPT !.docs = [account.docs EXCEPT ![m.doc] = m.content]]
        /\ AnswerTo(m, "OK", None)
        /\ UNCHANGED <<prepared, session>>
     \/ /\ \/ Current /\ m.content = None /\ account.docs[m.doc] = None
           \/ Outdated /\ Spared
        /\ AnswerTo(m, "SERVER_ERROR", None)
        /\ UNCHANGED <<account, prepared, session>>
     \/ /\ session = None \/ (Outdated /\ ~Spared)
        /\ Deny(m)

ServePrepare(m) ==
  /\ m.kind = "prepare"
  /\ \/ /\ Current
        /\ Server!Prepare(m.rotation)
        /\ AnswerTo(m, "OK", m.rotation)
        /\ UNCHANGED session
     \/ /\ Outdated /\ Spared
        /\ AnswerTo(m, "CONFLICT", None)
        /\ UNCHANGED <<account, prepared, session>>
     \/ /\ session = None \/ (Outdated /\ ~Spared)
        /\ Deny(m)

\* passwordRotationReceipt_matches for the request of a pending rotation.
Applied(p) ==
  /\ account.receipt = [rotation |-> p.rotation, old |-> p.old, new |-> p.new,
                        version |-> prepared[p.rotation].version + 1]
  /\ account.version = account.receipt.version

Agreed(p) == prepared[p.rotation] = SnapshotOf(account) /\ p.old = account.verifier

\* Applied now, applied before, refused, or not authenticated.  A response that
\* is cut takes the update of the session record with it.
ServeFinalize(m) ==
  LET p == m.pending IN
  /\ m.kind = "finalize"
  /\ \/ /\ Current /\ ~Applied(p) /\ Agreed(p)
        /\ account.version < bounds.versions
        /\ Server!Rotate(p.rotation, p.old, p.new)
        /\ \/ /\ session' = [version |-> account.version + 1, rotation |-> None]
              /\ AnswerTo(m, "OK", p.rotation)
           \/ /\ UNCHANGED session
              /\ AnswerTo(m, "SERVER_ERROR", p.rotation)
     \/ /\ Applied(p)
        /\ Current \/ (Outdated /\ session.rotation = p.rotation)
        /\ session' = [version |-> account.version, rotation |-> None]
        /\ AnswerTo(m, "OK", p.rotation)
        /\ UNCHANGED <<account, prepared>>
     \/ /\ Current /\ ~Applied(p) /\ ~Agreed(p)
        /\ session' = [session EXCEPT !.rotation = p.rotation]
        /\ AnswerTo(m, IF prepared[p.rotation].version = account.version
                          /\ p.old # account.verifier
                       THEN "CURRENT_INVALID" ELSE "CONFLICT", p.rotation)
        /\ UNCHANGED <<account, prepared>>
     \/ /\ \/ session = None
           \/ Outdated /\ ~(Applied(p) /\ session.rotation = p.rotation)
        /\ Deny(m)

\* The browser gives a request up while it is still on its way.
GiveUp(m) ==
  /\ m.live
  /\ net' = (net \ {m}) \cup {Ignored(m)}
  /\ back' = back \cup {[tab |-> m.tab, kind |-> m.kind, code |-> "SERVER_ERROR",
                         rotation |-> None]}
  /\ UNCHANGED <<account, prepared, session>>

\* A request nobody waits for is lost, or fails before it changes anything.
Lose(m) ==
  /\ ~m.live
  /\ net' = net \ {m}
  /\ UNCHANGED <<account, prepared, session, back>>

\* An answer is lost: the browser sees a failed request.
LoseAnswer(b) ==
  /\ b.code # "SERVER_ERROR"
  /\ back' = (back \ {b}) \cup {[b EXCEPT !.code = "SERVER_ERROR"]}
  /\ UNCHANGED <<account, prepared, session, net>>

\* The session expires, or the server restarts.
SessionEnds ==
  /\ session # None
  /\ session' = None
  /\ UNCHANGED <<account, prepared, net, back>>

\* The other browser stores or removes a document, or rotates the passphrase.
ElsewhereWrites(d, payload) ==
  /\ account' = [account EXCEPT !.docs[d] =
                   IF payload = None THEN None
                   ELSE [key |-> account.verifier, payload |-> payload]]
  /\ UNCHANGED <<prepared, session, net, back>>

ElsewhereRotates(rotation, new) ==
  /\ account.version < bounds.versions
  /\ account.verifier # new /\ prepared[rotation] = None
  /\ \A m \in net : m.kind = "prepare" => m.rotation # rotation
  /\ \A d \in Docs : account.docs[d] # None => account.docs[d].key = account.verifier
  /\ prepared' = [prepared EXCEPT ![rotation] = SnapshotOf(account)]
  /\ account' = Rotated(account, rotation, account.docs, account.verifier, new)
  /\ UNCHANGED <<session, net, back>>

-----------------------------------------------------------------------------
TabStep(t) ==
  \/ LoginSend(t) \/ LoginApply(t) \/ SignOut(t) \/ Sync(t) \/ Reload(t)
  \/ \E d \in Docs, payload \in Payloads \cup {None} : WriteSend(t, d, payload)
  \/ WriteAnswered(t)
  \/ \E rotation \in bounds.rotations, new \in Keys : ChangeBegin(t, rotation, new)
  \/ ChangeAnswered(t) \/ Resume(t) \/ FinalizeAnswered(t)

OutsideStep ==
  /\ \/ \E m \in net : ServeWrite(m) \/ ServePrepare(m) \/ ServeFinalize(m)
                       \/ GiveUp(m) \/ Lose(m)
     \/ \E b \in back : LoseAnswer(b)
     \/ SessionEnds
     \/ \E d \in Docs, payload \in Payloads \cup {None} : ElsewhereWrites(d, payload)
     \/ \E rotation \in bounds.rotations, new \in Keys : ElsewhereRotates(rotation, new)
  /\ UNCHANGED <<local, held, unseen, crossed, task, sent, refused>>

Next == (OutsideStep \/ \E t \in bounds.tabs : TabStep(t)) /\ UNCHANGED bounds

Spec == Init /\ [][Next]_vars

-----------------------------------------------------------------------------
(* Properties. *)

\* A tab writes the pending key as its active one, and announces the change of
\* passphrase, only when it happened: the account has been at the rotation, and
\* is at it still, under the promoted key, unless it was rotated again since.
SuccessIsTrue ==
  [][\A t \in Tabs :
       /\ task[t] # None /\ task[t].step = "finalize" /\ task'[t] = None
       /\ PendingOf(t) = task[t].pending /\ local' # local
       /\ held'[t] = [active |-> task[t].pending.new, pending |-> None]
       /\ held'[t].active # held[t].active
       => \/ Applied(task[t].pending)
          \/ account.version > prepared[task[t].pending.rotation].version + 1]_vars

\* Whatever is lost, given up, retried or reloaded: while the account is at a
\* rotation of this browser, the browser holds the key, active or pending,
\* unless it was told that the rotation is refused, or two of its tabs worked
\* on the vault at once.
RotatorHoldsKey ==
  \A p \in sent :
    Applied(p) /\ local # None /\ p \notin refused /\ ~crossed
    => p.new \in {local.active} \cup {q.new : q \in {local.pending} \ {None}}

\* A request whose answer still counts, under the key its tab still holds,
\* never leaves a document that the account's passphrase does not open: what
\* can is a request overtaken by a rotation of its own browser.
OnlyOvertakenWritesStrand ==
  [][\A m \in net \ net' :
       /\ m.kind = "write" /\ m.live /\ m.content # None
       /\ account'.docs # account.docs
       /\ m.tab \notin unseen /\ held[m.tab] # None /\ m.content.key = held[m.tab].active
       /\ ~crossed /\ ~\E p \in refused : Applied(p)
       => m.content.key = account.verifier]_vars

\* What the page says of a rotation: "Your encrypted data remains available."
DataRemainsAvailable ==
  \A d \in Docs : account.docs[d] # None => account.docs[d].key = account.verifier
=============================================================================
