--------------------------- MODULE AccountServer ---------------------------
(***************************************************************************)
(* The server side of one account: the request handlers of                 *)
(* src/api/login/user_back.rs and src/api/modules/mod.rs running            *)
(* concurrently over the account file, the per-identity mutation mutex and *)
(* the session store.                                                      *)
(*                                                                         *)
(* tower-sessions gives every HTTP request its own copy of the session     *)
(* record, loaded at its first use and written back when the response      *)
(* leaves; user[r] is the "auth.user" entry of that copy.  A handler is    *)
(* split where it can be overtaken: before it takes the mutex, while it    *)
(* holds it, and between its answer and the write-back of its session.     *)
(***************************************************************************)
EXTENDS AccountData, FiniteSets

CONSTANTS
  Requests,    \* slots for requests in flight
  SessionIds   \* session ids (cookies); each is given out at most once

ASSUME NoneIsNoSlot == None \notin Requests \cup SessionIds

VARIABLES
  account,    \* the account file on disk
  prepared,   \* rotation id -> the snapshot passwordRotation_prepare returned
  store,      \* MemoryStore: session id -> the stored auth.user, or None
  issued,     \* the session ids given out so far
  mutex,      \* the request that holds the identity's mutation mutex
  pc,         \* where each request's handler stands
  call,       \* what each request asks
  sid,        \* the session id of each request's session copy
  user,       \* the auth.user of each request's session copy
  config,     \* the account file as a handler under the mutex has loaded it
  reply       \* the answer of a handler that has returned

vars == <<account, prepared, store, issued, mutex, pc, call, sid, user,
          config, reply>>

User == [version: Nat, rotation: Rotations \cup {None}]

ReadCall     == [kind: {"read"}]
LogoutCall   == [kind: {"logout"}]
LoginCall    == [kind: {"login"}, key: Keys, fresh: SessionIds]
WriteCall    == [kind: {"write"}, todo: SUBSET Docs, content: Blob \cup {None}]
PrepareCall  == [kind: {"prepare"}, rotation: Rotations]
FinalizeCall == [kind: {"finalize"}, rotation: Rotations, old: Keys, new: Keys]

Call == ReadCall \cup LogoutCall \cup LoginCall \cup WriteCall
        \cup PrepareCall \cup FinalizeCall

Replies == {"OK", "AUTH_REQUIRED", "CONFLICT", "CURRENT_INVALID",
            "SERVER_ERROR", "ROTATION_IN_PROGRESS"}

ASSUME NoneIsNoState == None \notin User \cup Account \cup Call \cup Replies

TypeOK ==
  /\ account \in Account
  /\ prepared \in [Rotations -> Snapshot \cup {None}]
  /\ store \in [SessionIds -> User \cup {None}]
  /\ issued \in SUBSET SessionIds
  /\ mutex \in Requests \cup {None}
  /\ pc \in [Requests -> {"idle", "loaded", "waiting", "holding", "done"}]
  /\ call \in [Requests -> Call \cup {None}]
  /\ sid \in [Requests -> SessionIds \cup {None}]
  /\ user \in [Requests -> User \cup {None}]
  /\ config \in [Requests -> Account \cup {None}]
  /\ reply \in [Requests -> Replies \cup {None}]

Init ==
  /\ account \in FreshAccounts
  /\ prepared = [rotation \in Rotations |-> None]
  /\ store = [id \in SessionIds |-> None]
  /\ issued = {}
  /\ mutex = None
  /\ pc = [r \in Requests |-> "idle"]
  /\ call = [r \in Requests |-> None]
  /\ sid = [r \in Requests |-> None]
  /\ user = [r \in Requests |-> None]
  /\ config = [r \in Requests |-> None]
  /\ reply = [r \in Requests |-> None]

-----------------------------------------------------------------------------
(* The session layer. *)

\* A request arrives with a cookie and its handler first reads the session:
\* the stored record is copied, and an id the store does not know is dropped.
Receive(r, c, cookie) ==
  /\ pc[r] = "idle"
  /\ pc' = [pc EXCEPT ![r] = "loaded"]
  /\ call' = [call EXCEPT ![r] = c]
  /\ IF cookie # None /\ store[cookie] # None
     THEN /\ sid' = [sid EXCEPT ![r] = cookie]
          /\ user' = [user EXCEPT ![r] = store[cookie]]
     ELSE UNCHANGED <<sid, user>>
  /\ UNCHANGED <<account, prepared, store, issued, mutex, config, reply>>

\* Session::flush: the copy is emptied and the stored record deleted at once.
Flush(r) ==
  /\ store' = IF sid[r] = None THEN store ELSE [store EXCEPT ![sid[r]] = None]
  /\ sid' = [sid EXCEPT ![r] = None]
  /\ user' = [user EXCEPT ![r] = None]

\* The response leaves: the copy is saved over the stored record, after an
\* error only when its credential version is current (serverErrorActivity_renew).
Respond(r) ==
  /\ pc[r] = "done"
  /\ store' = IF user[r] # None
                 /\ (reply[r] = "OK" \/ user[r].version = account.version)
              THEN [store EXCEPT ![sid[r]] = user[r]] ELSE store
  /\ pc' = [pc EXCEPT ![r] = "idle"]
  /\ sid' = [sid EXCEPT ![r] = None]
  /\ user' = [user EXCEPT ![r] = None]
  /\ reply' = [reply EXCEPT ![r] = None]
  /\ UNCHANGED <<account, prepared, issued, mutex, call, config>>

\* A faulty Return: an error path forgets the mutex.
ReturnKeepingMutex(r, code) ==
  /\ call' = [call EXCEPT ![r] = None]
  /\ pc' = [pc EXCEPT ![r] = "done"]
  /\ reply' = [reply EXCEPT ![r] = code]
  /\ config' = [config EXCEPT ![r] = None]
  /\ mutex' = IF mutex = r /\ code = "OK" THEN None ELSE mutex

\* The handler returns: it gives up the mutex, its input and what it had loaded.
Return(r, code) ==
  /\ call' = [call EXCEPT ![r] = None]
  /\ pc' = [pc EXCEPT ![r] = "done"]
  /\ reply' = [reply EXCEPT ![r] = code]
  /\ config' = [config EXCEPT ![r] = None]
  /\ mutex' = IF mutex = r THEN None ELSE mutex

\* A faulty Lock: the mutex keeps nobody out.
LockUnguarded(r) ==
  /\ mutex' = r
  /\ config' = [config EXCEPT ![r] = account]
  /\ pc' = [pc EXCEPT ![r] = "holding"]

\* The handler gets the mutex and loads the account file.
Lock(r) ==
  /\ mutex = None
  /\ mutex' = r
  /\ config' = [config EXCEPT ![r] = account]
  /\ pc' = [pc EXCEPT ![r] = "holding"]

Calls(r, kind) == pc[r] = "loaded" /\ call[r].kind = kind
Holds(r, kind) == pc[r] = "holding" /\ call[r].kind = kind

Stale(r) == user[r].version # account.version

\* passwordRotationReceiptId_matches for the rotation id of the session.
ReceiptOfSession(r) ==
  account.receipt # None /\ account.receipt.rotation = user[r].rotation

\* The receipt a finalize request leaves when it is applied.
ReceiptOf(c) == [rotation |-> c.rotation, version |-> prepared[c.rotation].version + 1,
                 old |-> c.old, new |-> c.new]

\* passwordRotationReceipt_matches
ReceiptMatches(acc, c) ==
  acc.receipt = ReceiptOf(c) /\ acc.version = acc.receipt.version

-----------------------------------------------------------------------------
(* Handlers. *)

\* fromSession finds no authenticated user.
Reject(r) ==
  /\ pc[r] = "loaded"
  /\ call[r].kind \notin {"login", "logout"}
  /\ user[r] = None
  /\ Return(r, "AUTH_REQUIRED")
  /\ UNCHANGED <<account, prepared, store, issued, sid, user>>

\* fromSessionWithConfig: a read takes no mutex.
Read(r) ==
  /\ Calls(r, "read")
  /\ user[r] # None
  /\ \/ /\ ~Stale(r)
        /\ Return(r, "OK")
        /\ UNCHANGED <<store, sid, user>>
     \/ /\ Stale(r)
        /\ Flush(r)
        /\ Return(r, "AUTH_REQUIRED")
  /\ UNCHANGED <<account, prepared, issued>>

Logout(r) ==
  /\ Calls(r, "logout")
  /\ Flush(r)
  /\ Return(r, "OK")
  /\ UNCHANGED <<account, prepared, issued>>

\* A faulty WriteBegin: being authenticated is enough.
WriteBeginUnchecked(r) ==
  /\ Calls(r, "write")
  /\ user[r] # None
  /\ Lock(r)
  /\ UNCHANGED <<account, prepared, store, issued, call, sid, user, reply>>

\* mutation_begin: the mutex is taken before the version is checked.
WriteBegin(r) ==
  /\ Calls(r, "write")
  /\ user[r] # None
  /\ mutex = None
  /\ \/ /\ ~Stale(r)
        /\ Lock(r)
        /\ UNCHANGED <<store, call, sid, user, reply>>
     \/ /\ Stale(r)
        /\ ReceiptOfSession(r)
        /\ Return(r, "ROTATION_IN_PROGRESS")
        /\ UNCHANGED <<store, sid, user>>
     \/ /\ Stale(r)
        /\ ~ReceiptOfSession(r)
        /\ Flush(r)
        /\ Return(r, "AUTH_REQUIRED")
  /\ UNCHANGED <<account, prepared, issued>>

\* One document of the request is stored (ModuleContent::update, remove,
\* accountPreferences_set): the whole loaded configuration is saved.
WriteDoc(r, d) ==
  LET saved == [config[r] EXCEPT !.docs = [config[r].docs EXCEPT ![d] = call[r].content]]
      rest  == call[r].todo \ {d}
  IN /\ Holds(r, "write")
     /\ d \in call[r].todo
     /\ call[r].content # None \/ config[r].docs[d] # None
     /\ account' = saved
     /\ \/ /\ rest = {}
           /\ Return(r, "OK")
        \/ /\ rest # {}
           /\ call' = [call EXCEPT ![r] = [call[r] EXCEPT !.todo = rest]]
           /\ config' = [config EXCEPT ![r] = saved]
           /\ UNCHANGED <<mutex, pc, reply>>
     /\ UNCHANGED <<prepared, store, issued, sid, user>>

\* ModuleErrors::SavedIsNewer: the stored document is kept, the loop goes on.
\* Whether the stored timestamp is newer is left open here.
WriteOutdated(r, d) ==
  LET rest == call[r].todo \ {d}
  IN /\ Holds(r, "write")
     /\ d \in call[r].todo
     /\ call[r].content # None /\ config[r].docs[d] # None
     /\ \/ /\ rest = {}
           /\ Return(r, "OK")
        \/ /\ rest # {}
           /\ call' = [call EXCEPT ![r] = [call[r] EXCEPT !.todo = rest]]
           /\ UNCHANGED <<mutex, pc, config, reply>>
     /\ UNCHANGED <<account, prepared, store, issued, sid, user>>

\* A file_save fails, or the document to remove is absent: the documents
\* already stored stay, the others are not attempted.
WriteFail(r) ==
  /\ Holds(r, "write")
  /\ Return(r, "SERVER_ERROR")
  /\ UNCHANGED <<account, prepared, store, issued, sid, user>>

LoginBegin(r) ==
  /\ Calls(r, "login")
  /\ Lock(r)
  /\ UNCHANGED <<account, prepared, store, issued, call, sid, user, reply>>

LoginRefuse(r) ==
  /\ Holds(r, "login")
  /\ call[r].key # config[r].verifier
  /\ Return(r, "AUTH_REQUIRED")
  /\ UNCHANGED <<account, prepared, store, issued, sid, user>>

\* The credential is right: a verifier of the former format is migrated, the
\* session id is cycled and the user established in the session copy.
LoginAccept(r) ==
  /\ Holds(r, "login")
  /\ call[r].key = config[r].verifier
  /\ account' = IF config[r].legacy THEN [config[r] EXCEPT !.legacy = FALSE] ELSE account
  /\ store' = IF sid[r] = None THEN store ELSE [store EXCEPT ![sid[r]] = None]
  /\ issued' = issued \cup {call[r].fresh}
  /\ sid' = [sid EXCEPT ![r] = call[r].fresh]
  /\ user' = [user EXCEPT ![r] = [version |-> config[r].version, rotation |-> None]]
  /\ Return(r, "OK")
  /\ UNCHANGED prepared

\* Saving the migrated verifier fails.
LoginFail(r) ==
  /\ Holds(r, "login")
  /\ call[r].key = config[r].verifier
  /\ config[r].legacy
  /\ Return(r, "SERVER_ERROR")
  /\ UNCHANGED <<account, prepared, store, issued, sid, user>>

\* passwordRotation_prepareFromSession holds the mutex without ever awaiting.
PreparePassword(r) ==
  /\ Calls(r, "prepare")
  /\ user[r] # None
  /\ mutex = None
  /\ \/ /\ ~Stale(r)
        /\ prepared' = [prepared EXCEPT ![call[r].rotation] = SnapshotOf(account)]
        /\ Return(r, "OK")
        /\ UNCHANGED <<store, sid, user>>
     \/ /\ Stale(r)
        /\ ReceiptOfSession(r)
        /\ Return(r, "CONFLICT")
        /\ UNCHANGED <<prepared, store, sid, user>>
     \/ /\ Stale(r)
        /\ ~ReceiptOfSession(r)
        /\ Flush(r)
        /\ Return(r, "AUTH_REQUIRED")
        /\ UNCHANGED prepared
  /\ UNCHANGED <<account, issued>>

\* passwordRotation_finalizeFromSession before the mutex: the session copy is
\* marked with the rotation id, or owns the receipt of an applied request.
FinalizeMark(r) ==
  /\ Calls(r, "finalize")
  /\ user[r] # None
  /\ \/ /\ ~Stale(r)
        /\ user' = [user EXCEPT ![r] = [user[r] EXCEPT !.rotation = call[r].rotation]]
        /\ pc' = [pc EXCEPT ![r] = "waiting"]
        /\ UNCHANGED <<store, call, sid, mutex, config, reply>>
     \/ /\ Stale(r)
        /\ user[r].rotation = call[r].rotation
        /\ ReceiptMatches(account, call[r])
        /\ pc' = [pc EXCEPT ![r] = "waiting"]
        /\ UNCHANGED <<store, call, sid, user, mutex, config, reply>>
     \/ /\ Stale(r)
        /\ ~(user[r].rotation = call[r].rotation /\ ReceiptMatches(account, call[r]))
        /\ Flush(r)
        /\ Return(r, "AUTH_REQUIRED")
  /\ UNCHANGED <<account, prepared, issued>>

FinalizeLock(r) ==
  /\ pc[r] = "waiting"
  /\ Lock(r)
  /\ UNCHANGED <<account, prepared, store, issued, call, sid, user, reply>>

\* A faulty FinalizeAgain: any request of the applied rotation is answered.
FinalizeAgainById(r) ==
  /\ Holds(r, "finalize")
  /\ config[r].receipt # None
  /\ config[r].receipt.rotation = call[r].rotation
  /\ user' = [user EXCEPT ![r] = [version |-> config[r].version, rotation |-> None]]
  /\ Return(r, "OK")
  /\ UNCHANGED <<account, prepared, store, issued, sid>>

\* The request was already applied: its receipt answers for it.  The code also
\* verifies the new credential here, which AckedRotationIsInForce shows to hold.
FinalizeAgain(r) ==
  /\ Holds(r, "finalize")
  /\ ReceiptMatches(config[r], call[r])
  /\ call[r].new = config[r].verifier
  /\ user' = [user EXCEPT ![r] = [version |-> config[r].version, rotation |-> None]]
  /\ Return(r, "OK")
  /\ UNCHANGED <<account, prepared, store, issued, sid>>

\* The account was rotated by another request while this one waited.
FinalizeOvertaken(r) ==
  /\ Holds(r, "finalize")
  /\ ~ReceiptMatches(config[r], call[r])
  /\ user[r].version # config[r].version
  /\ Flush(r)
  /\ Return(r, "AUTH_REQUIRED")
  /\ UNCHANGED <<account, prepared, issued>>

\* A faulty FinalizeOpen: the receipt is not consulted.
FinalizeOpenUnread(r) == Holds(r, "finalize")

\* A finalize request that is neither a repetition nor overtaken.
FinalizeOpen(r) ==
  /\ Holds(r, "finalize")
  /\ ~ReceiptMatches(config[r], call[r])
  /\ user[r].version = config[r].version

\* The version, the credential and the revision are checked in this order.
FinalizeRefuse(r) ==
  /\ FinalizeOpen(r)
  /\ \/ /\ prepared[call[r].rotation].version # config[r].version
        /\ Return(r, "CONFLICT")
     \/ /\ prepared[call[r].rotation].version = config[r].version
        /\ call[r].old # config[r].verifier
        /\ Return(r, "CURRENT_INVALID")
     \/ /\ prepared[call[r].rotation] # SnapshotOf(config[r])
        /\ prepared[call[r].rotation].version = config[r].version
        /\ call[r].old = config[r].verifier
        /\ Return(r, "CONFLICT")
  /\ UNCHANGED <<account, prepared, store, issued, sid, user>>

FinalizeAgreed(r) ==
  /\ FinalizeOpen(r)
  /\ prepared[call[r].rotation] = SnapshotOf(config[r])
  /\ call[r].old = config[r].verifier

\* Verifier, documents, version and receipt are saved by one file_save.
FinalizeCommit(r) ==
  /\ FinalizeAgreed(r)
  /\ config[r].version < MaxVersion
  /\ account' = Rotated(config[r], call[r].rotation, prepared[call[r].rotation].docs,
                        call[r].old, call[r].new)
  /\ user' = [user EXCEPT ![r] = [version |-> config[r].version + 1, rotation |-> None]]
  /\ Return(r, "OK")
  /\ UNCHANGED <<prepared, store, issued, sid>>

\* A faulty FinalizeFail: the session is moved to the new version first.
FinalizeFailAhead(r) ==
  /\ FinalizeAgreed(r)
  /\ user' = [user EXCEPT ![r] = [version |-> config[r].version + 1, rotation |-> None]]
  /\ Return(r, "SERVER_ERROR")
  /\ UNCHANGED <<account, prepared, store, issued, sid>>

\* That file_save fails.
FinalizeFail(r) ==
  /\ FinalizeAgreed(r)
  /\ Return(r, "SERVER_ERROR")
  /\ UNCHANGED <<account, prepared, store, issued, sid, user>>

-----------------------------------------------------------------------------
(* Failures around the handlers. *)

\* The client goes away and the handler is dropped where it awaits, or its
\* response is lost before the session copy is written back.
Cancel(r) ==
  /\ \/ pc[r] \in {"loaded", "waiting", "done"}
     \/ Holds(r, "login") \/ Holds(r, "finalize")
  /\ pc' = [pc EXCEPT ![r] = "idle"]
  /\ call' = [call EXCEPT ![r] = None]
  /\ sid' = [sid EXCEPT ![r] = None]
  /\ user' = [user EXCEPT ![r] = None]
  /\ config' = [config EXCEPT ![r] = None]
  /\ reply' = [reply EXCEPT ![r] = None]
  /\ mutex' = IF mutex = r THEN None ELSE mutex
  /\ UNCHANGED <<account, prepared, store, issued>>

\* The process restarts: sessions live in memory, the account file on disk.
Restart ==
  /\ store' = [id \in SessionIds |-> None]
  /\ mutex' = None
  /\ pc' = [r \in Requests |-> "idle"]
  /\ call' = [r \in Requests |-> None]
  /\ sid' = [r \in Requests |-> None]
  /\ user' = [r \in Requests |-> None]
  /\ config' = [r \in Requests |-> None]
  /\ reply' = [r \in Requests |-> None]
  /\ UNCHANGED <<account, prepared, issued>>

\* A stored session that no request touches reaches the end of its inactivity
\* period of one day.
Expire(id) ==
  /\ store[id] # None
  /\ \A r \in Requests : sid[r] # id
  /\ store' = [store EXCEPT ![id] = None]
  /\ UNCHANGED <<account, prepared, issued, mutex, pc, call, sid, user, config, reply>>

-----------------------------------------------------------------------------
(* What clients send. *)

InFlight == {call[r] : r \in Requests} \ {None}

\* Random ids are never handed out twice.
UnusedId(id) == id \notin issued /\ \A c \in InFlight : c.kind = "login" => c.fresh # id
UnusedRotation(rotation) ==
  prepared[rotation] = None
  /\ \A c \in InFlight : c.kind = "prepare" => c.rotation # rotation

\* Login and prepare calls carry the fresh id the server will draw; a
\* finalize request is built from a snapshot that was returned.
MaySend(c) ==
  /\ c.kind = "write" => c.todo # {} /\ (c.content = None => Cardinality(c.todo) = 1)
  /\ c.kind = "login" => UnusedId(c.fresh)
  /\ c.kind = "prepare" => UnusedRotation(c.rotation)
  /\ c.kind = "finalize" => prepared[c.rotation] # None /\ c.old # c.new

Arrive(r) ==
  \E c \in Call, cookie \in issued \cup {None} : MaySend(c) /\ Receive(r, c, cookie)

\* The steps a handler takes by itself once it is called.
Handle(r) ==
  \/ Respond(r) \/ Reject(r) \/ Read(r) \/ Logout(r)
  \/ WriteBegin(r) \/ WriteFail(r)
  \/ \E d \in Docs : WriteDoc(r, d) \/ WriteOutdated(r, d)
  \/ LoginBegin(r) \/ LoginRefuse(r) \/ LoginAccept(r) \/ LoginFail(r)
  \/ PreparePassword(r)
  \/ FinalizeMark(r) \/ FinalizeLock(r) \/ FinalizeAgain(r)
  \/ FinalizeOvertaken(r) \/ FinalizeRefuse(r) \/ FinalizeCommit(r) \/ FinalizeFail(r)

Next ==
  \/ \E r \in Requests : Arrive(r) \/ Handle(r) \/ Cancel(r)
  \/ \E id \in SessionIds : Expire(id)
  \/ Restart

Spec == Init /\ [][Next]_vars

\* The executor keeps polling every handler it was given, and the asynchronous
\* mutex is eventually fair.  Nothing makes clients call, go away or expire.
FairSpec == Spec /\ \A r \in Requests : SF_vars(Handle(r))

-----------------------------------------------------------------------------
(* Properties. *)

\* The account file behaves as one that is read and written atomically: no
\* handler saves over a change it has not seen, a rotation replaces exactly
\* what it was prepared from, and is applied at most once however often it is
\* sent, whatever is cancelled, refused or restarted in between.
Atomic == INSTANCE AtomicAccount WITH account <- account, prepared <- prepared
ImplementsAtomicAccount == Atomic!Spec

\* Documents change only in a handler whose session copy carries the account's
\* credential version: a request authenticated before a rotation cannot write
\* after it, even if it was already waiting for the mutex.
OnlyCurrentSessionsWrite ==
  [][account'.docs # account.docs =>
       \E r \in Requests : /\ mutex = r /\ user[r] # None
                           /\ user[r].version = account.version]_vars

\* A session, stored or copied, never carries a version the account has not
\* reached: so "differs from the account's version" means "is older".
SessionsNeverAhead ==
  /\ \A id \in SessionIds : store[id] # None => store[id].version <= account.version
  /\ \A r \in Requests : user[r] # None => user[r].version <= account.version

\* The receipt always describes the rotation the file is at.
ReceiptVouches ==
  account.receipt # None =>
    account.receipt.version = account.version /\ account.receipt.new = account.verifier

\* A rotation is answered OK only while the account is at it, with exactly the
\* passphrases of the request; so the browser may promote the new key.
AckedRotationIsInForce ==
  [][\A r \in Requests :
       pc[r] = "holding" /\ call[r].kind = "finalize" /\ reply'[r] = "OK"
       => ReceiptMatches(account', call[r]) /\ account'.verifier = call[r].new]_vars

\* The answers on which the browser discards the new key are never given for
\* the rotation the account is at.
RefusedRotationIsNotInForce ==
  [][\A r \in Requests :
       /\ pc[r] = "holding" /\ call[r].kind = "finalize"
       /\ reply'[r] \in {"CONFLICT", "CURRENT_INVALID"}
       => ~ReceiptMatches(account', call[r])]_vars

\* No request waits for ever: the mutex always comes back, whichever way the
\* handlers before it ended.
EveryRequestAnswered ==
  \A r \in Requests : pc[r] # "idle" ~> pc[r] = "idle"
=============================================================================
