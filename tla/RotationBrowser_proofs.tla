----------------------- MODULE RotationBrowser_proofs -----------------------
(***************************************************************************)
(* Proofs about RotationBrowser, for any tabs, passphrases, documents,     *)
(* rotations and bounds.                                                   *)
(***************************************************************************)
EXTENDS RotationBrowser, TLAPS

-----------------------------------------------------------------------------
(* The inductive invariant. *)

\* Only the tabs of the case do anything, and a tab without an event to handle
\* has the vault that is stored.
Copies ==
  /\ \A t \in Tabs \ bounds.tabs : task[t] = None /\ held[t] = None
  /\ \A t \in bounds.tabs \ unseen : held[t] = local

Doing(t, step) == task[t] # None /\ task[t].step = step

\* A tab that rotates waits for one request, or for one answer to it; one that
\* waits for writes does nothing else, and what it is still told of writes is
\* not told to a tab that prepares a rotation.
Calls ==
  /\ \A m \in net : m.live =>
       IF m.kind = "write" THEN task[m.tab] = None /\ PendingOf(m.tab) = None
       ELSE /\ Doing(m.tab, m.kind)
            /\ m.kind = "finalize" => task[m.tab].pending = m.pending
  /\ \A b \in back : IF b.kind = "write" THEN ~Doing(b.tab, "prepare")
                                         ELSE Doing(b.tab, b.kind)
  /\ \A m, n \in net :
       m.live /\ n.live /\ m.tab = n.tab /\ m.kind # "write" /\ n.kind # "write" => m = n
  /\ \A b, c \in back : b.tab = c.tab /\ b.kind # "write" /\ c.kind # "write" => b = c
  /\ \A m \in net, b \in back :
       ~(m.live /\ m.tab = b.tab /\ m.kind # "write" /\ b.kind # "write")

\* The pending rotations the browser knows of.
Waiting == {m.pending : m \in {n \in net : n.kind = "finalize"}}
Kept == {held[t].pending : t \in {u \in Tabs : held[u] # None}} \ {None}

\* Whatever is pending somewhere was sent, and prepared before.
Prepared ==
  /\ \A p \in sent : prepared[p.rotation] # None
  /\ Waiting \subseteq sent /\ Kept \subseteq sent
  /\ local # None => local.pending \in sent \cup {None}
  /\ \A t \in Tabs : Doing(t, "finalize") => task[t].pending \in sent
  /\ \A b \in back : b.kind = "prepare" /\ b.code = "OK" =>
       b.rotation \in Rotations /\ prepared[b.rotation] # None

\* The account was rotated since the rotation was prepared.
Past(rotation) == account.version > prepared[rotation].version
Done(p) == Applied(p) \/ account.version > prepared[p.rotation].version + 1

\* The receipt tells the account's passphrase, no session is ahead of the
\* account, and OK is said of a rotation that was applied.
Truthful ==
  /\ account.receipt # None => account.verifier = account.receipt.new
  /\ session # None => session.version <= account.version
  /\ \A b \in back : b.kind = "finalize" /\ b.code = "OK" => Done(task[b.tab].pending)

\* The account is where this browser took it, or found it when it logged in,
\* and the browser was not told otherwise.
Ours ==
  \/ Current /\ ~\E p \in refused : Applied(p)
  \/ \E p \in sent \ refused : Applied(p)

\* While the tabs do not work across each other: the vault has the account's
\* passphrase, active or pending, while the account is ours.
Held ==
  local # None =>
    /\ Ours => \/ local.pending # None /\ Applied(local.pending)
               \/ /\ account.verifier = local.active
                  /\ local.pending # None => ~Past(local.pending.rotation)
    /\ \A p \in (Waiting \cup Kept) \ refused : p = local.pending \/ Past(p.rotation)

\* A tab that prepares a rotation has no other one pending, and the account
\* waits for it.
Preparing ==
  /\ \A t \in Tabs : Doing(t, "prepare") => local # None /\ local.pending = None
  /\ \A b \in back : b.kind = "prepare" /\ b.code = "OK" /\ Ours => ~Past(b.rotation)

\* A tab that logs in is alone, and will store the passphrase of the account.
LoggingIn ==
  \A t \in Tabs : Doing(t, "login") =>
    /\ local = None /\ Waiting = {}
    /\ \A u \in Tabs : held[u] = None /\ (u # t => task[u] = None)
    /\ Ours => account.verifier = task[t].key

Orderly == ~crossed => Held /\ Preparing /\ LoggingIn

IInv == TypeOK /\ Copies /\ Calls /\ Prepared /\ Truthful /\ Orderly

-----------------------------------------------------------------------------
(* The parts of records. *)

LEMMA SetDocType ==
  ASSUME NEW acc \in Account, NEW d \in Docs, NEW content \in Blob \cup {None}
  PROVE  LET saved == [acc EXCEPT !.docs = [acc.docs EXCEPT ![d] = content]]
         IN /\ saved \in Account /\ saved.version = acc.version
            /\ saved.receipt = acc.receipt /\ saved.verifier = acc.verifier
  BY DEF Account, Contents

LEMMA RotatedType ==
  ASSUME NEW acc \in Account, NEW rotation \in Rotations, NEW docs \in Contents,
         NEW old \in Keys, NEW new \in Keys
  PROVE  LET saved == Rotated(acc, rotation, docs, old, new)
         IN /\ saved \in Account
            /\ saved.version = acc.version + 1 /\ saved.verifier = new
            /\ saved.receipt # None
            /\ saved.receipt = [rotation |-> rotation, version |-> acc.version + 1,
                                old |-> old, new |-> new]
<1>1. Rekey(docs, new) \in Contents
  BY DEF Rekey, Contents, Blob
<1>2. acc.version + 1 \in Nat
  BY DEF Account
<1>3. [rotation |-> rotation, version |-> acc.version + 1, old |-> old, new |-> new] \in Receipt
  BY <1>2 DEF Receipt
<1> QED BY <1>1, <1>2, <1>3, NoneIsNoRecord DEF Rotated, Account

LEMMA RequestParts ==
  ASSUME NEW m \in Request
  PROVE  /\ m.kind \in {"prepare", "finalize", "write"} /\ m.tab \in Tabs /\ m.live \in BOOLEAN
         /\ m.kind = "prepare" => m.rotation \in Rotations
         /\ m.kind = "finalize" => m.pending \in Pending
         /\ m.kind = "write" => m.doc \in Docs /\ m.content \in Blob \cup {None}
  BY DEF Request

LEMMA IgnoredParts ==
  ASSUME NEW m \in Request
  PROVE  /\ Ignored(m) \in Request /\ Ignored(m).kind = m.kind /\ Ignored(m).tab = m.tab
         /\ ~Ignored(m).live
         /\ m.kind = "prepare" => Ignored(m).rotation = m.rotation
         /\ m.kind = "finalize" => Ignored(m).pending = m.pending
  BY DEF Ignored, Request

LEMMA TaskParts ==
  ASSUME NEW k \in Task
  PROVE  /\ k # None /\ k.step \in {"prepare", "finalize", "login"}
         /\ k.step = "prepare" => k.old \in Keys /\ k.new \in Keys
         /\ k.step = "finalize" => k.pending \in Pending
         /\ k.step = "login" => k.key \in Keys
  BY NoneIsNoVault DEF Task

LEMMA VaultParts ==
  ASSUME NEW v \in Vault
  PROVE  v # None /\ v.active \in Keys /\ v.pending \in Pending \cup {None}
  BY NoneIsNoVault DEF Vault

LEMMA PendingParts ==
  ASSUME NEW p \in Pending
  PROVE  /\ p # None /\ p.rotation \in Rotations /\ p.old \in Keys /\ p.new \in Keys
         /\ p = [rotation |-> p.rotation, old |-> p.old, new |-> p.new]
  BY NoneIsNoVault DEF Pending

\* What is known of a snapshot that was handed out.
LEMMA SnapshotParts ==
  ASSUME TypeOK, NEW r \in Rotations, prepared[r] # None
  PROVE  prepared[r] \in Snapshot /\ prepared[r].version \in Nat
  BY DEF TypeOK, Snapshot

LEMMA AccountParts ==
  ASSUME TypeOK
  PROVE  /\ account.version \in Nat /\ account.verifier \in Keys /\ account.docs \in Contents
         /\ account.receipt \in Receipt \cup {None}
         /\ session # None => session.version \in Nat
  BY DEF TypeOK, Account, User

\* The rotation the account is at: it has one identity, and is past its
\* preparation.
LEMMA AppliedParts ==
  ASSUME TypeOK, Truthful, NEW p \in Pending, prepared[p.rotation] # None, Applied(p)
  PROVE  /\ account.receipt # None /\ account.receipt.rotation = p.rotation
         /\ account.receipt.old = p.old /\ account.receipt.new = p.new
         /\ account.verifier = p.new
         /\ account.version = prepared[p.rotation].version + 1
         /\ Past(p.rotation) /\ Done(p)
<1>1. p.rotation \in Rotations /\ p.old \in Keys /\ p.new \in Keys
      /\ prepared[p.rotation].version \in Nat
  BY PendingParts, SnapshotParts
<1>2. [rotation |-> p.rotation, old |-> p.old, new |-> p.new,
       version |-> prepared[p.rotation].version + 1] \in Receipt
  BY <1>1 DEF Receipt
<1>3. account.receipt # None
  BY <1>2, NoneIsNoRecord DEF Applied
<1> QED BY <1>1, <1>3 DEF Applied, Truthful, Past, Done

LEMMA AppliedIsOne ==
  ASSUME TypeOK, Truthful, NEW p \in Pending, NEW q \in Pending,
         prepared[p.rotation] # None, prepared[q.rotation] # None, Applied(p), Applied(q)
  PROVE  p = q
  BY AppliedParts, PendingParts

LEMMA DoneIsPast ==
  ASSUME TypeOK, Truthful, NEW p \in Pending, prepared[p.rotation] # None, Done(p)
  PROVE  Past(p.rotation)
<1>1. prepared[p.rotation].version \in Nat /\ account.version \in Nat
  BY AccountParts, PendingParts, SnapshotParts
<1> QED BY <1>1, AppliedParts DEF Done, Past

\* A pending rotation the browser knows of is a Pending.
LEMMA KnownPending ==
  ASSUME TypeOK, Prepared
  PROVE  /\ sent \subseteq Pending /\ refused \subseteq sent
         /\ \A p \in sent : p \in Pending /\ prepared[p.rotation] # None
         /\ \A p \in Waiting \cup Kept : p \in sent
  BY DEF TypeOK, Prepared

-----------------------------------------------------------------------------
(* What a step does to the messages. *)

Codes == {"OK", "AUTH_REQUIRED", "CONFLICT", "CURRENT_INVALID", "SERVER_ERROR"}

LEMMA AnswerToOK ==
  ASSUME IInv, NEW m \in net, NEW code \in Codes, NEW rotation \in Rotations \cup {None},
         AnswerTo(m, code, rotation), UNCHANGED <<held, task>>
  PROVE  /\ net' \subseteq net /\ net' \in SUBSET Request /\ back' \in SUBSET Answer
         /\ Calls' /\ Waiting' \subseteq Waiting
         /\ \A b \in back' : \/ b \in back
                             \/ /\ m.live /\ b.tab = m.tab /\ b.kind = m.kind
                                /\ b.code = code /\ b.rotation = rotation
<1> DEFINE answer == [tab |-> m.tab, kind |-> m.kind, code |-> code, rotation |-> rotation]
<1>1. net' = net \ {m} /\ back' = (IF m.live THEN back \cup {answer} ELSE back)
  BY DEF AnswerTo
<1>2. m \in Request /\ net \subseteq Request /\ back \subseteq Answer
  BY DEF IInv, TypeOK
<1>3. /\ answer \in Answer /\ answer.tab = m.tab /\ answer.kind = m.kind
      /\ answer.code = code /\ answer.rotation = rotation
  BY <1>2, RequestParts DEF Answer, Codes
<1> HIDE DEF answer
<1>4. \A b \in back' : b \in back \/ (m.live /\ b = answer)
  BY <1>1
<1>5. Calls'
  <2>1. \A n \in net' : n \in net /\ n # m
    BY <1>1
  <2> QED BY <1>3, <1>4, <2>1 DEF IInv, Calls, Doing, PendingOf
<1>6. Waiting' \subseteq Waiting
  BY <1>1 DEF Waiting
<1> QED BY <1>1, <1>2, <1>3, <1>4, <1>5, <1>6

\* The session is deleted: the calls of the tabs that go on are answered.
LEMMA OrphanOK ==
  ASSUME IInv, Orphan, task' \in [Tabs -> Task \cup {None}],
         \A t \in Tabs : \/ task'[t] = task[t]
                         \/ /\ ~Doing(t, "prepare") /\ ~Doing(t, "finalize")
                            /\ ~Doing(t, "prepare")'
  PROVE  /\ net' = {} /\ back' \in SUBSET Answer /\ Calls' /\ Waiting' = {}
         /\ \A b \in back' : b \in back \/ b.code = "AUTH_REQUIRED"
<1>1. net' = {}
  BY DEF Orphan
<1>2. net \subseteq Request /\ back \subseteq Answer
  BY DEF IInv, TypeOK
<1>3. ASSUME NEW b \in back', b \notin back
      PROVE  \E m \in net : /\ m.live /\ b.tab = m.tab /\ b.kind = m.kind
                            /\ b.code = "AUTH_REQUIRED" /\ b \in Answer
                            /\ b = [tab |-> m.tab, kind |-> m.kind, code |-> "AUTH_REQUIRED",
                                    rotation |-> None]
  <2>1. PICK m \in net : m.live /\ b = [tab |-> m.tab, kind |-> m.kind,
                                        code |-> "AUTH_REQUIRED", rotation |-> None]
    BY <1>3 DEF Orphan
  <2> QED BY <1>2, <2>1, RequestParts DEF Answer
<1>4. \A b \in back' : b.kind # "write" =>
        /\ b \in back \/ \E m \in net : m.live /\ b.tab = m.tab /\ b.kind = m.kind
        /\ Doing(b.tab, b.kind) /\ b.tab \in Tabs /\ b.kind \in {"prepare", "finalize"}
  <2> SUFFICES ASSUME NEW b \in back', b.kind # "write"
               PROVE  /\ b \in back \/ \E m \in net : m.live /\ b.tab = m.tab /\ b.kind = m.kind
                      /\ Doing(b.tab, b.kind) /\ b.tab \in Tabs
                      /\ b.kind \in {"prepare", "finalize"}
    OBVIOUS
  <2>1. b \in Answer
    BY <1>2, <1>3
  <2>2. b.tab \in Tabs /\ b.kind \in {"prepare", "finalize"}
    BY <2>1 DEF Answer
  <2> QED BY <1>3, <2>2 DEF IInv, Calls
<1>5. Calls'
  <2>1. \A b \in back' : b.kind # "write" => Doing(b.tab, b.kind)'
    BY <1>4 DEF Doing
  <2>3. ASSUME NEW b \in back', b.kind = "write"
        PROVE  ~Doing(b.tab, "prepare")'
    <3>1. b.tab \in Tabs /\ ~Doing(b.tab, "prepare")
      <4>1. CASE b \in back
        BY <1>2, <2>3, <4>1 DEF IInv, Calls, Answer
      <4>2. CASE b \notin back
        <5>1. PICK m \in net : m.live /\ b.tab = m.tab /\ b.kind = m.kind
          BY <1>3, <4>2
        <5> QED BY <1>2, <2>3, <5>1, RequestParts DEF IInv, Calls, Doing
      <4> QED BY <4>1, <4>2
    <3> QED BY <3>1 DEF Doing
  <2>2. \A b, c \in back' : b.tab = c.tab /\ b.kind # "write" /\ c.kind # "write" => b = c
    <3> SUFFICES ASSUME NEW b \in back', NEW c \in back',
                        b.tab = c.tab, b.kind # "write", c.kind # "write"
                 PROVE  b = c
      OBVIOUS
    <3>1. CASE b \in back /\ c \in back
      BY <3>1 DEF IInv, Calls
    <3>2. CASE b \in back /\ c \notin back
      BY <1>3, <3>2 DEF IInv, Calls
    <3>3. CASE b \notin back /\ c \in back
      BY <1>3, <3>3 DEF IInv, Calls
    <3>4. CASE b \notin back /\ c \notin back
      BY <1>3, <3>4 DEF IInv, Calls
    <3> QED BY <3>1, <3>2, <3>3, <3>4
  <2> QED BY <1>1, <2>1, <2>2, <2>3 DEF Calls
<1>6. Waiting' = {}
  BY <1>1 DEF Waiting
<1> QED BY <1>1, <1>2, <1>3, <1>5, <1>6

LEMMA ForgetOK ==
  ASSUME IInv, NEW t \in Tabs, NEW kinds, Forget(t, kinds)
  PROVE  /\ net' \in SUBSET Request /\ back' \in SUBSET Answer
         /\ back' \subseteq back /\ Waiting' = Waiting
         /\ \A b \in back' : ~(b.tab = t /\ b.kind \in kinds)
         /\ \A m \in net' : m.live => m \in net /\ ~(m.tab = t /\ m.kind \in kinds)
<1>1. net \subseteq Request /\ back \subseteq Answer
  BY DEF IInv, TypeOK
<1>2. \A m \in net' : \/ m \in net /\ ~(m.tab = t /\ m.kind \in kinds)
                      \/ \E n \in net : m = Ignored(n)
  BY DEF Forget
<1>3. \A n \in net : n \in net' \/ Ignored(n) \in net'
  BY DEF Forget
<1>4. Waiting' = Waiting
  BY <1>1, <1>2, <1>3, IgnoredParts DEF Waiting
<1> QED BY <1>1, <1>2, <1>4, IgnoredParts DEF Forget

-----------------------------------------------------------------------------
(* What a step leaves alone. *)

\* The account is at the rotation it was at, under the same passphrase.
AccountStays ==
  /\ account'.version = account.version /\ account'.receipt = account.receipt
  /\ account'.verifier = account.verifier /\ prepared' = prepared

LEMMA Stays ==
  ASSUME AccountStays
  PROVE  /\ \A p : Applied(p)' <=> Applied(p)
         /\ \A p : Done(p)' <=> Done(p)
         /\ \A r : Past(r)' <=> Past(r)
  BY DEF AccountStays, Applied, Done, Past

\* The account stays ours only if it was, unless the session is another one.
LEMMA OursStays ==
  ASSUME IInv, AccountStays, sent' = sent, refused \subseteq refused',
         Current' => Current
  PROVE  Ours' => Ours
<1>1. \A p : Applied(p)' <=> Applied(p)
  BY Stays
<1>2. (\E p \in refused : Applied(p)) => (\E p \in refused' : Applied(p)')
  BY <1>1
<1>3. (\E p \in sent' \ refused' : Applied(p)') => (\E p \in sent \ refused : Applied(p))
  BY <1>1
<1> QED BY <1>2, <1>3 DEF Ours

LEMMA CurrentStays ==
  ASSUME AccountStays, session' \in {None, session}
  PROVE  Current' => Current
  BY DEF AccountStays, Current

LEMMA Frame ==
  ASSUME IInv, TypeOK', AccountStays,
         UNCHANGED <<local, held, unseen, task, crossed, sent, refused, bounds>>,
         Ours' => Ours, session' # None => session'.version <= account.version,
         Calls', Waiting' \subseteq Waiting,
         \A b \in back' : \/ b \in back \/ b.code # "OK" \/ b.kind = "write"
                          \/ b.kind = "finalize" /\ Done(task[b.tab].pending)
  PROVE  IInv'
<1>1. /\ \A p : Applied(p)' <=> Applied(p)
      /\ \A p : Done(p)' <=> Done(p)
      /\ \A r : Past(r)' <=> Past(r)
  BY Stays
<1>2. Kept' = Kept
  BY DEF Kept
<1>3. Copies'
  BY DEF IInv, Copies
<1>4. Prepared'
  BY <1>2 DEF IInv, Prepared, Doing, AccountStays
<1>5. Truthful'
  <2>1. account'.receipt # None => account'.verifier = account'.receipt.new
    BY DEF IInv, Truthful, AccountStays
  <2>2. session' # None => session'.version <= account'.version
    BY DEF AccountStays
  <2>3. \A b \in back' : b.kind = "finalize" /\ b.code = "OK" => Done(task[b.tab].pending)
    BY DEF IInv, Truthful
  <2> QED BY <1>1, <2>1, <2>2, <2>3 DEF Truthful
<1>6. Held => Held'
  <2>1. SUFFICES ASSUME Held, local # None
                 PROVE  Held'
    BY DEF Held
  <2>2. Ours' => \/ local.pending # None /\ Applied(local.pending)
                 \/ /\ account.verifier = local.active
                    /\ local.pending # None => ~Past(local.pending.rotation)
    BY <2>1 DEF Held
  <2>3. \A p \in (Waiting' \cup Kept') \ refused' : p = local.pending \/ Past(p.rotation)
    BY <1>2, <2>1 DEF Held
  <2> QED BY <1>1, <2>2, <2>3 DEF Held, AccountStays
<1>7. Preparing => Preparing'
  BY <1>1 DEF Preparing, Doing
<1>8. LoggingIn => LoggingIn'
  BY DEF LoggingIn, Doing, AccountStays
<1>9. Orderly'
  BY <1>6, <1>7, <1>8 DEF IInv, Orderly
<1> QED BY <1>3, <1>4, <1>5, <1>9 DEF IInv

-----------------------------------------------------------------------------
(* The steps of the server, of the network and of the other browser. *)

TabsRest == UNCHANGED <<local, held, unseen, task, crossed, sent, refused, bounds>>

\* A request is answered, and the account stays where it is.
LEMMA StepAnswer ==
  ASSUME IInv, TabsRest, NEW m \in net, NEW code \in Codes, NEW rotation \in Rotations \cup {None},
         AnswerTo(m, code, rotation), AccountStays, account' \in Account,
         session' \in User \cup {None}, session' # None => session'.version <= account.version,
         Ours' => Ours,
         code = "OK" /\ m.live => \/ m.kind = "write"
                                  \/ m.kind = "finalize" /\ Done(m.pending)
  PROVE  IInv'
<1> USE DEF TabsRest
<1>1. /\ net' \in SUBSET Request /\ back' \in SUBSET Answer /\ Calls' /\ Waiting' \subseteq Waiting
      /\ \A b \in back' : \/ b \in back
                          \/ /\ m.live /\ b.tab = m.tab /\ b.kind = m.kind
                             /\ b.code = code /\ b.rotation = rotation
  BY AnswerToOK
<1>2. TypeOK'
  BY <1>1 DEF IInv, TypeOK, AccountStays
<1>3. m.live /\ m.kind = "finalize" => task[m.tab].pending = m.pending
  BY DEF IInv, Calls
<1>4. \A b \in back' : \/ b \in back \/ b.code # "OK" \/ b.kind = "write"
                       \/ b.kind = "finalize" /\ Done(task[b.tab].pending)
  BY <1>1, <1>3
<1> HIDE DEF TabsRest
<1> QED BY <1>1, <1>2, <1>4, Frame DEF TabsRest

LEMMA StepDeny ==
  ASSUME IInv, TabsRest, NEW m \in net, Deny(m)
  PROVE  IInv'
<1>1. AccountStays /\ session' = None /\ account' = account
  BY DEF Deny, AccountStays
<1>2. Ours' => Ours
  BY <1>1, OursStays, CurrentStays DEF TabsRest
<1>3. account' \in Account
  BY <1>1 DEF IInv, TypeOK
<1>4. "AUTH_REQUIRED" \in Codes /\ None \in Rotations \cup {None}
      /\ AnswerTo(m, "AUTH_REQUIRED", None) /\ "AUTH_REQUIRED" # "OK"
  BY DEF Codes, Deny
<1> QED BY <1>1, <1>2, <1>3, <1>4, StepAnswer

LEMMA StepServeWrite ==
  ASSUME IInv, TabsRest, NEW m \in net, ServeWrite(m)
  PROVE  IInv'
<1>1. CASE Deny(m)
  BY <1>1, StepDeny
<1>2. CASE \E code \in {"OK", "SERVER_ERROR"} :
             AnswerTo(m, code, None) /\ AccountStays /\ account' \in Account /\ session' = session
  <2>1. PICK code \in {"OK", "SERVER_ERROR"} :
          AnswerTo(m, code, None) /\ AccountStays /\ account' \in Account /\ session' = session
    BY <1>2
  <2>2. code \in Codes /\ None \in Rotations \cup {None} /\ m.kind = "write"
    BY DEF Codes, ServeWrite
  <2>3. Ours' => Ours
    BY <2>1, OursStays, CurrentStays DEF TabsRest
  <2>4. session' \in User \cup {None} /\ (session' # None => session'.version <= account.version)
    BY <2>1 DEF IInv, TypeOK, Truthful
  <2> QED BY <2>1, <2>2, <2>3, <2>4, StepAnswer
<1>3. m \in Request /\ account \in Account
  BY DEF IInv, TypeOK
<1>4. ASSUME account' = [account EXCEPT !.docs = [account.docs EXCEPT ![m.doc] = m.content]],
             m.kind = "write", prepared' = prepared
      PROVE  AccountStays /\ account' \in Account
  BY <1>3, <1>4, RequestParts, SetDocType DEF AccountStays
<1>5. UNCHANGED <<account, prepared>> => AccountStays /\ account' \in Account
  BY <1>3 DEF AccountStays
<1>6. QED
  BY <1>1, <1>2, <1>4, <1>5 DEF ServeWrite

LEMMA StepServePrepare ==
  ASSUME IInv, TabsRest, NEW m \in net, ServePrepare(m)
  PROVE  IInv'
<1> USE DEF ServePrepare
<1>1. CASE Deny(m)
  BY <1>1, StepDeny
<1>2. CASE AnswerTo(m, "CONFLICT", None) /\ UNCHANGED <<account, prepared, session>>
  <2>1. AccountStays /\ account' \in Account
    BY <1>2 DEF AccountStays, IInv, TypeOK
  <2>2. "CONFLICT" \in Codes /\ None \in Rotations \cup {None} /\ "CONFLICT" # "OK"
    BY DEF Codes
  <2>3. Ours' => Ours
    BY <1>2, <2>1, OursStays, CurrentStays DEF TabsRest
  <2>4. session' \in User \cup {None} /\ (session' # None => session'.version <= account.version)
    BY <1>2 DEF IInv, TypeOK, Truthful
  <2> QED BY <1>2, <2>1, <2>2, <2>3, <2>4, StepAnswer
<1>3. CASE Server!Prepare(m.rotation) /\ AnswerTo(m, "OK", m.rotation) /\ session' = session
  <2> DEFINE r == m.rotation
  <2>1. /\ m \in Request /\ r \in Rotations /\ m.kind = "prepare"
        /\ prepared \in [Rotations -> Snapshot \cup {None}] /\ account \in Account
    BY RequestParts DEF IInv, TypeOK
  <2>2. /\ prepared[r] = None /\ prepared' = [prepared EXCEPT ![r] = SnapshotOf(account)]
        /\ account' = account
    BY <1>3 DEF Server!Prepare, Server!SnapshotOf, SnapshotOf
  <2>3. /\ SnapshotOf(account) \in Snapshot /\ SnapshotOf(account).version = account.version
    BY <2>1 DEF SnapshotOf, Snapshot, Account
  <2>4. /\ prepared'[r] = SnapshotOf(account) /\ prepared'[r] # None
        /\ \A q \in Rotations \ {r} : prepared'[q] = prepared[q]
        /\ prepared' \in [Rotations -> Snapshot \cup {None}]
    BY <2>1, <2>2, <2>3, NoneIsNoRecord
  <2>5. "OK" \in Codes /\ r \in Rotations \cup {None}
    BY <2>1 DEF Codes
  <2>6. /\ net' \in SUBSET Request /\ back' \in SUBSET Answer /\ Calls' /\ Waiting' \subseteq Waiting
        /\ \A b \in back' : \/ b \in back
                            \/ m.live /\ b.tab = m.tab /\ b.kind = "prepare" /\ b.rotation = r
    BY <1>3, <2>1, <2>5, AnswerToOK DEF TabsRest
  <2>7. TypeOK'
    BY <1>3, <2>2, <2>4, <2>6 DEF IInv, TypeOK, TabsRest
  <2>8. \A p \in sent : /\ p \in Pending /\ p.rotation \in Rotations /\ prepared[p.rotation] # None
                        /\ p.rotation # r /\ prepared'[p.rotation] = prepared[p.rotation]
    BY <2>2, <2>4, KnownPending, PendingParts DEF IInv
  <2>9. \A p \in sent : /\ Applied(p)' <=> Applied(p)
                        /\ Done(p)' <=> Done(p)
                        /\ Past(p.rotation)' <=> Past(p.rotation)
    BY <2>2, <2>8 DEF Applied, Done, Past
  <2>10. Kept' = Kept /\ Kept \subseteq sent /\ Waiting' \subseteq sent /\ refused \subseteq sent
    BY <2>6, KnownPending DEF IInv, Kept, TabsRest
  <2>11. Ours' <=> Ours
    <3>1. Current' <=> Current
      BY <1>3, <2>2 DEF Current
    <3> QED BY <2>9, <2>10, <3>1 DEF Ours, TabsRest
  <2>12. Copies'
    BY DEF IInv, Copies, TabsRest
  <2>13. Prepared'
    <3>1. \A b \in back' : b.kind = "prepare" /\ b.code = "OK" =>
            b.rotation \in Rotations /\ prepared'[b.rotation] # None
      BY <2>1, <2>2, <2>4, <2>6 DEF IInv, Prepared
    <3>2. \A p \in sent : prepared'[p.rotation] # None
      BY <2>8
    <3> QED BY <2>10, <3>1, <3>2 DEF IInv, Prepared, Doing, TabsRest
  <2>14. Truthful'
    <3>1. \A b \in back' : b.kind = "finalize" /\ b.code = "OK" => Done(task[b.tab].pending)'
      <4> SUFFICES ASSUME NEW b \in back', b.kind = "finalize", b.code = "OK"
                   PROVE  Done(task[b.tab].pending)'
        OBVIOUS
      <4>1. b \in back /\ b.tab \in Tabs
        BY <2>6 DEF IInv, TypeOK, Answer
      <4>2. task[b.tab].pending \in sent /\ Done(task[b.tab].pending)
        BY <4>1 DEF IInv, Calls, Prepared, Truthful
      <4> DEFINE p == task[b.tab].pending
      <4>3. Done(p)'
        <5> HIDE DEF p
        <5>1. \A q \in sent : Done(q) => \/ account'.version > prepared'[q.rotation].version + 1
                                         \/ Applied(q)'
          BY <2>9 DEF Done
        <5> QED BY <2>9, <4>2, <5>1 DEF Done, p, TabsRest, Applied
      <4> QED BY <4>3
    <3> QED BY <1>3, <2>2, <3>1 DEF IInv, Truthful, TabsRest
  <2>15. Held => Held'
    <3>1. SUFFICES ASSUME Held, local # None
                   PROVE  Held'
      BY DEF Held, TabsRest
    <3>2. local.pending # None => local.pending \in sent
      BY <3>1 DEF IInv, Prepared
    <3>3. local.pending # None => /\ Applied(local.pending)' <=> Applied(local.pending)
                                  /\ Past(local.pending.rotation)' <=> Past(local.pending.rotation)
      BY <2>2, <2>8, <3>2 DEF Applied, Past, TabsRest
    <3>4. Ours' => \/ local.pending # None /\ Applied(local.pending)'
                   \/ /\ account'.verifier = local.active
                      /\ local.pending # None => ~Past(local.pending.rotation)'
      BY <2>2, <2>11, <3>1, <3>3 DEF Held
    <3>5. \A p \in (Waiting' \cup Kept') \ refused : p = local.pending \/ Past(p.rotation)'
      BY <2>6, <2>9, <2>10, <3>1 DEF Held
    <3> QED BY <3>4, <3>5 DEF Held, TabsRest
  <2>16. Preparing => Preparing'
    <3>1. ASSUME NEW b \in back', b.kind = "prepare", b.code = "OK", Ours', Preparing
          PROVE  ~Past(b.rotation)'
      <4>1. CASE b.rotation = r
        BY <2>1, <2>2, <2>3, <2>4, <4>1, AccountParts DEF Past, IInv
      <4>2. CASE b.rotation # r
        <5>1. b \in back /\ ~Past(b.rotation) /\ b.rotation \in Rotations
          BY <2>6, <2>11, <3>1, <4>2 DEF Preparing, IInv, Prepared
        <5> QED BY <2>2, <2>4, <4>2, <5>1 DEF Past
      <4> QED BY <4>1, <4>2
    <3> QED BY <3>1 DEF Preparing, Doing, TabsRest
  <2>17. LoggingIn => LoggingIn'
    BY <2>2, <2>6, <2>11 DEF LoggingIn, Doing, TabsRest
  <2> QED BY <2>6, <2>7, <2>12, <2>13, <2>14, <2>15, <2>16, <2>17 DEF IInv, Orderly, TabsRest
<1> QED BY <1>1, <1>2, <1>3

LEMMA StepGiveUp ==
  ASSUME IInv, TabsRest, NEW m \in net, GiveUp(m) \/ Lose(m)
  PROVE  IInv'
<1> USE DEF TabsRest
<1>1. AccountStays /\ UNCHANGED <<account, session>>
  BY DEF GiveUp, Lose, AccountStays
<1>2. Ours' => Ours
  BY <1>1, OursStays, CurrentStays
<1>3. m \in Request /\ net \subseteq Request /\ back \subseteq Answer
  BY DEF IInv, TypeOK
<1>4. session' # None => session'.version <= account.version
  BY <1>1 DEF IInv, Truthful
<1>5. CASE Lose(m)
  <2>1. net' = net \ {m} /\ back' = back
    BY <1>5 DEF Lose
  <2>2. Calls'
    BY <2>1 DEF IInv, Calls, Doing, PendingOf
  <2>3. Waiting' \subseteq Waiting
    BY <2>1 DEF Waiting
  <2>4. TypeOK'
    BY <1>1, <1>3, <2>1 DEF IInv, TypeOK, AccountStays
  <2> QED BY <1>1, <1>2, <1>4, <2>1, <2>2, <2>3, <2>4, Frame
<1>6. CASE GiveUp(m)
  <2> DEFINE answer == [tab |-> m.tab, kind |-> m.kind, code |-> "SERVER_ERROR", rotation |-> None]
  <2>1. /\ m.live /\ net' = (net \ {m}) \cup {Ignored(m)} /\ back' = back \cup {answer}
    BY <1>6 DEF GiveUp
  <2>2. /\ answer \in Answer /\ answer.tab = m.tab /\ answer.kind = m.kind
        /\ answer.code = "SERVER_ERROR"
    BY <1>3, RequestParts DEF Answer
  <2> HIDE DEF answer
  <2>3. /\ Ignored(m) \in Request /\ Ignored(m).kind = m.kind /\ ~Ignored(m).live
        /\ m.kind = "finalize" => Ignored(m).pending = m.pending
    BY <1>3, IgnoredParts
  <2>4. Calls'
    <3>1. \A n \in net' : n.live => n \in net /\ n # m
      BY <2>1, <2>3
    <3>2. \A b \in back' : b \in back \/ b = answer
      BY <2>1
    <3> QED BY <2>1, <2>2, <3>1, <3>2 DEF IInv, Calls, Doing, PendingOf
  <2>5. Waiting' \subseteq Waiting
    BY <2>1, <2>3 DEF Waiting
  <2>6. TypeOK'
    BY <1>1, <1>3, <2>1, <2>2, <2>3 DEF IInv, TypeOK, AccountStays
  <2>7. \A b \in back' : b \in back \/ b.code # "OK"
    BY <2>1, <2>2
  <2> QED BY <1>1, <1>2, <1>4, <2>4, <2>5, <2>6, <2>7, Frame
<1> QED BY <1>5, <1>6

LEMMA StepLoseAnswer ==
  ASSUME IInv, TabsRest, NEW b \in back, LoseAnswer(b)
  PROVE  IInv'
<1> USE DEF TabsRest
<1> DEFINE lost == [b EXCEPT !.code = "SERVER_ERROR"]
<1>1. AccountStays /\ UNCHANGED <<account, session, net>> /\ back' = (back \ {b}) \cup {lost}
  BY DEF LoseAnswer, AccountStays
<1>2. Ours' => Ours
  BY <1>1, OursStays, CurrentStays
<1>3. session' # None => session'.version <= account.version
  BY <1>1 DEF IInv, Truthful
<1>4. b \in Answer
  BY DEF IInv, TypeOK
<1>5. /\ lost \in Answer /\ lost.tab = b.tab /\ lost.kind = b.kind /\ lost.code # "OK"
  BY <1>4 DEF Answer
<1> HIDE DEF lost
<1>6. \A c \in back' : c = lost \/ (c \in back /\ c # b)
  BY <1>1
<1>7. Calls'
  BY <1>1, <1>5, <1>6 DEF IInv, Calls, Doing, PendingOf
<1>8. Waiting' \subseteq Waiting
  BY <1>1 DEF Waiting
<1>9. TypeOK'
  BY <1>1, <1>5 DEF IInv, TypeOK, AccountStays
<1> QED BY <1>1, <1>2, <1>3, <1>5, <1>6, <1>7, <1>8, <1>9, Frame

\* The session ends, or the other browser stores a document.
LEMMA StepElsewhere ==
  ASSUME IInv, TabsRest,
         SessionEnds \/ \E d \in Docs, payload \in Payloads \cup {None} : ElsewhereWrites(d, payload)
  PROVE  IInv'
<1> USE DEF TabsRest
<1>1. UNCHANGED <<net, back, prepared>> /\ session' \in {None, session}
  BY DEF SessionEnds, ElsewhereWrites
<1>2. account \in Account /\ account.verifier \in Keys
  BY AccountParts DEF IInv, TypeOK
<1>3. AccountStays /\ account' \in Account
  <2>1. CASE SessionEnds
    BY <1>2, <2>1 DEF SessionEnds, AccountStays
  <2>2. ASSUME NEW d \in Docs, NEW payload \in Payloads \cup {None}, ElsewhereWrites(d, payload)
        PROVE  AccountStays /\ account' \in Account
    <3>1. PICK content \in Blob \cup {None} : account' = [account EXCEPT !.docs[d] = content]
      BY <1>2, <2>2 DEF ElsewhereWrites, Blob
    <3>2. account' = [account EXCEPT !.docs = [account.docs EXCEPT ![d] = content]]
      BY <3>1
    <3> QED BY <1>1, <1>2, <3>2, SetDocType DEF AccountStays
  <2> QED BY <2>1, <2>2
<1>4. Ours' => Ours
  BY <1>1, <1>3, OursStays, CurrentStays
<1>5. session' # None => session'.version <= account.version
  BY <1>1 DEF IInv, Truthful
<1>6. Calls' /\ Waiting' = Waiting
  BY <1>1 DEF IInv, Calls, Doing, PendingOf, Waiting
<1>7. TypeOK'
  BY <1>1, <1>3 DEF IInv, TypeOK
<1> QED BY <1>1, <1>3, <1>4, <1>5, <1>6, <1>7, Frame

\* What was done or past stays so when the account is rotated.
LEMMA Advances ==
  ASSUME IInv, account'.version = account.version + 1,
         \A p \in sent : prepared'[p.rotation] = prepared[p.rotation]
  PROVE  \A p \in sent : /\ Past(p.rotation) => Past(p.rotation)'
                         /\ Done(p) => account'.version > prepared'[p.rotation].version + 1
<1> SUFFICES ASSUME NEW p \in sent
             PROVE  /\ Past(p.rotation) => Past(p.rotation)'
                    /\ Done(p) => account'.version > prepared'[p.rotation].version + 1
  OBVIOUS
<1>1. p \in Pending /\ prepared[p.rotation] # None
  BY KnownPending DEF IInv
<1>2. prepared[p.rotation].version \in Nat /\ account.version \in Nat
  BY <1>1, PendingParts, SnapshotParts, AccountParts DEF IInv
<1>3. Applied(p) => account.version = prepared[p.rotation].version + 1
  BY <1>1, AppliedParts DEF IInv
<1> QED BY <1>2, <1>3 DEF Past, Done

\* A rotation of this browser is applied.
LEMMA StepRotates ==
  ASSUME IInv, TabsRest, NEW m \in net, m.kind = "finalize",
         Agreed(m.pending), Server!Rotate(m.pending.rotation, m.pending.old, m.pending.new),
         NEW code \in {"OK", "SERVER_ERROR"}, AnswerTo(m, code, m.pending.rotation),
         session' = session \/ session' = [version |-> account.version + 1, rotation |-> None]
  PROVE  IInv'
<1> USE DEF TabsRest
<1> DEFINE p == m.pending
<1>1. m \in Request /\ account \in Account /\ session \in User \cup {None}
  BY DEF IInv, TypeOK
<1>2. p \in Waiting
  BY DEF Waiting
<1>3. /\ p \in Pending /\ p \in sent /\ prepared[p.rotation] # None
      /\ p.rotation \in Rotations /\ p.old \in Keys /\ p.new \in Keys
  BY <1>2, KnownPending, PendingParts DEF IInv
<1>4. /\ prepared[p.rotation].version = account.version /\ prepared' = prepared
      /\ account' = Rotated(account, p.rotation, account.docs, p.old, p.new)
  BY DEF Agreed, SnapshotOf, Server!Rotate, Server!Rotated, Server!Rekey, Rotated, Rekey
<1>5. account.version \in Nat /\ account.docs \in Contents
      /\ (session # None => session.version \in Nat)
  BY AccountParts DEF IInv
<1>6. /\ account' \in Account /\ account'.version = account.version + 1
      /\ account'.verifier = p.new /\ account'.receipt # None
      /\ account'.receipt = [rotation |-> p.rotation, version |-> account.version + 1,
                             old |-> p.old, new |-> p.new]
  BY <1>1, <1>3, <1>4, <1>5, RotatedType
<1>7. Applied(p)' /\ \A q \in sent : Applied(q)' => q = p
  <2>1. Applied(p)'
    BY <1>4, <1>6 DEF Applied
  <2>2. ASSUME NEW q \in sent, Applied(q)'
        PROVE  q = p
    <3>1. q \in Pending
      BY KnownPending DEF IInv
    <3>2. account'.receipt = [rotation |-> q.rotation, old |-> q.old, new |-> q.new,
                              version |-> prepared'[q.rotation].version + 1]
      BY <2>2 DEF Applied
    <3>3. q.rotation = p.rotation /\ q.old = p.old /\ q.new = p.new
      BY <1>6, <3>2
    <3> QED BY <1>3, <3>1, <3>3, PendingParts
  <2> QED BY <2>1, <2>2
<1>8. \A q \in sent : /\ Past(q.rotation) => Past(q.rotation)'
                      /\ Done(q) => account'.version > prepared'[q.rotation].version + 1
  BY <1>4, <1>6, Advances
<1>9. code \in Codes /\ p.rotation \in Rotations \cup {None}
  BY <1>3 DEF Codes
<1>10. /\ net' \in SUBSET Request /\ back' \in SUBSET Answer /\ Calls' /\ Waiting' \subseteq Waiting
       /\ \A b \in back' : \/ b \in back
                           \/ m.live /\ b.tab = m.tab /\ b.kind = "finalize"
  BY <1>9, AnswerToOK
<1>11. session' \in User \cup {None} /\ (session' # None => session'.version <= account'.version)
  BY <1>1, <1>5, <1>6 DEF User, IInv, Truthful
<1>12. TypeOK'
  BY <1>4, <1>6, <1>10, <1>11 DEF IInv, TypeOK
<1>13. Kept' = Kept /\ Copies'
  BY DEF IInv, Kept, Copies
<1>14. Prepared'
  BY <1>4, <1>10, <1>13 DEF IInv, Prepared, Doing
<1>15. Truthful'
  <2>1. ASSUME NEW b \in back', b.kind = "finalize", b.code = "OK"
        PROVE  Done(task[b.tab].pending)'
    <3>1. CASE b \in back
      <4>1. b.tab \in Tabs
        BY <3>1 DEF IInv, TypeOK, Answer
      <4>2. task[b.tab].pending \in sent /\ Done(task[b.tab].pending)
        BY <2>1, <3>1, <4>1 DEF IInv, Calls, Prepared, Truthful
      <4> QED BY <1>8, <4>2 DEF Done
    <3>2. CASE m.live /\ b.tab = m.tab
      <4>1. task[b.tab].pending = p
        BY <3>2 DEF IInv, Calls
      <4> QED BY <1>7, <4>1 DEF Done, Applied
    <3> QED BY <1>10, <3>1, <3>2
  <2>2. account'.receipt # None => account'.verifier = account'.receipt.new
    BY <1>6
  <2> QED BY <1>11, <2>1, <2>2 DEF Truthful
<1>16. p \in refused => ~Ours'
  BY <1>7, KnownPending DEF Ours, IInv
<1>17. Held /\ local # None /\ p \notin refused => local.pending = p
  <2>1. ~Past(p.rotation)
    BY <1>4, <1>5 DEF Past
  <2> QED BY <1>2, <2>1 DEF Held
<1>18. Held => Held'
  <2>1. SUFFICES ASSUME Held, local # None
                 PROVE  Held'
    BY DEF Held
  <2>2. Ours' => local.pending # None /\ Applied(local.pending)'
    BY <1>3, <1>7, <1>16, <1>17, <2>1, PendingParts
  <2>3. \A q \in (Waiting' \cup Kept') \ refused : q = local.pending \/ Past(q.rotation)'
    <3>1. \A q \in (Waiting' \cup Kept') : q \in sent
      BY <1>10, <1>13, KnownPending DEF IInv
    <3> QED BY <1>8, <1>10, <1>13, <2>1, <3>1 DEF Held
  <2> QED BY <2>2, <2>3 DEF Held, Applied
<1>19. Held /\ Preparing => Preparing'
  <2>1. ASSUME Held, Preparing, Ours', NEW b \in back', b.kind = "prepare"
        PROVE  FALSE
    <3>1. b \in back /\ b.tab \in Tabs /\ Doing(b.tab, "prepare")
      BY <1>10, <2>1 DEF IInv, TypeOK, Answer, Calls
    <3>2. local # None /\ local.pending = None
      BY <2>1, <3>1 DEF Preparing
    <3> QED BY <1>3, <1>16, <1>17, <2>1, <3>2, PendingParts
  <2> QED BY <2>1 DEF Preparing, Doing
<1>20. LoggingIn => LoggingIn'
  BY <1>2 DEF LoggingIn, Doing
<1> QED BY <1>10, <1>12, <1>13, <1>14, <1>15, <1>18, <1>19, <1>20 DEF IInv, Orderly

LEMMA StepServeFinalize ==
  ASSUME IInv, TabsRest, NEW m \in net, ServeFinalize(m)
  PROVE  IInv'
<1> DEFINE p == m.pending
<1>1. CASE Deny(m)
  BY <1>1, StepDeny
<1>2. CASE Current /\ ~Applied(p) /\ Agreed(p)
  <2>1. ~Outdated /\ session # None
    BY <1>2 DEF Current, Outdated
  <2>2. /\ m.kind = "finalize" /\ Server!Rotate(p.rotation, p.old, p.new)
        /\ \/ /\ session' = [version |-> account.version + 1, rotation |-> None]
              /\ AnswerTo(m, "OK", p.rotation)
           \/ session' = session /\ AnswerTo(m, "SERVER_ERROR", p.rotation)
    BY <1>2, <2>1 DEF ServeFinalize
  <2>3. PICK code \in {"OK", "SERVER_ERROR"} :
          /\ AnswerTo(m, code, p.rotation)
          /\ session' = session \/ session' = [version |-> account.version + 1, rotation |-> None]
    BY <2>2
  <2> HIDE DEF AnswerTo
  <2> QED BY <1>2, <2>2, <2>3, StepRotates
<1>3. m \in Request /\ m.kind = "finalize" /\ account \in Account /\ session \in User \cup {None}
  BY DEF IInv, TypeOK, ServeFinalize
<1>4. /\ p \in Waiting /\ p \in sent /\ p \in Pending /\ p.rotation \in Rotations
      /\ prepared[p.rotation] # None
  BY <1>3, KnownPending, PendingParts DEF IInv, Waiting
<1>5. account.version \in Nat
  BY AccountParts DEF IInv
<1>6. CASE /\ Applied(p) /\ session' = [version |-> account.version, rotation |-> None]
           /\ AnswerTo(m, "OK", p.rotation) /\ UNCHANGED <<account, prepared>>
  <2>1. AccountStays /\ account' \in Account
    BY <1>3, <1>6 DEF AccountStays
  <2>2. session' \in User \cup {None} /\ session'.version <= account.version
    BY <1>5, <1>6 DEF User
  <2>3. Done(p)
    BY <1>6 DEF Done
  <2>4. Ours' => Ours
    <3>1. \A q : Applied(q)' <=> Applied(q)
      BY <2>1, Stays
    <3> QED BY <1>4, <1>6, <3>1 DEF Ours, TabsRest
  <2>5. "OK" \in Codes /\ p.rotation \in Rotations \cup {None}
    BY <1>4 DEF Codes
  <2> QED BY <1>3, <1>6, <2>1, <2>2, <2>3, <2>4, <2>5, StepAnswer
<1>7. CASE /\ Current /\ session' = [session EXCEPT !.rotation = p.rotation]
           /\ \E code \in Definitive : AnswerTo(m, code, p.rotation)
           /\ UNCHANGED <<account, prepared>>
  <2>1. PICK code \in Definitive : AnswerTo(m, code, p.rotation)
    BY <1>7
  <2>2. AccountStays /\ account' \in Account
    BY <1>3, <1>7 DEF AccountStays
  <2>3. /\ session \in User /\ session' \in User \cup {None} /\ session'.version = session.version
    BY <1>3, <1>4, <1>7 DEF User, Current
  <2>4. session'.version <= account.version
    BY <1>7, <2>3 DEF IInv, Truthful, Current
  <2>5. Ours' => Ours
    <3>1. Current' => Current
      BY <1>7
    <3> QED BY <2>2, <3>1, OursStays DEF TabsRest
  <2>6. code \in Codes /\ code # "OK" /\ p.rotation \in Rotations \cup {None}
    BY <1>4 DEF Codes, Definitive
  <2> QED BY <2>1, <2>2, <2>3, <2>4, <2>5, <2>6, StepAnswer
<1> QED BY <1>1, <1>2, <1>6, <1>7 DEF ServeFinalize, Definitive

\* The other browser rotates the account.
LEMMA StepElsewhereRotates ==
  ASSUME IInv, TabsRest, NEW rotation \in Rotations, NEW new \in Keys,
         ElsewhereRotates(rotation, new)
  PROVE  IInv'
<1> USE DEF TabsRest
<1>1. /\ prepared[rotation] = None /\ prepared' = [prepared EXCEPT ![rotation] = SnapshotOf(account)]
      /\ account' = Rotated(account, rotation, account.docs, account.verifier, new)
      /\ UNCHANGED <<session, net, back>>
  BY DEF ElsewhereRotates
<1>2. /\ account \in Account /\ account.version \in Nat /\ account.docs \in Contents
      /\ account.verifier \in Keys /\ (session # None => session.version \in Nat)
      /\ prepared \in [Rotations -> Snapshot \cup {None}]
  BY AccountParts DEF IInv, TypeOK
<1>3. /\ account' \in Account /\ account'.version = account.version + 1
      /\ account'.verifier = new /\ account'.receipt # None
      /\ account'.receipt = [rotation |-> rotation, version |-> account.version + 1,
                             old |-> account.verifier, new |-> new]
  BY <1>1, <1>2, RotatedType
<1>4. SnapshotOf(account) \in Snapshot
  BY <1>2 DEF SnapshotOf, Snapshot
<1>5. TypeOK'
  BY <1>1, <1>2, <1>3, <1>4 DEF IInv, TypeOK
<1>6. \A p \in sent : /\ p.rotation \in Rotations /\ p.rotation # rotation
                      /\ prepared[p.rotation] # None
                      /\ prepared'[p.rotation] = prepared[p.rotation]
  BY <1>1, <1>2, KnownPending, PendingParts DEF IInv
<1>7. \A p \in sent : /\ Past(p.rotation) => Past(p.rotation)'
                      /\ Done(p) => account'.version > prepared'[p.rotation].version + 1
  BY <1>3, <1>6, Advances
<1>8. ~Ours'
  <2>1. ~Current'
    BY <1>1, <1>2, <1>3 DEF Current, IInv, Truthful
  <2>2. \A p \in sent : ~Applied(p)'
    BY <1>3, <1>6 DEF Applied
  <2> QED BY <2>1, <2>2 DEF Ours
<1>9. Kept' = Kept /\ Waiting' = Waiting
  BY <1>1 DEF Kept, Waiting
<1>10. Copies' /\ Calls'
  BY <1>1 DEF IInv, Copies, Calls, Doing, PendingOf
<1>11. Prepared'
  <2>1. \A b \in back' : b.kind = "prepare" /\ b.code = "OK" =>
          b.rotation \in Rotations /\ prepared'[b.rotation] # None
    BY <1>1, <1>2, <1>4 DEF IInv, Prepared
  <2> QED BY <1>6, <1>9, <2>1 DEF IInv, Prepared, Doing
<1>12. Truthful'
  <2>1. ASSUME NEW b \in back', b.kind = "finalize", b.code = "OK"
        PROVE  Done(task[b.tab].pending)'
    <3>1. b \in back /\ b.tab \in Tabs
      BY <1>1 DEF IInv, TypeOK, Answer
    <3>2. task[b.tab].pending \in sent /\ Done(task[b.tab].pending)
      BY <2>1, <3>1 DEF IInv, Calls, Prepared, Truthful
    <3> QED BY <1>7, <3>2 DEF Done
  <2>2. session' # None => session'.version <= account'.version
    BY <1>1, <1>2, <1>3 DEF IInv, Truthful
  <2> QED BY <1>3, <2>1, <2>2 DEF Truthful
<1>13. Held => Held'
  <2>1. SUFFICES ASSUME Held, local # None
                 PROVE  Held'
    BY DEF Held
  <2>2. \A q \in (Waiting' \cup Kept') \ refused : q = local.pending \/ Past(q.rotation)'
    BY <1>7, <1>9, <2>1, KnownPending DEF Held, IInv
  <2> QED BY <1>8, <2>2 DEF Held
<1>14. Preparing => Preparing'
  BY <1>8 DEF Preparing, Doing
<1>15. LoggingIn => LoggingIn'
  BY <1>8, <1>9 DEF LoggingIn, Doing
<1> QED BY <1>5, <1>10, <1>11, <1>12, <1>13, <1>14, <1>15 DEF IInv, Orderly

-----------------------------------------------------------------------------
(* The steps of a tab. *)

LEMMA TabParts ==
  ASSUME IInv, NEW t \in bounds.tabs
  PROVE  /\ t \in Tabs /\ bounds.tabs \subseteq Tabs
         /\ task[t] # None => task[t] \in Task
         /\ held[t] # None => held[t] \in Vault /\ held[t].active \in Keys
                              /\ held[t].pending \in Pending \cup {None}
         /\ local # None => local \in Vault /\ local.active \in Keys
                            /\ local.pending \in Pending \cup {None}
         /\ PendingOf(t) \in Pending \cup {None}
         /\ PendingOf(t) # None => PendingOf(t) \in Kept /\ PendingOf(t) \in sent
<1>1. bounds.tabs \subseteq Tabs
  BY CasesAssumption DEF IInv, TypeOK
<1>2. PendingOf(t) # None => PendingOf(t) \in Kept
  BY <1>1 DEF PendingOf, Kept
<1> QED BY <1>1, <1>2, VaultParts, KnownPending DEF IInv, TypeOK, PendingOf

\* A tab writes the vault.
LEMMA VaultSetOK ==
  ASSUME IInv, NEW t \in bounds.tabs, NEW vault \in Vault \cup {None}, VaultSet(t, vault)
  PROVE  /\ local' = vault /\ held' \in [Tabs -> Vault \cup {None}] /\ held'[t] = vault
         /\ \A u \in Tabs \ {t} : held'[u] = held[u]
         /\ unseen' \in SUBSET Tabs /\ bounds.tabs \ unseen' \subseteq {t}
         /\ crossed' \in BOOLEAN
         /\ \A p \in Kept' : p \in Kept \/ (vault # None /\ p = vault.pending)
         /\ ~crossed' => /\ ~crossed /\ held[t] = local
                         /\ \A u \in Tabs \ {t} : task[u] = None
<1>1. t \in Tabs /\ bounds.tabs \subseteq Tabs
  BY TabParts
<1>2. /\ local' = vault /\ held' \in [Tabs -> Vault \cup {None}] /\ held'[t] = vault
      /\ \A u \in Tabs \ {t} : held'[u] = held[u]
  BY <1>1 DEF VaultSet, IInv, TypeOK
<1>3. /\ unseen' \in SUBSET Tabs /\ bounds.tabs \ unseen' \subseteq {t}
      /\ crossed' \in BOOLEAN
  BY <1>1 DEF VaultSet, IInv, TypeOK
<1>4. \A p \in Kept' : p \in Kept \/ (vault # None /\ p = vault.pending)
  BY <1>1, <1>2 DEF Kept
<1>5. ~crossed' => /\ ~crossed /\ held[t] = local
                   /\ \A u \in Tabs \ {t} : task[u] = None
  BY DEF VaultSet, OthersBusy, IInv, Copies
<1> QED BY <1>2, <1>3, <1>4, <1>5

\* Answers and requests of the tabs that go on, and no others, are still there.
LEMMA CallsOK ==
  ASSUME IInv, net' \subseteq Request, back' \subseteq back,
         \A m \in net' : m.live => m \in net,
         \A b \in back' : IF b.kind = "write" THEN ~Doing(b.tab, "prepare")'
                                              ELSE task'[b.tab] = task[b.tab],
         \A m \in net' : m.live =>
           IF m.kind = "write" THEN task'[m.tab] = None /\ (PendingOf(m.tab) = None)'
                               ELSE task'[m.tab] = task[m.tab]
  PROVE  Calls'
<1>1. \A b \in back' : b.kind # "write" => Doing(b.tab, b.kind)'
  BY DEF IInv, Calls, Doing
<1>2. \A m \in net' : m.live =>
       IF m.kind = "write" THEN task'[m.tab] = None /\ (PendingOf(m.tab) = None)'
       ELSE /\ Doing(m.tab, m.kind)'
            /\ m.kind = "finalize" => task'[m.tab].pending = m.pending
  BY DEF IInv, Calls, Doing
<1>3. /\ \A m, n \in net' :
           m.live /\ n.live /\ m.tab = n.tab /\ m.kind # "write" /\ n.kind # "write" => m = n
      /\ \A b, c \in back' : b.tab = c.tab /\ b.kind # "write" /\ c.kind # "write" => b = c
      /\ \A m \in net', b \in back' :
           ~(m.live /\ m.tab = b.tab /\ m.kind # "write" /\ b.kind # "write")
  BY DEF IInv, Calls
<1> QED BY <1>1, <1>2, <1>3 DEF Calls

LEMMA HeldStays ==
  ASSUME IInv, AccountStays, UNCHANGED <<local, refused>>, Ours' => Ours, Held,
         Waiting' \subseteq Waiting \cup Kept,
         local # None => Kept' \subseteq Kept \cup {local.pending}
  PROVE  Held'
<1>1. SUFFICES ASSUME local # None
               PROVE  Held'
  BY DEF Held
<1>2. /\ \A p : Applied(p)' <=> Applied(p)
      /\ \A r : Past(r)' <=> Past(r)
  BY Stays
<1>3. Ours' => \/ local.pending # None /\ Applied(local.pending)
               \/ /\ account.verifier = local.active
                  /\ local.pending # None => ~Past(local.pending.rotation)
  BY <1>1 DEF Held
<1>4. \A p \in (Waiting' \cup Kept') \ refused' : p = local.pending \/ Past(p.rotation)
  BY <1>1 DEF Held
<1> QED BY <1>2, <1>3, <1>4 DEF Held, AccountStays

\* When no tab prepares a rotation or logs in there is nothing to say of one.
LEMMA NobodyPrepares ==
  ASSUME Calls', \A t \in Tabs : ~Doing(t, "prepare")', back' \subseteq Answer
  PROVE  Preparing'
BY DEF Calls, Preparing, Answer

LEMMA NobodyLogsIn ==
  ASSUME \A t \in Tabs : ~Doing(t, "login")'
  PROVE  LoggingIn'
BY DEF LoggingIn

\* What is left to show of a step of a tab.
LEMMA TabFrame ==
  ASSUME IInv, TypeOK', AccountStays, bounds' = bounds, NEW t \in bounds.tabs,
         \A u \in Tabs \ {t} : task'[u] = task[u] /\ held'[u] = held[u],
         \A u \in bounds.tabs \ unseen' : held'[u] = local',
         session' # None => session'.version <= account.version,
         \A b \in back' : b.code = "OK" =>
           b \in back /\ (b.kind = "finalize" => task'[b.tab] = task[b.tab]),
         sent \subseteq sent', \A p \in sent' \ sent : prepared[p.rotation] # None,
         Waiting' \subseteq sent', Kept' \subseteq sent',
         local' # None => local'.pending \in sent' \cup {None},
         Doing(t, "finalize")' => task'[t].pending \in sent',
         Calls', Orderly'
  PROVE  IInv'
<1>1. t \in Tabs
  BY TabParts
<1>2. Copies'
  BY <1>1 DEF IInv, Copies
<1>3. Prepared'
  <2>1. \A u \in Tabs : Doing(u, "finalize")' => task'[u].pending \in sent'
    BY DEF IInv, Prepared, Doing
  <2>2. \A b \in back' : b.kind = "prepare" /\ b.code = "OK" =>
          b.rotation \in Rotations /\ prepared'[b.rotation] # None
    BY DEF IInv, Prepared, AccountStays
  <2>3. \A p \in sent' : prepared'[p.rotation] # None
    BY DEF IInv, Prepared, AccountStays
  <2> QED BY <2>1, <2>2, <2>3 DEF Prepared
<1>4. Truthful'
  <2>1. \A b \in back' : b.kind = "finalize" /\ b.code = "OK" => Done(task[b.tab].pending)
    BY DEF IInv, Truthful
  <2>2. ASSUME NEW b \in back', b.kind = "finalize", b.code = "OK"
        PROVE  Done(task[b.tab].pending)'
    <3>1. Done(task[b.tab].pending) /\ task'[b.tab] = task[b.tab]
      BY <2>1, <2>2
    <3> QED BY <3>1 DEF Done, Applied, AccountStays
  <2> QED BY <2>2 DEF IInv, Truthful, AccountStays
<1> QED BY <1>2, <1>3, <1>4 DEF IInv

LEMMA StepLoginSend ==
  ASSUME IInv, bounds' = bounds, NEW t \in bounds.tabs, LoginSend(t)
  PROVE  IInv'
<1> DEFINE login == [step |-> "login", key |-> account.verifier]
<1>1. /\ t \in Tabs /\ bounds.tabs \subseteq Tabs /\ held[t] = None /\ task[t] = None
      /\ session' = [version |-> account.version, rotation |-> None]
      /\ task' = [task EXCEPT ![t] = login] /\ Orphan
      /\ UNCHANGED <<account, prepared, local, held, unseen, sent, refused>>
  BY TabParts DEF LoginSend
<1>2. account.version \in Nat /\ account.verifier \in Keys
  BY AccountParts DEF IInv
<1>3. login \in Task /\ login.step = "login" /\ login.key = account.verifier /\ login # None
  BY <1>2, TaskParts DEF Task
<1> HIDE DEF login
<1>4. /\ task' \in [Tabs -> Task \cup {None}] /\ task'[t] = login
      /\ \A u \in Tabs \ {t} : task'[u] = task[u]
  BY <1>1, <1>3 DEF IInv, TypeOK
<1>5. \A u \in Tabs : \/ task'[u] = task[u]
                      \/ /\ ~Doing(u, "prepare") /\ ~Doing(u, "finalize")
                         /\ ~Doing(u, "prepare")'
  BY <1>1, <1>3, <1>4 DEF Doing
<1>6. /\ net' = {} /\ back' \in SUBSET Answer /\ Calls' /\ Waiting' = {}
      /\ \A b \in back' : b \in back \/ b.code = "AUTH_REQUIRED"
  BY <1>1, <1>4, <1>5, OrphanOK
<1>7. session' \in User /\ session'.version = account.version
  BY <1>1, <1>2 DEF User
<1>8. crossed' \in BOOLEAN /\ (~crossed' => ~crossed /\ unseen = {} /\ ~OthersBusy(t))
  BY DEF LoginSend, IInv, TypeOK
<1>9. TypeOK'
  BY <1>1, <1>4, <1>6, <1>7, <1>8 DEF IInv, TypeOK
<1>10. AccountStays
  BY <1>1 DEF AccountStays
<1>11. Kept' = Kept /\ Kept \subseteq sent
  BY <1>1, KnownPending DEF IInv, Kept
<1>12. \A b \in back' : b.code = "OK" =>
         b \in back /\ (b.kind = "finalize" => task'[b.tab] = task[b.tab])
  <2>1. ASSUME NEW b \in back', b.code = "OK", b.kind = "finalize"
        PROVE  task'[b.tab] = task[b.tab]
    <3>1. b \in back /\ b.tab \in Tabs /\ Doing(b.tab, "finalize")
      BY <1>6, <2>1 DEF IInv, TypeOK, Calls, Answer
    <3> QED BY <1>1, <1>4, <3>1 DEF Doing
  <2> QED BY <1>6, <2>1
<1>13. ~crossed' => Held' /\ Preparing' /\ LoggingIn'
  <2> SUFFICES ASSUME ~crossed'
               PROVE  Held' /\ Preparing' /\ LoggingIn'
    OBVIOUS
  <2>1. local = None /\ \A u \in Tabs : held[u] = None
    BY <1>1, <1>8 DEF IInv, Copies
  <2>2. \A u \in Tabs \ {t} : task[u] = None
    BY <1>8 DEF OthersBusy, IInv, Copies
  <2>3. Held'
    BY <1>1, <2>1 DEF Held
  <2>4. Preparing'
    <3>1. \A u \in Tabs : ~Doing(u, "prepare")'
      BY <1>3, <1>4, <2>2 DEF Doing
    <3> QED BY <1>6, <3>1, NobodyPrepares
  <2>5. LoggingIn'
    BY <1>1, <1>3, <1>4, <1>6, <2>1, <2>2 DEF LoggingIn, Doing
  <2> QED BY <2>3, <2>4, <2>5
<1>14. local' # None => local'.pending \in sent \cup {None}
  BY <1>1 DEF IInv, Prepared
<1>15. \A u \in bounds.tabs \ unseen' : held'[u] = local'
  BY <1>1 DEF IInv, Copies
<1>16. /\ Waiting' \subseteq sent' /\ Kept' \subseteq sent' /\ sent \subseteq sent'
       /\ \A p \in sent' \ sent : prepared[p.rotation] # None
       /\ ~Doing(t, "finalize")' /\ Orderly'
       /\ \A u \in Tabs \ {t} : task'[u] = task[u] /\ held'[u] = held[u]
       /\ session' # None => session'.version <= account.version
  BY <1>1, <1>2, <1>3, <1>4, <1>6, <1>7, <1>11, <1>13 DEF Orderly, Doing
<1> QED BY <1>1, <1>6, <1>9, <1>10, <1>12, <1>14, <1>15, <1>16, TabFrame

\* What a tab writes when it clears the vault or stores a first key: nothing is
\* pending, and nobody prepares a rotation or logs in.
LEMMA StepVault ==
  ASSUME IInv, bounds' = bounds, NEW t \in bounds.tabs, NEW vault \in Vault \cup {None},
         VaultSet(t, vault), vault # None => vault.pending = None,
         AccountStays, account' \in Account, session' \in {None, session},
         sent' = sent, refused' \in SUBSET sent, refused \subseteq refused',
         task'[t] = None \/ (task'[t] = task[t] /\ (vault = None => ~Doing(t, "prepare"))),
         task' \in [Tabs -> Task \cup {None}],
         \A u \in Tabs \ {t} : task'[u] = task[u],
         net' \in SUBSET Request, back' \in SUBSET Answer, Calls', Waiting' \subseteq Waiting,
         \A b \in back' : b.code = "OK" => b \in back,
         ~crossed' => /\ vault # None => task'[t] = None
                      /\ vault # None => Held'
  PROVE  IInv'
<1>1. /\ local' = vault /\ held' \in [Tabs -> Vault \cup {None}] /\ held'[t] = vault
      /\ \A u \in Tabs \ {t} : held'[u] = held[u]
      /\ unseen' \in SUBSET Tabs /\ bounds.tabs \ unseen' \subseteq {t}
      /\ crossed' \in BOOLEAN
      /\ \A p \in Kept' : p \in Kept \/ (vault # None /\ p = vault.pending)
      /\ ~crossed' => /\ ~crossed /\ held[t] = local
                      /\ \A u \in Tabs \ {t} : task[u] = None
  BY VaultSetOK
<1>2. t \in Tabs
  BY TabParts
<1>3. TypeOK'
  BY <1>1 DEF IInv, TypeOK, AccountStays
<1>4. None \notin Kept' /\ Kept' \subseteq Kept /\ Kept \subseteq sent /\ Waiting \subseteq sent
  BY <1>1, KnownPending DEF IInv, Kept
<1>5. session' # None => session'.version <= account.version
  BY DEF IInv, Truthful
<1>6. \A b \in back' : b.code = "OK" =>
         b \in back /\ (b.kind = "finalize" => task'[b.tab] = task[b.tab])
  <2>1. ASSUME NEW b \in back', b.code = "OK", b.kind = "finalize"
        PROVE  task'[b.tab] = task[b.tab]
    <3>1. b \in back /\ b.tab \in Tabs /\ Doing(b.tab, "finalize")'
      BY <2>1 DEF IInv, TypeOK, Calls, Answer
    <3> QED BY <1>2, <3>1 DEF Doing
  <2> QED BY <2>1
<1>7. Orderly'
  <2> SUFFICES ASSUME ~crossed'
               PROVE  Held' /\ Preparing' /\ LoggingIn'
    BY DEF Orderly
  <2>1. Held'
    BY <1>1 DEF Held
  <2>2. Preparing'
    <3>1. \A u \in Tabs : ~Doing(u, "prepare")'
      BY <1>1, <1>2 DEF Doing
    <3> QED BY <3>1, NobodyPrepares
  <2>3. LoggingIn'
    <3>1. CASE task'[t] = None
      <4>1. \A u \in Tabs : ~Doing(u, "login")'
        BY <1>1, <1>2, <3>1 DEF Doing
      <4> QED BY <4>1, NobodyLogsIn
    <3>2. CASE task'[t] # None
      <4>1. vault = None /\ task'[t] = task[t]
        BY <3>2
      <4>2. Ours' => Ours
        BY CurrentStays, OursStays
      <4> QED BY <1>1, <1>2, <4>1, <4>2 DEF IInv, Orderly, LoggingIn, Doing, AccountStays
    <3> QED BY <3>1, <3>2
  <2> QED BY <2>1, <2>2, <2>3
<1>8. Doing(t, "finalize")' => task'[t].pending \in sent'
  BY <1>2 DEF IInv, Prepared, Doing
<1>9. local' # None => local'.pending \in sent' \cup {None}
  BY <1>1
<1> QED BY <1>1, <1>3, <1>4, <1>5, <1>6, <1>7, <1>8, <1>9, TabFrame

LEMMA VaultType ==
  ASSUME NEW key \in Keys, NEW p \in Pending \cup {None}
  PROVE  LET vault == [active |-> key, pending |-> p]
         IN vault \in Vault /\ vault.active = key /\ vault.pending = p /\ vault # None
BY VaultParts DEF Vault

\* A tab with an answer to a call of its rotation has no request of one on its
\* way, no other such answer, and no module request that counts.
LEMMA AnsweredOK ==
  ASSUME IInv, NEW t \in Tabs, NEW b \in back, b.tab = t, b.kind # "write",
         back' = back \ {b}, net' = net, task'[t] = None,
         \A u \in Tabs \ {t} : /\ task'[u] = task[u]
                               /\ (PendingOf(u) = None)' <=> (PendingOf(u) = None)
  PROVE  Calls' /\ Waiting' = Waiting
<1>1. net \subseteq Request /\ back \subseteq Answer
  BY DEF IInv, TypeOK
<1>2. Doing(t, b.kind)
  BY DEF IInv, Calls
<1>3. \A m \in net : m.live => m.tab \in Tabs \ {t}
  <2> SUFFICES ASSUME NEW m \in net, m.live, m.tab = t
               PROVE  FALSE
    BY <1>1, RequestParts
  <2>1. m.kind = "write"
    BY DEF IInv, Calls
  <2> QED BY <1>2, <2>1 DEF IInv, Calls, Doing
<1>4. \A c \in back' : c.kind # "write" => c.tab \in Tabs \ {t}
  BY <1>1 DEF IInv, Calls, Answer
<1>5. \A c \in back' : c.kind = "write" => ~Doing(c.tab, "prepare")'
  <2> SUFFICES ASSUME NEW c \in back', c.kind = "write"
               PROVE  ~Doing(c.tab, "prepare")'
    OBVIOUS
  <2>1. c.tab \in Tabs /\ ~Doing(c.tab, "prepare")
    BY <1>1 DEF IInv, Calls, Answer
  <2> QED BY <2>1 DEF Doing
<1>6. Calls'
  <2>1. \A c \in back' : IF c.kind = "write" THEN ~Doing(c.tab, "prepare")'
                                             ELSE task'[c.tab] = task[c.tab]
    BY <1>4, <1>5
  <2>2. \A m \in net' : m.live =>
          IF m.kind = "write" THEN task'[m.tab] = None /\ (PendingOf(m.tab) = None)'
                              ELSE task'[m.tab] = task[m.tab]
    <3> SUFFICES ASSUME NEW m \in net, m.live
                 PROVE  IF m.kind = "write" THEN task'[m.tab] = None /\ (PendingOf(m.tab) = None)'
                                            ELSE task'[m.tab] = task[m.tab]
      OBVIOUS
    <3>1. m.tab \in Tabs \ {t}
      BY <1>3
    <3> QED BY <3>1 DEF IInv, Calls
  <2> QED BY <1>1, <2>1, <2>2, CallsOK
<1>7. Waiting' = Waiting
  BY DEF Waiting
<1> QED BY <1>6, <1>7

LEMMA StepLoginApply ==
  ASSUME IInv, bounds' = bounds, NEW t \in bounds.tabs, LoginApply(t)
  PROVE  IInv'
<1>1. /\ t \in Tabs /\ task[t] \in Task /\ task[t].step = "login" /\ task[t].key \in Keys
      /\ task' \in [Tabs -> Task \cup {None}] /\ task'[t] = None
      /\ \A u \in Tabs \ {t} : task'[u] = task[u]
      /\ UNCHANGED <<prepared, sent, refused>> /\ Doing(t, "login")
  BY TabParts, TaskParts DEF LoginApply, IInv, TypeOK, Doing
<1>2. /\ net \in SUBSET Request /\ back \in SUBSET Answer /\ session \in User \cup {None}
      /\ account \in Account /\ refused \in SUBSET sent
  BY DEF IInv, TypeOK
<1>3. CASE /\ VaultSet(t, [active |-> task[t].key, pending |-> None])
           /\ \/ UNCHANGED account
              \/ \E d \in Docs, payload \in Payloads :
                   /\ Current /\ account.docs[d] = None
                   /\ account' = [account EXCEPT !.docs[d] =
                                    [key |-> task[t].key, payload |-> payload]]
           /\ UNCHANGED <<session, net, back>>
  <2> DEFINE vault == [active |-> task[t].key, pending |-> None]
  <2>1. vault \in Vault /\ vault.active = task[t].key /\ vault.pending = None /\ vault # None
    BY <1>1, VaultType
  <2>2. AccountStays /\ account' \in Account
    <3>1. CASE UNCHANGED account
      BY <1>1, <1>2, <3>1 DEF AccountStays
    <3>2. ASSUME NEW d \in Docs, NEW payload \in Payloads,
                 account' = [account EXCEPT !.docs[d] = [key |-> task[t].key, payload |-> payload]]
          PROVE  AccountStays /\ account' \in Account
      <4>1. PICK content \in Blob : account' = [account EXCEPT !.docs[d] = content]
        BY <1>1, <3>2 DEF Blob
      <4>2. account' = [account EXCEPT !.docs = [account.docs EXCEPT ![d] = content]]
        BY <4>1
      <4> QED BY <1>1, <1>2, <4>2, SetDocType DEF AccountStays
    <3> QED BY <1>3, <3>1, <3>2
  <2> HIDE DEF vault
  <2>3. VaultSet(t, vault)
    BY <1>3 DEF vault
  <2>4. /\ local' = vault /\ held' \in [Tabs -> Vault \cup {None}] /\ held'[t] = vault
        /\ \A u \in Tabs \ {t} : held'[u] = held[u]
        /\ \A p \in Kept' : p \in Kept \/ (vault # None /\ p = vault.pending)
        /\ ~crossed' => ~crossed
    BY <2>1, <2>3, VaultSetOK
  <2>5. Waiting' = Waiting
    BY <1>3 DEF Waiting
  <2>6. Calls'
    <3>1. \A m \in net : m.live /\ m.kind # "write" => m.tab \in Tabs \ {t}
      BY <1>1, <1>2, RequestParts DEF IInv, Calls, Doing
    <3>2. \A b \in back : b.kind # "write" => b.tab \in Tabs \ {t}
      BY <1>1, <1>2 DEF IInv, Calls, Doing, Answer
    <3>3. \A b \in back : b.kind = "write" => b.tab \in Tabs /\ ~Doing(b.tab, "prepare")'
      <4> SUFFICES ASSUME NEW b \in back, b.kind = "write"
                   PROVE  b.tab \in Tabs /\ ~Doing(b.tab, "prepare")'
        OBVIOUS
      <4>1. b.tab \in Tabs /\ ~Doing(b.tab, "prepare")
        BY <1>2 DEF IInv, Calls, Answer
      <4> QED BY <1>1, <4>1 DEF Doing
    <3>4. ASSUME NEW m \in net, m.live, m.kind = "write"
          PROVE  task'[m.tab] = None /\ (PendingOf(m.tab) = None)'
      <4>1. m.tab \in Tabs /\ m.tab # t /\ task[m.tab] = None /\ PendingOf(m.tab) = None
        BY <1>1, <1>2, <3>4, RequestParts DEF IInv, Calls, Doing
      <4> QED BY <1>1, <2>4, <4>1 DEF PendingOf
    <3> QED BY <1>1, <1>2, <1>3, <3>1, <3>2, <3>3, <3>4, CallsOK
  <2>7. ~crossed' => Held'
    <3> SUFFICES ASSUME ~crossed'
                 PROVE  Held'
      OBVIOUS
    <3>1. /\ Waiting = {} /\ \A u \in Tabs : held[u] = None
          /\ Ours => account.verifier = task[t].key
      BY <1>1, <2>4 DEF IInv, Orderly, LoggingIn
    <3>2. Kept' = {}
      <4>1. Kept = {}
        BY <3>1 DEF Kept
      <4> QED BY <2>1, <2>4, <4>1 DEF Kept
    <3>3. Ours' => Ours
      <4>1. Current' => Current
        BY <1>3, <2>2 DEF Current, AccountStays
      <4> QED BY <1>1, <2>2, <4>1, OursStays
    <3> QED BY <2>1, <2>2, <2>4, <2>5, <3>1, <3>2, <3>3 DEF Held, AccountStays
  <2> QED BY <1>1, <1>2, <1>3, <2>1, <2>2, <2>3, <2>5, <2>6, <2>7, StepVault
<1>4. CASE VaultSet(t, None) /\ session' = None /\ Orphan /\ UNCHANGED account
  <2>1. AccountStays /\ account' \in Account
    BY <1>1, <1>2, <1>4 DEF AccountStays
  <2>2. \A u \in Tabs : \/ task'[u] = task[u]
                        \/ /\ ~Doing(u, "prepare") /\ ~Doing(u, "finalize")
                           /\ ~Doing(u, "prepare")'
    BY <1>1 DEF Doing
  <2>3. /\ net' = {} /\ back' \in SUBSET Answer /\ Calls' /\ Waiting' = {}
        /\ \A b \in back' : b \in back \/ b.code = "AUTH_REQUIRED"
    BY <1>1, <1>4, <2>2, OrphanOK
  <2> QED BY <1>1, <1>2, <1>4, <2>1, <2>3, StepVault
<1> QED BY <1>3, <1>4 DEF LoginApply

\* A tab that clears the vault leaves no request of its own that counts unfit.
LEMMA ClearedCalls ==
  ASSUME IInv, NEW t \in bounds.tabs, VaultSet(t, None), task' = task, net' = net,
         back' \subseteq back
  PROVE  Calls'
<1>1. /\ held' \in [Tabs -> Vault \cup {None}] /\ held'[t] = None
      /\ \A u \in Tabs \ {t} : held'[u] = held[u]
  BY VaultSetOK
<1>2. net \subseteq Request
  BY DEF IInv, TypeOK
<1>3. ASSUME NEW m \in net, m.live, m.kind = "write"
      PROVE  task'[m.tab] = None /\ (PendingOf(m.tab) = None)'
  <2>1. m.tab \in Tabs /\ task[m.tab] = None /\ PendingOf(m.tab) = None
    BY <1>2, <1>3, RequestParts DEF IInv, Calls
  <2> QED BY <1>1, <2>1 DEF PendingOf
<1>4. \A b \in back' : b.kind = "write" => ~Doing(b.tab, "prepare")'
  BY DEF IInv, Calls, Doing
<1> QED BY <1>2, <1>3, <1>4, CallsOK

LEMMA StepSignOut ==
  ASSUME IInv, bounds' = bounds, NEW t \in bounds.tabs, SignOut(t)
  PROVE  IInv'
<1>1. /\ t \in Tabs /\ task[t] = None /\ VaultSet(t, None)
      /\ UNCHANGED <<account, prepared, task, sent, refused>>
  BY TabParts DEF SignOut
<1>2. /\ task \in [Tabs -> Task \cup {None}] /\ account \in Account /\ refused \in SUBSET sent
      /\ net \in SUBSET Request /\ back \in SUBSET Answer
  BY DEF IInv, TypeOK
<1>3. AccountStays /\ session' \in {None, session}
  BY <1>1 DEF SignOut, AccountStays
<1>4. /\ net' \in SUBSET Request /\ back' \in SUBSET Answer /\ Calls' /\ Waiting' \subseteq Waiting
      /\ \A b \in back' : b.code = "OK" => b \in back
  <2>1. CASE Orphan
    <3>1. /\ net' = {} /\ back' \in SUBSET Answer /\ Calls' /\ Waiting' = {}
          /\ \A b \in back' : b \in back \/ b.code = "AUTH_REQUIRED"
      BY <1>1, <1>2, <2>1, OrphanOK
    <3> QED BY <3>1
  <2>2. CASE UNCHANGED <<net, back>>
    <3>1. Calls'
      BY <1>1, <2>2, ClearedCalls
    <3> QED BY <1>2, <2>2, <3>1 DEF Waiting
  <2> QED BY <2>1, <2>2 DEF SignOut
<1> QED BY <1>1, <1>2, <1>3, <1>4, StepVault

LEMMA StepWriteAnswered ==
  ASSUME IInv, bounds' = bounds, NEW t \in bounds.tabs, WriteAnswered(t)
  PROVE  IInv'
<1>1. PICK b \in back :
        /\ b.tab = t /\ b.kind = "write" /\ back' = back \ {b}
        /\ IF b.code = "AUTH_REQUIRED" THEN VaultSet(t, None)
                                       ELSE UNCHANGED <<local, held, unseen, crossed>>
        /\ UNCHANGED <<account, prepared, session, task, net, sent, refused>>
  BY DEF WriteAnswered
<1>2. /\ task \in [Tabs -> Task \cup {None}] /\ account \in Account /\ refused \in SUBSET sent
      /\ net \in SUBSET Request /\ back \in SUBSET Answer /\ t \in Tabs
  BY TabParts DEF IInv, TypeOK
<1>3. AccountStays
  BY <1>1 DEF AccountStays
<1>4. Waiting' = Waiting
  BY <1>1 DEF Waiting
<1>5. CASE VaultSet(t, None)
  <2>1. Calls'
    BY <1>1, <1>5, ClearedCalls
  <2>2. ~Doing(t, "prepare")
    BY <1>1 DEF IInv, Calls
  <2> QED BY <1>1, <1>2, <1>3, <1>4, <1>5, <2>1, <2>2, StepVault
<1>6. CASE UNCHANGED <<local, held, unseen, crossed>>
  <2>1. Calls'
    BY <1>1, <1>6 DEF IInv, Calls, Doing, PendingOf
  <2>2. TypeOK'
    BY <1>1, <1>2, <1>6 DEF IInv, TypeOK
  <2>3. Ours' => Ours
    BY <1>1, <1>3, OursStays, CurrentStays
  <2>4. session' # None => session'.version <= account.version
    BY <1>1 DEF IInv, Truthful
  <2> QED BY <1>1, <1>3, <1>4, <1>6, <2>1, <2>2, <2>3, <2>4, Frame
<1> QED BY <1>1, <1>5, <1>6

\* The new copy of a tab is the document that is stored.
LEMMA ReadsVault ==
  ASSUME IInv, NEW t \in Tabs, held' = [held EXCEPT ![t] = local]
  PROVE  /\ held' \in [Tabs -> Vault \cup {None}] /\ held'[t] = local
         /\ \A u \in Tabs \ {t} : held'[u] = held[u]
         /\ local = None => Kept' \subseteq Kept
         /\ local # None => Kept' \subseteq Kept \cup {local.pending}
         /\ Kept' \subseteq sent
<1>1. /\ held' \in [Tabs -> Vault \cup {None}] /\ held'[t] = local
      /\ \A u \in Tabs \ {t} : held'[u] = held[u]
  BY DEF IInv, TypeOK
<1>2. /\ local = None => Kept' \subseteq Kept
      /\ local # None => Kept' \subseteq Kept \cup {local.pending}
      /\ None \notin Kept'
  BY <1>1 DEF Kept
<1>3. Kept' \subseteq sent
  BY <1>2 DEF IInv, Prepared
<1> QED BY <1>1, <1>2, <1>3

LEMMA StepSync ==
  ASSUME IInv, bounds' = bounds, NEW t \in bounds.tabs, Sync(t)
  PROVE  IInv'
<1>1. /\ t \in Tabs /\ bounds.tabs \subseteq Tabs /\ unseen' = unseen \ {t}
      /\ held' = [held EXCEPT ![t] = local]
      /\ UNCHANGED <<account, prepared, local, crossed, task, sent, refused>>
  BY TabParts DEF Sync
<1>2. /\ held' \in [Tabs -> Vault \cup {None}] /\ held'[t] = local
      /\ \A u \in Tabs \ {t} : held'[u] = held[u]
      /\ local = None => Kept' \subseteq Kept
      /\ local # None => Kept' \subseteq Kept \cup {local.pending}
      /\ Kept' \subseteq sent
  BY <1>1, ReadsVault
<1>3. AccountStays /\ session' \in {None, session}
  BY <1>1 DEF Sync, AccountStays
<1>4. net \subseteq Request /\ back \subseteq Answer /\ task \in [Tabs -> Task \cup {None}]
  BY DEF IInv, TypeOK
<1>5. /\ net' \in SUBSET Request /\ back' \in SUBSET Answer /\ Calls' /\ Waiting' \subseteq Waiting
      /\ \A b \in back' : b.code = "OK" => b \in back
  <2>1. CASE Orphan
    <3>1. /\ net' = {} /\ back' \in SUBSET Answer /\ Calls' /\ Waiting' = {}
          /\ \A b \in back' : b \in back \/ b.code = "AUTH_REQUIRED"
      BY <1>1, <1>4, <2>1, OrphanOK
    <3> QED BY <3>1
  <2>2. CASE UNCHANGED <<net, back>> /\ (local = None \/ local.pending = None)
    <3>1. ASSUME NEW m \in net', m.live, m.kind = "write"
          PROVE  task'[m.tab] = None /\ (PendingOf(m.tab) = None)'
      <4>1. m.tab \in Tabs /\ task[m.tab] = None /\ PendingOf(m.tab) = None
        BY <1>4, <2>2, <3>1, RequestParts DEF IInv, Calls
      <4> QED BY <1>1, <1>2, <2>2, <4>1 DEF PendingOf
    <3>2. \A b \in back' : b.kind = "write" => ~Doing(b.tab, "prepare")'
      BY <1>1, <2>2 DEF IInv, Calls, Doing
    <3>3. Calls'
      BY <1>1, <1>4, <2>2, <3>1, <3>2, CallsOK
    <3> QED BY <1>4, <2>2, <3>3 DEF Waiting
  <2>3. CASE Forget(t, {"write"})
    <3>1. /\ net' \in SUBSET Request /\ back' \in SUBSET Answer
          /\ back' \subseteq back /\ Waiting' = Waiting
          /\ \A m \in net' : m.live => m \in net /\ ~(m.tab = t /\ m.kind \in {"write"})
      BY <1>1, <2>3, ForgetOK
    <3>2. ASSUME NEW m \in net', m.live, m.kind = "write"
          PROVE  task'[m.tab] = None /\ (PendingOf(m.tab) = None)'
      <4>1. m.tab \in Tabs \ {t} /\ task[m.tab] = None /\ PendingOf(m.tab) = None
        BY <3>1, <3>2, RequestParts DEF IInv, Calls
      <4> QED BY <1>1, <1>2, <4>1 DEF PendingOf
    <3>3. \A b \in back' : b.kind = "write" => ~Doing(b.tab, "prepare")'
      BY <1>1, <3>1 DEF IInv, Calls, Doing
    <3>4. Calls'
      BY <1>1, <3>1, <3>2, <3>3, CallsOK
    <3> QED BY <3>1, <3>4
  <2> QED BY <2>1, <2>2, <2>3 DEF Sync
<1>6. TypeOK'
  BY <1>1, <1>2, <1>3, <1>5 DEF IInv, TypeOK, AccountStays
<1>7. Ours' => Ours
  BY <1>1, <1>3, OursStays, CurrentStays
<1>8. Orderly'
  <2> SUFFICES ASSUME ~crossed
               PROVE  Held' /\ Preparing' /\ LoggingIn'
    BY <1>1 DEF Orderly
  <2>1. Held /\ Preparing /\ LoggingIn
    BY DEF IInv, Orderly
  <2>2. Held'
    BY <1>1, <1>2, <1>3, <1>5, <1>7, <2>1, HeldStays
  <2>3. Preparing'
    <3>1. \A r : Past(r)' <=> Past(r)
      BY <1>3, Stays
    <3> QED BY <1>1, <1>5, <1>7, <2>1, <3>1 DEF Preparing, Doing
  <2>4. LoggingIn'
    BY <1>1, <1>2, <1>3, <1>5, <1>7, <2>1 DEF LoggingIn, Doing, AccountStays
  <2> QED BY <2>2, <2>3, <2>4
<1>9. \A u \in bounds.tabs \ unseen' : held'[u] = local'
  BY <1>1, <1>2 DEF IInv, Copies
<1>10. /\ local' # None => local'.pending \in sent' \cup {None}
       /\ Doing(t, "finalize")' => task'[t].pending \in sent'
       /\ Waiting' \subseteq sent' /\ Kept' \subseteq sent'
       /\ session' # None => session'.version <= account.version
  BY <1>1, <1>2, <1>3, <1>5 DEF IInv, Prepared, Doing, Truthful
<1> QED BY <1>1, <1>2, <1>3, <1>5, <1>6, <1>8, <1>9, <1>10, TabFrame

LEMMA StepReload ==
  ASSUME IInv, bounds' = bounds, NEW t \in bounds.tabs, Reload(t)
  PROVE  IInv'
<1> DEFINE kinds == {"prepare", "finalize", "write"}
<1>1. /\ t \in Tabs /\ bounds.tabs \subseteq Tabs /\ unseen' = unseen \ {t}
      /\ held' = [held EXCEPT ![t] = local] /\ Forget(t, kinds)
      /\ task' = [task EXCEPT ![t] = None]
      /\ UNCHANGED <<account, prepared, session, local, crossed, sent, refused>>
  BY TabParts DEF Reload
<1>2. /\ held' \in [Tabs -> Vault \cup {None}] /\ held'[t] = local
      /\ \A u \in Tabs \ {t} : held'[u] = held[u]
      /\ local = None => Kept' \subseteq Kept
      /\ local # None => Kept' \subseteq Kept \cup {local.pending}
      /\ Kept' \subseteq sent
  BY <1>1, ReadsVault
<1>3. AccountStays
  BY <1>1 DEF AccountStays
<1>4. /\ task' \in [Tabs -> Task \cup {None}] /\ task'[t] = None
      /\ \A u \in Tabs \ {t} : task'[u] = task[u]
  BY <1>1 DEF IInv, TypeOK
<1>5. /\ net' \in SUBSET Request /\ back' \in SUBSET Answer
      /\ back' \subseteq back /\ Waiting' = Waiting
      /\ \A b \in back' : b.tab \in Tabs \ {t}
      /\ \A m \in net' : m.live => m \in net /\ m.tab \in Tabs \ {t}
  <2>1. /\ net' \in SUBSET Request /\ back' \in SUBSET Answer
        /\ back' \subseteq back /\ Waiting' = Waiting
        /\ \A b \in back' : ~(b.tab = t /\ b.kind \in kinds)
        /\ \A m \in net' : m.live => m \in net /\ ~(m.tab = t /\ m.kind \in kinds)
    BY <1>1, ForgetOK
  <2> QED BY <2>1, RequestParts DEF Answer
<1>6. Calls'
  <2>1. ASSUME NEW m \in net', m.live, m.kind = "write"
        PROVE  task'[m.tab] = None /\ (PendingOf(m.tab) = None)'
    <3>1. m.tab \in Tabs \ {t} /\ task[m.tab] = None /\ PendingOf(m.tab) = None
      BY <1>5, <2>1 DEF IInv, Calls
    <3> QED BY <1>2, <1>4, <3>1 DEF PendingOf
  <2>2. ASSUME NEW b \in back', b.kind = "write"
        PROVE  ~Doing(b.tab, "prepare")'
    <3>1. b.tab \in Tabs \ {t} /\ ~Doing(b.tab, "prepare")
      BY <1>5, <2>2 DEF IInv, Calls
    <3> QED BY <1>4, <3>1 DEF Doing
  <2> QED BY <1>4, <1>5, <2>1, <2>2, CallsOK
<1>7. TypeOK'
  BY <1>1, <1>2, <1>4, <1>5 DEF IInv, TypeOK
<1>8. Ours' => Ours
  BY <1>1, <1>3, OursStays, CurrentStays
<1>9. Orderly'
  <2> SUFFICES ASSUME ~crossed
               PROVE  Held' /\ Preparing' /\ LoggingIn'
    BY <1>1 DEF Orderly
  <2>1. Held /\ Preparing /\ LoggingIn
    BY DEF IInv, Orderly
  <2>2. Held'
    BY <1>1, <1>2, <1>3, <1>5, <1>8, <2>1, HeldStays
  <2>3. Preparing'
    <3>1. \A r : Past(r)' <=> Past(r)
      BY <1>3, Stays
    <3> QED BY <1>1, <1>4, <1>5, <1>8, <2>1, <3>1 DEF Preparing, Doing
  <2>4. LoggingIn'
    <3>1. \A u \in Tabs : Doing(u, "login")' => u # t /\ Doing(u, "login")
      BY <1>4 DEF Doing
    <3>2. \A u \in Tabs : task[u] = None => task'[u] = None
      BY <1>4
    <3> QED BY <1>1, <1>2, <1>3, <1>4, <1>5, <1>8, <2>1, <3>1, <3>2 DEF LoggingIn, AccountStays
  <2> QED BY <2>2, <2>3, <2>4
<1>10. \A u \in bounds.tabs \ unseen' : held'[u] = local'
  BY <1>1, <1>2 DEF IInv, Copies
<1>11. /\ local' # None => local'.pending \in sent' \cup {None}
       /\ ~Doing(t, "finalize")'
       /\ Waiting' \subseteq sent' /\ Kept' \subseteq sent'
       /\ session' # None => session'.version <= account.version
  BY <1>1, <1>2, <1>4, <1>5 DEF IInv, Prepared, Doing, Truthful
<1>12. \A b \in back' : b.code = "OK" =>
         b \in back /\ (b.kind = "finalize" => task'[b.tab] = task[b.tab])
  BY <1>4, <1>5
<1> QED BY <1>1, <1>2, <1>3, <1>4, <1>6, <1>7, <1>9, <1>10, <1>11, <1>12, TabFrame

LEMMA StepWriteSend ==
  ASSUME IInv, bounds' = bounds, NEW t \in bounds.tabs, NEW d \in Docs,
         NEW payload \in Payloads \cup {None}, WriteSend(t, d, payload)
  PROVE  IInv'
<1> DEFINE content == IF payload = None THEN None
                      ELSE [key |-> held[t].active, payload |-> payload]
           write == [kind |-> "write", tab |-> t, live |-> TRUE, doc |-> d, content |-> content]
<1>1. /\ held[t] # None /\ task[t] = None /\ PendingOf(t) = None /\ net' = net \cup {write}
      /\ UNCHANGED <<account, prepared, session, local, held, unseen, crossed, task, back,
                     sent, refused>>
  BY DEF WriteSend, Suspended
<1>2. t \in Tabs /\ held[t].active \in Keys
  BY <1>1, TabParts
<1>3. content \in Blob \cup {None}
  BY <1>2 DEF Blob
<1> HIDE DEF content
<1>4. write \in Request /\ write.kind = "write" /\ write.tab = t
  BY <1>2, <1>3 DEF Request
<1> HIDE DEF write
<1>5. Calls'
  <2>1. \A m \in net' : m \in net \/ m = write
    BY <1>1
  <2>2. UNCHANGED <<held, task, back>>
    BY <1>1
  <2> QED BY <1>1, <1>4, <2>1, <2>2 DEF IInv, Calls, Doing, PendingOf
<1>6. Waiting' = Waiting
  BY <1>1, <1>4 DEF Waiting
<1>7. TypeOK'
  BY <1>1, <1>4 DEF IInv, TypeOK
<1>8. AccountStays
  BY <1>1 DEF AccountStays
<1>9. Ours' => Ours
  BY <1>1, <1>8, OursStays, CurrentStays
<1>10. session' # None => session'.version <= account.version
  BY <1>1 DEF IInv, Truthful
<1> QED BY <1>1, <1>5, <1>6, <1>7, <1>8, <1>9, <1>10, Frame

LEMMA StepChangeBegin ==
  ASSUME IInv, bounds' = bounds, NEW t \in bounds.tabs, NEW rotation \in Rotations,
         NEW new \in Keys, ChangeBegin(t, rotation, new)
  PROVE  IInv'
<1> DEFINE change == [step |-> "prepare", old |-> held[t].active, new |-> new]
           request == [kind |-> "prepare", tab |-> t, live |-> TRUE, rotation |-> rotation]
<1>1. /\ held[t] # None /\ task[t] = None /\ PendingOf(t) = None
      /\ task' = [task EXCEPT ![t] = change]
      /\ net' = {IF m.tab = t THEN Ignored(m) ELSE m : m \in net} \cup {request}
      /\ back' = {b \in back : b.tab # t}
      /\ crossed' = (crossed \/ t \in unseen \/ OthersBusy(t))
      /\ UNCHANGED <<account, prepared, session, local, held, unseen, sent, refused>>
  BY DEF ChangeBegin, Suspended
<1>2. t \in Tabs /\ held[t].active \in Keys
  BY <1>1, TabParts
<1>3. change \in Task /\ change # None /\ change.step = "prepare"
  BY <1>2, TaskParts DEF Task
<1>4. request \in Request /\ request.kind = "prepare" /\ request.tab = t /\ request.live
  BY <1>2 DEF Request
<1> HIDE DEF change, request
<1>5. net \subseteq Request /\ back \subseteq Answer
  BY DEF IInv, TypeOK
<1>6. /\ task' \in [Tabs -> Task \cup {None}] /\ task'[t] = change
      /\ \A u \in Tabs \ {t} : task'[u] = task[u]
  BY <1>1, <1>2, <1>3 DEF IInv, TypeOK
<1>7. /\ \A m \in net' : \/ m = request
                         \/ m \in net /\ m.tab \in Tabs \ {t}
                         \/ \E n \in net : m = Ignored(n)
      /\ \A n \in net : n \in net' \/ Ignored(n) \in net'
  BY <1>1, <1>5, RequestParts
<1>8. net' \in SUBSET Request /\ Waiting' = Waiting
  BY <1>4, <1>5, <1>7, IgnoredParts DEF Waiting
<1>9. \A m \in net' : m.live => m = request \/ (m \in net /\ m.tab \in Tabs \ {t})
  BY <1>5, <1>7, IgnoredParts
<1>10. back' \subseteq back /\ \A b \in back' : b.tab \in Tabs \ {t}
  BY <1>1, <1>5 DEF Answer
<1>11. Calls'
  <2>1. \A m \in net' : m.live =>
          IF m.kind = "write" THEN task'[m.tab] = None /\ (PendingOf(m.tab) = None)'
          ELSE /\ Doing(m.tab, m.kind)'
               /\ m.kind = "finalize" => task'[m.tab].pending = m.pending
    <3> SUFFICES ASSUME NEW m \in net', m.live
                 PROVE  IF m.kind = "write" THEN task'[m.tab] = None /\ (PendingOf(m.tab) = None)'
                        ELSE /\ Doing(m.tab, m.kind)'
                             /\ m.kind = "finalize" => task'[m.tab].pending = m.pending
      OBVIOUS
    <3>1. CASE m = request
      BY <1>3, <1>4, <1>6, <3>1 DEF Doing
    <3>2. CASE m \in net /\ m.tab \in Tabs \ {t}
      BY <1>1, <1>6, <3>2 DEF IInv, Calls, Doing, PendingOf
    <3> QED BY <1>9, <3>1, <3>2
  <2>2. \A b \in back' : IF b.kind = "write" THEN ~Doing(b.tab, "prepare")'
                                             ELSE Doing(b.tab, b.kind)'
    <3> SUFFICES ASSUME NEW b \in back'
                 PROVE  IF b.kind = "write" THEN ~Doing(b.tab, "prepare")'
                                            ELSE Doing(b.tab, b.kind)'
      OBVIOUS
    <3>1. b \in back /\ b.tab \in Tabs \ {t} /\ task'[b.tab] = task[b.tab]
      BY <1>6, <1>10
    <3> QED BY <3>1 DEF IInv, Calls, Doing
  <2>3. \A m, n \in net' :
          m.live /\ n.live /\ m.tab = n.tab /\ m.kind # "write" /\ n.kind # "write" => m = n
    BY <1>4, <1>9 DEF IInv, Calls
  <2>4. \A b, c \in back' : b.tab = c.tab /\ b.kind # "write" /\ c.kind # "write" => b = c
    BY <1>10 DEF IInv, Calls
  <2>5. \A m \in net', b \in back' :
          ~(m.live /\ m.tab = b.tab /\ m.kind # "write" /\ b.kind # "write")
    BY <1>4, <1>9, <1>10 DEF IInv, Calls
  <2> QED BY <2>1, <2>2, <2>3, <2>4, <2>5 DEF Calls
<1>12. TypeOK'
  <2>1. crossed' \in BOOLEAN
    BY <1>1 DEF IInv, TypeOK
  <2> QED BY <1>1, <1>6, <1>8, <1>10, <2>1 DEF IInv, TypeOK
<1>13. AccountStays
  BY <1>1 DEF AccountStays
<1>14. Ours' => Ours
  BY <1>1, <1>13, OursStays, CurrentStays
<1>15. Kept' = Kept
  BY <1>1 DEF Kept
<1>16. Orderly'
  <2> SUFFICES ASSUME ~crossed'
               PROVE  Held' /\ Preparing' /\ LoggingIn'
    BY DEF Orderly
  <2>1. /\ ~crossed /\ t \notin unseen /\ held[t] = local
        /\ \A u \in Tabs \ {t} : task[u] = None
    BY <1>1 DEF OthersBusy, IInv, Copies
  <2>2. Held /\ Preparing /\ LoggingIn
    BY <2>1 DEF IInv, Orderly
  <2>3. Held'
    BY <1>1, <1>8, <1>13, <1>14, <1>15, <2>2, HeldStays
  <2>4. Preparing'
    <3>1. local # None /\ local.pending = None
      BY <1>1, <2>1 DEF PendingOf
    <3>2. \A r : Past(r)' <=> Past(r)
      BY <1>13, Stays
    <3> QED BY <1>1, <1>10, <1>14, <2>2, <3>1, <3>2 DEF Preparing
  <2>5. LoggingIn'
    <3>1. \A u \in Tabs : ~Doing(u, "login")'
      BY <1>3, <1>6, <2>1 DEF Doing
    <3> QED BY <3>1, NobodyLogsIn
  <2> QED BY <2>3, <2>4, <2>5
<1>17. \A b \in back' : b.code = "OK" =>
         b \in back /\ (b.kind = "finalize" => task'[b.tab] = task[b.tab])
  BY <1>6, <1>10
<1>18. /\ \A u \in bounds.tabs \ unseen' : held'[u] = local'
       /\ local' # None => local'.pending \in sent' \cup {None}
       /\ ~Doing(t, "finalize")'
       /\ Waiting' \subseteq sent' /\ Kept' \subseteq sent'
       /\ session' # None => session'.version <= account.version
  BY <1>1, <1>3, <1>6, <1>8, <1>15 DEF IInv, Copies, Prepared, Doing, Truthful
<1>19. \A u \in Tabs \ {t} : task'[u] = task[u] /\ held'[u] = held[u]
  BY <1>1, <1>6
<1>20. sent' = sent
  BY <1>1
<1> QED BY <1>11, <1>12, <1>13, <1>16, <1>17, <1>18, <1>19, <1>20, TabFrame

\* A tab that asks for the outcome of a rotation has one request on its way.
LEMMA FinalizeCalls ==
  ASSUME IInv, NEW t \in Tabs, NEW p \in Pending,
         task' = [task EXCEPT ![t] = [step |-> "finalize", pending |-> p]],
         net' = net \cup {FinalizeRequest(t, p)}, back' \subseteq back,
         \A m \in net : ~(m.live /\ m.tab = t),
         \A b \in back' : b.tab = t => b.kind = "write",
         \A u \in Tabs \ {t} : held'[u] = held[u]
  PROVE  /\ Calls' /\ net' \in SUBSET Request /\ task' \in [Tabs -> Task \cup {None}]
         /\ Doing(t, "finalize")' /\ task'[t].pending = p
         /\ \A u \in Tabs \ {t} : task'[u] = task[u]
         /\ Waiting' = Waiting \cup {p}
<1> DEFINE finalize == [step |-> "finalize", pending |-> p]
           request == FinalizeRequest(t, p)
<1>1. finalize \in Task /\ finalize # None /\ finalize.step = "finalize" /\ finalize.pending = p
  BY TaskParts DEF Task
<1>2. /\ request \in Request /\ request.kind = "finalize" /\ request.tab = t /\ request.live
      /\ request.pending = p
  BY DEF Request, FinalizeRequest
<1> HIDE DEF finalize, request
<1>3. net' = net \cup {request} /\ task' = [task EXCEPT ![t] = finalize]
  BY DEF finalize, request
<1>4. net \subseteq Request /\ back \subseteq Answer /\ task \in [Tabs -> Task \cup {None}]
  BY DEF IInv, TypeOK
<1>5. /\ task' \in [Tabs -> Task \cup {None}] /\ task'[t] = finalize
      /\ \A u \in Tabs \ {t} : task'[u] = task[u]
  BY <1>1, <1>3, <1>4
<1>6. \A m \in net' : m.live => m = request \/ (m \in net /\ m.tab \in Tabs \ {t})
  BY <1>3, <1>4, RequestParts
<1>7. Waiting' = Waiting \cup {p}
  <2>1. \A q : q \in Waiting' <=> \E m \in net' : m.kind = "finalize" /\ q = m.pending
    BY DEF Waiting
  <2>2. \A q : q \in Waiting <=> \E m \in net : m.kind = "finalize" /\ q = m.pending
    BY DEF Waiting
  <2> QED BY <1>2, <1>3, <2>1, <2>2
<1>8. Calls'
  <2>1. \A m \in net' : m.live =>
          IF m.kind = "write" THEN task'[m.tab] = None /\ (PendingOf(m.tab) = None)'
          ELSE /\ Doing(m.tab, m.kind)'
               /\ m.kind = "finalize" => task'[m.tab].pending = m.pending
    <3> SUFFICES ASSUME NEW m \in net', m.live
                 PROVE  IF m.kind = "write" THEN task'[m.tab] = None /\ (PendingOf(m.tab) = None)'
                        ELSE /\ Doing(m.tab, m.kind)'
                             /\ m.kind = "finalize" => task'[m.tab].pending = m.pending
      OBVIOUS
    <3>1. CASE m = request
      BY <1>1, <1>2, <1>5, <3>1 DEF Doing
    <3>2. CASE m \in net /\ m.tab \in Tabs \ {t}
      BY <1>5, <3>2 DEF IInv, Calls, Doing, PendingOf
    <3> QED BY <1>6, <3>1, <3>2
  <2>2. \A b \in back' : IF b.kind = "write" THEN ~Doing(b.tab, "prepare")'
                                             ELSE Doing(b.tab, b.kind)'
    <3> SUFFICES ASSUME NEW b \in back'
                 PROVE  IF b.kind = "write" THEN ~Doing(b.tab, "prepare")'
                                            ELSE Doing(b.tab, b.kind)'
      OBVIOUS
    <3>1. b \in back /\ b.tab \in Tabs /\ (b.tab = t => b.kind = "write")
      BY <1>4 DEF Answer
    <3>2. CASE b.tab = t
      BY <1>1, <1>5, <3>1, <3>2 DEF Doing
    <3>3. CASE b.tab # t
      BY <1>5, <3>1, <3>3 DEF IInv, Calls, Doing
    <3> QED BY <3>2, <3>3
  <2>3. \A m, n \in net' :
          m.live /\ n.live /\ m.tab = n.tab /\ m.kind # "write" /\ n.kind # "write" => m = n
    BY <1>2, <1>6 DEF IInv, Calls
  <2>4. \A b, c \in back' : b.tab = c.tab /\ b.kind # "write" /\ c.kind # "write" => b = c
    BY DEF IInv, Calls
  <2>5. \A m \in net', b \in back' :
          ~(m.live /\ m.tab = b.tab /\ m.kind # "write" /\ b.kind # "write")
    BY <1>2, <1>6 DEF IInv, Calls
  <2> QED BY <2>1, <2>2, <2>3, <2>4, <2>5 DEF Calls
<1>9. Doing(t, "finalize")' /\ task'[t].pending = p
  BY <1>1, <1>5 DEF Doing
<1> QED BY <1>2, <1>3, <1>4, <1>5, <1>7, <1>8, <1>9

LEMMA StepResume ==
  ASSUME IInv, bounds' = bounds, NEW t \in bounds.tabs, Resume(t)
  PROVE  IInv'
<1> DEFINE p == PendingOf(t)
<1>1. /\ t \in Tabs /\ task[t] = None /\ p # None /\ p \in Pending /\ p \in Kept /\ p \in sent
      /\ task' = [task EXCEPT ![t] = [step |-> "finalize", pending |-> p]]
      /\ net' = net \cup {FinalizeRequest(t, p)}
      /\ UNCHANGED <<account, prepared, session, local, held, unseen, crossed, back, sent, refused>>
  BY TabParts DEF Resume
<1>2. net \subseteq Request /\ back \subseteq Answer
  BY DEF IInv, TypeOK
<1>3. \A m \in net : ~(m.live /\ m.tab = t)
  BY <1>1 DEF IInv, Calls, Doing
<1>4. \A b \in back : b.tab = t => b.kind = "write"
  BY <1>1 DEF IInv, Calls, Doing
<1>5. Kept' = Kept
  BY <1>1 DEF Kept
<1>6. held[t] # None
  BY <1>1 DEF PendingOf
<1> HIDE DEF p
<1>7. /\ Calls' /\ net' \in SUBSET Request /\ task' \in [Tabs -> Task \cup {None}]
      /\ Doing(t, "finalize")' /\ task'[t].pending = p
      /\ \A u \in Tabs \ {t} : task'[u] = task[u]
      /\ Waiting' = Waiting \cup {p}
  BY <1>1, <1>3, <1>4, FinalizeCalls
<1>8. TypeOK'
  BY <1>1, <1>7 DEF IInv, TypeOK
<1>9. AccountStays
  BY <1>1 DEF AccountStays
<1>10. Ours' => Ours
  BY <1>1, <1>9, OursStays, CurrentStays
<1>11. Orderly'
  <2> SUFFICES ASSUME ~crossed
               PROVE  Held' /\ Preparing' /\ LoggingIn'
    BY <1>1 DEF Orderly
  <2>1. Held /\ Preparing /\ LoggingIn
    BY DEF IInv, Orderly
  <2>2. Held'
    BY <1>1, <1>5, <1>7, <1>9, <1>10, <2>1, HeldStays
  <2>3. Preparing'
    <3>1. \A r : Past(r)' <=> Past(r)
      BY <1>9, Stays
    <3>2. \A u \in Tabs : Doing(u, "prepare")' => Doing(u, "prepare")
      BY <1>7 DEF Doing
    <3> QED BY <1>1, <1>10, <2>1, <3>1, <3>2 DEF Preparing
  <2>4. LoggingIn'
    <3>1. \A u \in Tabs : ~Doing(u, "login")
      BY <1>1, <1>6, <2>1 DEF LoggingIn
    <3>2. \A u \in Tabs : ~Doing(u, "login")'
      BY <1>7, <3>1 DEF Doing
    <3> QED BY <3>2, NobodyLogsIn
  <2> QED BY <2>2, <2>3, <2>4
<1>12. /\ \A u \in bounds.tabs \ unseen' : held'[u] = local'
       /\ local' # None => local'.pending \in sent' \cup {None}
       /\ Waiting' \subseteq sent' /\ Kept' \subseteq sent'
       /\ session' # None => session'.version <= account.version
  BY <1>1, <1>5, <1>7 DEF IInv, Copies, Prepared, Truthful
<1>13. \A b \in back' : b.code = "OK" =>
         b \in back /\ (b.kind = "finalize" => task'[b.tab] = task[b.tab])
  BY <1>1, <1>2, <1>4, <1>7 DEF Answer
<1>14. /\ \A u \in Tabs \ {t} : task'[u] = task[u] /\ held'[u] = held[u]
       /\ sent' = sent /\ task'[t].pending \in sent
  BY <1>1, <1>7
<1> QED BY <1>7, <1>8, <1>9, <1>11, <1>12, <1>13, <1>14, TabFrame

\* A tab is done with its rotation and leaves the vault alone.
LEMMA StepDone ==
  ASSUME IInv, bounds' = bounds, NEW t \in bounds.tabs, NEW b \in back, b.tab = t,
         b.kind # "write", back' = back \ {b}, task' = [task EXCEPT ![t] = None],
         UNCHANGED <<account, prepared, session, net, sent, refused,
                     local, held, unseen, crossed>>
  PROVE  IInv'
<1>1. t \in Tabs /\ back \subseteq Answer
  BY TabParts DEF IInv, TypeOK
<1>2. /\ task' \in [Tabs -> Task \cup {None}] /\ task'[t] = None
      /\ \A u \in Tabs \ {t} : task'[u] = task[u]
  BY <1>1 DEF IInv, TypeOK
<1>3. Calls' /\ Waiting' = Waiting
  BY <1>1, <1>2, AnsweredOK DEF PendingOf
<1>4. TypeOK'
  BY <1>2 DEF IInv, TypeOK
<1>5. AccountStays
  BY DEF AccountStays
<1>6. Ours' => Ours
  BY <1>5, OursStays, CurrentStays
<1>7. Kept' = Kept
  BY DEF Kept
<1>8. Orderly'
  <2> SUFFICES ASSUME ~crossed
               PROVE  Held' /\ Preparing' /\ LoggingIn'
    BY DEF Orderly
  <2>1. Held /\ Preparing /\ LoggingIn
    BY DEF IInv, Orderly
  <2>2. Held'
    BY <1>3, <1>5, <1>6, <1>7, <2>1, HeldStays
  <2>3. Preparing'
    <3>1. \A r : Past(r)' <=> Past(r)
      BY <1>5, Stays
    <3>2. \A u \in Tabs : Doing(u, "prepare")' => Doing(u, "prepare")
      BY <1>2 DEF Doing
    <3> QED BY <1>6, <2>1, <3>1, <3>2 DEF Preparing
  <2>4. LoggingIn'
    <3>1. \A u \in Tabs : Doing(u, "login")' => u # t /\ Doing(u, "login") /\ task'[u] = task[u]
      BY <1>2 DEF Doing
    <3>2. \A u \in Tabs : task[u] = None => task'[u] = None
      BY <1>2
    <3>3. Waiting' = Waiting /\ held' = held /\ local' = local
      BY <1>3
    <3> QED BY <1>2, <1>5, <1>6, <2>1, <3>1, <3>2, <3>3 DEF LoggingIn, AccountStays
  <2> QED BY <2>2, <2>3, <2>4
<1>9. /\ \A u \in bounds.tabs \ unseen' : held'[u] = local'
      /\ local' # None => local'.pending \in sent' \cup {None}
      /\ Waiting' \subseteq sent' /\ Kept' \subseteq sent'
      /\ ~Doing(t, "finalize")'
      /\ session' # None => session'.version <= account.version
  BY <1>2, <1>3, <1>7 DEF IInv, Copies, Prepared, Truthful, Doing
<1>10. \A c \in back' : c.code = "OK" =>
         c \in back /\ (c.kind = "finalize" => task'[c.tab] = task[c.tab])
  <2>1. \A c \in back' : c.kind = "finalize" => c.tab \in Tabs \ {t}
    BY <1>1 DEF IInv, Calls, Answer
  <2> QED BY <1>2, <2>1
<1>11. \A u \in Tabs \ {t} : task'[u] = task[u] /\ held'[u] = held[u]
  BY <1>2
<1> QED BY <1>3, <1>4, <1>5, <1>8, <1>9, <1>10, <1>11, TabFrame

\* A tab is done with its rotation and writes the vault, nothing pending.
LEMMA StepDoneVault ==
  ASSUME IInv, bounds' = bounds, NEW t \in bounds.tabs, NEW b \in back, b.tab = t,
         b.kind # "write", back' = back \ {b}, task' = [task EXCEPT ![t] = None],
         UNCHANGED <<account, prepared, session, net, sent>>,
         NEW vault \in Vault \cup {None}, VaultSet(t, vault),
         vault # None => vault.pending = None,
         refused' \in SUBSET sent, refused \subseteq refused',
         ~crossed' => (vault # None /\ Waiting' = Waiting => Held')
  PROVE  IInv'
<1>1. t \in Tabs /\ back \in SUBSET Answer /\ net \in SUBSET Request /\ account \in Account
  BY TabParts DEF IInv, TypeOK
<1>2. /\ task' \in [Tabs -> Task \cup {None}] /\ task'[t] = None
      /\ \A u \in Tabs \ {t} : task'[u] = task[u]
  BY <1>1 DEF IInv, TypeOK
<1>3. \A u \in Tabs \ {t} : held'[u] = held[u]
  BY VaultSetOK
<1>4. \A u \in Tabs \ {t} : (PendingOf(u) = None)' <=> (PendingOf(u) = None)
  BY <1>3 DEF PendingOf
<1>5. Calls' /\ Waiting' = Waiting
  BY <1>1, <1>2, <1>4, AnsweredOK
<1>6. AccountStays
  BY DEF AccountStays
<1> QED BY <1>1, <1>2, <1>5, <1>6, StepVault

LEMMA StepChangeStores ==
  ASSUME IInv, bounds' = bounds, NEW t \in bounds.tabs, NEW b \in back, b.tab = t,
         b.kind = "prepare", back' = back \ {b}, ChangeStores(t, b),
         UNCHANGED <<account, prepared, session, refused>>
  PROVE  IInv'
<1> DEFINE p == [rotation |-> b.rotation, old |-> task[t].old, new |-> task[t].new]
           vault == [active |-> held[t].active, pending |-> p]
<1>1. /\ b.code = "OK" /\ held[t] # None /\ VaultSet(t, vault)
      /\ task' = [task EXCEPT ![t] = [step |-> "finalize", pending |-> p]]
      /\ net' = net \cup {FinalizeRequest(t, p)} /\ sent' = sent \cup {p}
  BY DEF ChangeStores
<1>2. /\ t \in Tabs /\ bounds.tabs \subseteq Tabs /\ held[t].active \in Keys
      /\ back \subseteq Answer /\ net \subseteq Request
  BY <1>1, TabParts DEF IInv, TypeOK
<1>3. Doing(t, "prepare")
  BY DEF IInv, Calls
<1>4. task[t].old \in Keys /\ task[t].new \in Keys
  BY <1>2, <1>3, TaskParts DEF Doing, IInv, TypeOK
<1>5. b.rotation \in Rotations /\ prepared[b.rotation] # None
  BY <1>1 DEF IInv, Prepared
<1>6. p \in Pending /\ p # None /\ p.rotation = b.rotation
  BY <1>4, <1>5, PendingParts DEF Pending
<1> HIDE DEF p
<1>7. vault \in Vault /\ vault.active = held[t].active /\ vault.pending = p /\ vault # None
  BY <1>2, <1>6, VaultType
<1> HIDE DEF vault
<1>8. /\ local' = vault /\ held' \in [Tabs -> Vault \cup {None}] /\ held'[t] = vault
      /\ \A u \in Tabs \ {t} : held'[u] = held[u]
      /\ unseen' \in SUBSET Tabs /\ bounds.tabs \ unseen' \subseteq {t}
      /\ crossed' \in BOOLEAN
      /\ \A q \in Kept' : q \in Kept \/ q = p
      /\ ~crossed' => /\ ~crossed /\ held[t] = local
                      /\ \A u \in Tabs \ {t} : task[u] = None
  BY <1>1, <1>7, VaultSetOK
<1>9. \A m \in net : ~(m.live /\ m.tab = t)
  BY <1>3 DEF IInv, Calls, Doing
<1>10. back' \subseteq back /\ \A c \in back' : c.tab = t => c.kind = "write"
  BY DEF IInv, Calls
<1>11. /\ Calls' /\ net' \in SUBSET Request /\ task' \in [Tabs -> Task \cup {None}]
       /\ Doing(t, "finalize")' /\ task'[t].pending = p
       /\ \A u \in Tabs \ {t} : task'[u] = task[u]
       /\ Waiting' = Waiting \cup {p}
  BY <1>1, <1>2, <1>6, <1>8, <1>9, <1>10, FinalizeCalls
<1>12. TypeOK'
  <2>1. sent' \in SUBSET Pending /\ refused' \in SUBSET sent'
    BY <1>1, <1>6 DEF IInv, TypeOK
  <2> QED BY <1>7, <1>8, <1>10, <1>11, <2>1 DEF IInv, TypeOK
<1>13. AccountStays
  BY DEF AccountStays
<1>14. /\ \A q \in Waiting' \cup Kept' : q \in Waiting \cup Kept \/ q = p
       /\ \A q \in Waiting \cup Kept : q \in sent
  BY <1>8, <1>11, KnownPending DEF IInv
<1>15. Orderly'
  <2> SUFFICES ASSUME ~crossed'
               PROVE  Held' /\ Preparing' /\ LoggingIn'
    BY DEF Orderly
  <2>1. /\ ~crossed /\ held[t] = local
        /\ \A u \in Tabs \ {t} : task[u] = None
    BY <1>8
  <2>2. Held /\ Preparing /\ local # None /\ local.pending = None
    BY <1>2, <1>3, <2>1 DEF IInv, Orderly, Preparing
  <2>3. /\ \A q : Applied(q)' <=> Applied(q)
        /\ \A r : Past(r)' <=> Past(r)
    BY <1>13, Stays
  <2>4. Ours' => Ours \/ Applied(p)
    <3>1. Current' <=> Current
      BY DEF Current
    <3> QED BY <1>1, <2>3, <3>1 DEF Ours
  <2>5. Ours' => \/ Applied(p)
                 \/ account.verifier = vault.active /\ ~Past(p.rotation)
    <3> SUFFICES ASSUME Ours
                 PROVE  account.verifier = vault.active /\ ~Past(p.rotation)
      BY <2>4
    <3> QED BY <1>1, <1>6, <1>7, <2>1, <2>2 DEF Held, Preparing
  <2>6. \A q \in (Waiting' \cup Kept') \ refused' : q = p \/ Past(q.rotation)
    <3> SUFFICES ASSUME NEW q \in (Waiting \cup Kept) \ refused
                 PROVE  Past(q.rotation)
      BY <1>14
    <3>1. q \in Pending
      BY KnownPending DEF IInv
    <3> QED BY <2>2, <3>1, PendingParts DEF Held
  <2>7. Held'
    BY <1>6, <1>7, <1>8, <2>3, <2>5, <2>6 DEF Held
  <2>8. \A u \in Tabs : ~Doing(u, "prepare")' /\ ~Doing(u, "login")'
    BY <1>11, <2>1 DEF Doing
  <2> QED BY <1>2, <1>10, <1>11, <2>7, <2>8, NobodyPrepares, NobodyLogsIn
<1>16. /\ \A u \in bounds.tabs \ unseen' : held'[u] = local'
       /\ local' # None => local'.pending \in sent' \cup {None}
       /\ Waiting' \subseteq sent' /\ Kept' \subseteq sent'
       /\ session' # None => session'.version <= account.version
       /\ \A q \in sent' \ sent : prepared[q.rotation] # None
       /\ sent \subseteq sent' /\ p \in sent'
  BY <1>1, <1>5, <1>6, <1>7, <1>8, <1>14 DEF IInv, Truthful
<1>17. \A c \in back' : c.code = "OK" =>
         c \in back /\ (c.kind = "finalize" => task'[c.tab] = task[c.tab])
  BY <1>2, <1>10, <1>11 DEF Answer
<1> QED BY <1>8, <1>11, <1>12, <1>13, <1>15, <1>16, <1>17, TabFrame

LEMMA StepChangeAnswered ==
  ASSUME IInv, bounds' = bounds, NEW t \in bounds.tabs, ChangeAnswered(t)
  PROVE  IInv'
<1>1. PICK b \in back :
        /\ b.tab = t /\ b.kind = "prepare" /\ back' = back \ {b}
        /\ ChangeFails(t, b) \/ ChangeStores(t, b) \/ ChangeDenied(t, b)
        /\ UNCHANGED <<account, prepared, session, refused>>
  BY DEF ChangeAnswered
<1>2. refused' \in SUBSET sent /\ refused \subseteq refused'
  BY <1>1 DEF IInv, TypeOK
<1>3. CASE ChangeFails(t, b)
  BY <1>1, <1>3, StepDone DEF ChangeFails
<1>4. CASE ChangeStores(t, b)
  BY <1>1, <1>4, StepChangeStores
<1>5. CASE ChangeDenied(t, b)
  BY <1>1, <1>2, <1>5, StepDoneVault DEF ChangeDenied
<1> QED BY <1>1, <1>3, <1>4, <1>5

LEMMA StepPromote ==
  ASSUME IInv, bounds' = bounds, NEW t \in bounds.tabs, NEW b \in back, b.tab = t,
         b.kind = "finalize", back' = back \ {b}, task' = [task EXCEPT ![t] = None],
         Promote(t, b), UNCHANGED <<account, prepared, session, net, sent>>
  PROVE  IInv'
<1> DEFINE p == PendingOf(t)
           vault == [active |-> p.new, pending |-> None]
<1>1. /\ b.code = "OK" /\ p # None /\ p.rotation = task[t].pending.rotation
      /\ VaultSet(t, vault) /\ UNCHANGED refused
  BY DEF Promote, Owns
<1>2. t \in Tabs /\ p \in Pending /\ p.new \in Keys /\ p \in sent
  BY <1>1, TabParts, PendingParts
<1>3. held[t] # None /\ held[t].pending = p
  BY <1>1 DEF PendingOf
<1> HIDE DEF p
<1>4. vault \in Vault /\ vault.active = p.new /\ vault.pending = None /\ vault # None
  BY <1>2, VaultType
<1> HIDE DEF vault
<1>5. /\ local' = vault /\ \A q \in Kept' : q \in Kept \/ q = None
      /\ ~crossed' => ~crossed /\ held[t] = local
  BY <1>1, <1>4, VaultSetOK
<1>6. Past(p.rotation)
  <2>1. Doing(t, "finalize") /\ Done(task[t].pending)
    BY <1>1 DEF IInv, Calls, Truthful
  <2>2. task[t].pending \in Pending /\ prepared[task[t].pending.rotation] # None
    BY <1>2, <2>1, KnownPending DEF IInv, Prepared
  <2> QED BY <1>1, <2>1, <2>2, DoneIsPast DEF IInv
<1>7. AccountStays
  BY DEF AccountStays
<1>8. ASSUME ~crossed', Waiting' = Waiting
      PROVE  Held'
  <2>1. /\ Held /\ local # None /\ local.pending = p
    BY <1>3, <1>5, <1>8 DEF IInv, Orderly
  <2>2. Ours' => Ours
    BY <1>1, <1>7, OursStays, CurrentStays
  <2>3. /\ \A q : Applied(q)' <=> Applied(q)
        /\ \A r : Past(r)' <=> Past(r)
    BY <1>7, Stays
  <2>4. Ours => account.verifier = p.new
    <3> SUFFICES ASSUME Ours
                 PROVE  account.verifier = p.new
      OBVIOUS
    <3>1. Applied(p)
      BY <1>1, <1>6, <2>1 DEF Held
    <3> QED BY <1>2, <3>1, KnownPending, AppliedParts DEF IInv
  <2>5. \A q \in (Waiting' \cup Kept') \ refused' : Past(q.rotation)
    <3>1. None \notin Kept'
      BY DEF Kept
    <3> QED BY <1>1, <1>5, <1>6, <1>8, <2>1, <3>1 DEF Held
  <2> QED BY <1>4, <1>5, <2>2, <2>3, <2>4, <2>5 DEF Held
<1>9. refused' \in SUBSET sent /\ refused \subseteq refused' /\ b.kind # "write"
  BY <1>1 DEF IInv, TypeOK
<1> QED BY <1>1, <1>4, <1>8, <1>9, StepDoneVault

LEMMA StepDropPending ==
  ASSUME IInv, bounds' = bounds, NEW t \in bounds.tabs, NEW b \in back, b.tab = t,
         b.kind = "finalize", back' = back \ {b}, task' = [task EXCEPT ![t] = None],
         DropPending(t, b), UNCHANGED <<account, prepared, session, net, sent>>
  PROVE  IInv'
<1> DEFINE p == PendingOf(t)
           vault == [active |-> held[t].active, pending |-> None]
<1>1. /\ p # None /\ VaultSet(t, vault) /\ refused' = refused \cup {p}
  BY DEF DropPending, Owns
<1>2. t \in Tabs /\ p \in Pending /\ p \in sent
  BY <1>1, TabParts
<1>3. held[t] # None /\ held[t].pending = p /\ held[t].active \in Keys
  BY <1>1, TabParts DEF PendingOf
<1> HIDE DEF p
<1>4. vault \in Vault /\ vault.active = held[t].active /\ vault.pending = None /\ vault # None
  BY <1>3, VaultType
<1> HIDE DEF vault
<1>5. /\ local' = vault /\ \A q \in Kept' : q \in Kept \/ q = None
      /\ ~crossed' => ~crossed /\ held[t] = local
  BY <1>1, <1>4, VaultSetOK
<1>6. AccountStays
  BY DEF AccountStays
<1>7. refused' \in SUBSET sent /\ refused \subseteq refused' /\ b.kind # "write"
  BY <1>1, <1>2 DEF IInv, TypeOK
<1>8. ASSUME ~crossed', Waiting' = Waiting
      PROVE  Held'
  <2>1. /\ Held /\ local # None /\ local.pending = p /\ local.active = vault.active
    BY <1>3, <1>4, <1>5, <1>8 DEF IInv, Orderly
  <2>2. Ours' => Ours
    BY <1>6, <1>7, OursStays, CurrentStays
  <2>3. /\ \A q : Applied(q)' <=> Applied(q)
        /\ \A r : Past(r)' <=> Past(r)
    BY <1>6, Stays
  <2>4. Ours' => ~Applied(p)
    <3> SUFFICES ASSUME Ours', Applied(p)
                 PROVE  FALSE
      OBVIOUS
    <3>1. PICK q \in sent \ refused' : Applied(q)
      BY <1>1, <2>3 DEF Ours
    <3>2. q = p
      BY <1>2, <3>1, KnownPending, AppliedIsOne DEF IInv
    <3> QED BY <1>1, <3>1, <3>2
  <2>5. Ours' => account.verifier = vault.active
    BY <2>1, <2>2, <2>4 DEF Held
  <2>6. \A q \in (Waiting' \cup Kept') \ refused' : Past(q.rotation)
    <3>1. None \notin Kept'
      BY DEF Kept
    <3> QED BY <1>1, <1>5, <1>8, <2>1, <3>1 DEF Held
  <2> QED BY <1>4, <1>5, <2>3, <2>5, <2>6 DEF Held
<1> QED BY <1>1, <1>4, <1>7, <1>8, StepDoneVault

LEMMA StepFinalizeAnswered ==
  ASSUME IInv, bounds' = bounds, NEW t \in bounds.tabs, FinalizeAnswered(t)
  PROVE  IInv'
<1>1. PICK b \in back :
        /\ b.tab = t /\ b.kind = "finalize" /\ back' = back \ {b}
        /\ task' = [task EXCEPT ![t] = None]
        /\ \/ Promote(t, b)
           \/ DropPending(t, b)
           \/ VaultSet(t, None) /\ UNCHANGED refused
           \/ UNCHANGED <<local, held, unseen, crossed, refused>>
        /\ UNCHANGED <<account, prepared, session, net, sent>>
  BY DEF FinalizeAnswered
<1>2. CASE Promote(t, b)
  BY <1>1, <1>2, StepPromote
<1>3. CASE DropPending(t, b)
  BY <1>1, <1>3, StepDropPending
<1>4. CASE VaultSet(t, None) /\ UNCHANGED refused
  <2>1. refused' \in SUBSET sent /\ refused \subseteq refused'
    BY <1>4 DEF IInv, TypeOK
  <2> QED BY <1>1, <1>4, <2>1, StepDoneVault
<1>5. CASE UNCHANGED <<local, held, unseen, crossed, refused>>
  BY <1>1, <1>5, StepDone
<1> QED BY <1>1, <1>2, <1>3, <1>4, <1>5

-----------------------------------------------------------------------------
(* The invariant. *)

LEMMA AtFirst ==
  ASSUME Init
  PROVE  IInv
<1>1. PICK acc \in FreshAccounts : account = acc /\ ~acc.legacy
  BY DEF Init
<1>2. PICK key \in Keys, legacy \in BOOLEAN, docs \in Contents :
        acc = [verifier |-> key, legacy |-> legacy, version |-> 0,
               docs |-> Rekey(docs, key), receipt |-> None]
  BY DEF FreshAccounts
<1>3. Rekey(docs, key) \in Contents
  BY DEF Rekey, Contents, Blob
<1>4. account \in Account /\ account.receipt = None
  BY <1>1, <1>2, <1>3 DEF Account
<1>5. Waiting = {} /\ Kept = {}
  BY DEF Init, Waiting, Kept
<1>6. TypeOK
  BY <1>4 DEF Init, TypeOK
<1>7. Copies /\ Calls
  BY CasesAssumption DEF Init, Copies, Calls
<1>8. \A t \in Tabs : task[t] = None
  BY DEF Init
<1>9. Prepared
  BY <1>5, <1>8 DEF Init, Prepared, Doing
<1>10. Truthful
  BY <1>4 DEF Init, Truthful
<1>11. Orderly
  BY <1>8 DEF Init, Orderly, Held, Preparing, LoggingIn, Doing
<1> QED BY <1>6, <1>7, <1>9, <1>10, <1>11 DEF IInv

LEMMA CaseParts ==
  ASSUME IInv
  PROVE  bounds.tabs \subseteq Tabs /\ bounds.rotations \subseteq Rotations
BY CasesAssumption DEF IInv, TypeOK

LEMMA OutsideKeeps ==
  ASSUME IInv, OutsideStep, bounds' = bounds
  PROVE  IInv'
<1>1. TabsRest
  BY DEF OutsideStep, TabsRest
<1>2. ASSUME NEW m \in net,
             ServeWrite(m) \/ ServePrepare(m) \/ ServeFinalize(m) \/ GiveUp(m) \/ Lose(m)
      PROVE  IInv'
  BY <1>1, <1>2, StepServeWrite, StepServePrepare, StepServeFinalize, StepGiveUp
<1>3. ASSUME NEW b \in back, LoseAnswer(b)
      PROVE  IInv'
  BY <1>1, <1>3, StepLoseAnswer
<1>4. CASE \/ SessionEnds
           \/ \E d \in Docs, payload \in Payloads \cup {None} : ElsewhereWrites(d, payload)
  BY <1>1, <1>4, StepElsewhere
<1>5. ASSUME NEW rotation \in bounds.rotations, NEW new \in Keys, ElsewhereRotates(rotation, new)
      PROVE  IInv'
  BY <1>1, <1>5, CaseParts, StepElsewhereRotates
<1> QED BY <1>2, <1>3, <1>4, <1>5 DEF OutsideStep

LEMMA TabKeeps ==
  ASSUME IInv, NEW t \in bounds.tabs, TabStep(t), bounds' = bounds
  PROVE  IInv'
<1>1. CASE LoginSend(t) \/ LoginApply(t) \/ SignOut(t) \/ Sync(t) \/ Reload(t)
  BY <1>1, StepLoginSend, StepLoginApply, StepSignOut, StepSync, StepReload
<1>2. ASSUME NEW d \in Docs, NEW payload \in Payloads \cup {None}, WriteSend(t, d, payload)
      PROVE  IInv'
  BY <1>2, StepWriteSend
<1>3. ASSUME NEW rotation \in bounds.rotations, NEW new \in Keys, ChangeBegin(t, rotation, new)
      PROVE  IInv'
  BY <1>3, CaseParts, StepChangeBegin
<1>4. CASE WriteAnswered(t) \/ ChangeAnswered(t) \/ Resume(t) \/ FinalizeAnswered(t)
  BY <1>4, StepWriteAnswered, StepChangeAnswered, StepResume, StepFinalizeAnswered
<1> QED BY <1>1, <1>2, <1>3, <1>4 DEF TabStep

LEMMA EachStep ==
  ASSUME IInv, [Next]_vars
  PROVE  IInv'
<1>1. CASE Next
  BY <1>1, OutsideKeeps, TabKeeps DEF Next
<1>2. CASE UNCHANGED vars
  <2>1. TypeOK' /\ Copies'
    BY <1>2 DEF vars, IInv, TypeOK, Copies
  <2>2. Calls' /\ Waiting' = Waiting
    BY <1>2 DEF vars, IInv, Calls, Doing, PendingOf, Waiting
  <2>3. AccountStays
    BY <1>2 DEF vars, AccountStays
  <2>4. Ours' => Ours
    BY <1>2, <2>3, OursStays, CurrentStays DEF vars
  <2>5. session' # None => session'.version <= account.version
    BY <1>2 DEF vars, IInv, Truthful
  <2>6. back' = back /\ UNCHANGED <<local, held, unseen, task, crossed, sent, refused, bounds>>
    BY <1>2 DEF vars
  <2> QED BY <2>1, <2>2, <2>3, <2>4, <2>5, <2>6, Frame
<1> QED BY <1>1, <1>2

\* The vault, the requests and the account fit together, whatever is lost,
\* given up, retried, reloaded or done elsewhere (IInv).
THEOREM RotationInvariant == Spec => []IInv
<1>1. Init => IInv
  BY AtFirst
<1>2. IInv /\ [Next]_vars => IInv'
  BY EachStep
<1> QED BY <1>1, <1>2, PTL DEF Spec

\* Every variable has its type.
THEOREM RotationTypes == Spec => []TypeOK
<1>1. IInv => TypeOK
  BY DEF IInv
<1> QED BY <1>1, RotationInvariant, PTL

\* While the account is at a rotation of this browser, the browser holds the
\* key of it: the pending key is stored before the request leaves, and dropped
\* on a refusal only (pending_set, pending_clear, pending_promote).
THEOREM RotatorHolds == Spec => []RotatorHoldsKey
<1>1. IInv => RotatorHoldsKey
  <2> SUFFICES ASSUME IInv, NEW p \in sent, Applied(p), local # None, p \notin refused, ~crossed
               PROVE  p.new \in {local.active} \cup {q.new : q \in {local.pending} \ {None}}
    BY DEF RotatorHoldsKey
  <2>1. Ours /\ Held
    BY DEF Ours, IInv, Orderly
  <2>2. p \in Pending /\ prepared[p.rotation] # None /\ account.verifier = p.new
    BY KnownPending, AppliedParts DEF IInv
  <2>3. local.pending # None => local.pending \in sent
    BY DEF IInv, Prepared
  <2>4. CASE local.pending # None /\ Applied(local.pending)
    <3>1. local.pending = p
      BY <2>2, <2>3, <2>4, KnownPending, AppliedIsOne DEF IInv
    <3> QED BY <2>4, <3>1
  <2>5. CASE account.verifier = local.active
    BY <2>2, <2>5
  <2> QED BY <2>1, <2>4, <2>5 DEF Held
<1> QED BY <1>1, RotationInvariant, PTL

\* The rotation that a tab reports as a success took place.
LEMMA Succeeded ==
  ASSUME IInv, Next, NEW t \in Tabs,
         task[t] # None, task[t].step = "finalize", task'[t] = None,
         PendingOf(t) = task[t].pending, local' # local,
         held'[t] = [active |-> task[t].pending.new, pending |-> None],
         held'[t].active # held[t].active
  PROVE  Done(task[t].pending)
<1>1. task \in [Tabs -> Task \cup {None}] /\ held \in [Tabs -> Vault \cup {None}]
      /\ task[t] \in Task /\ task[t].pending \in Pending /\ task[t].pending.new \in Keys
  BY TaskParts, PendingParts DEF IInv, TypeOK
<1>2. held'[t] # None
  BY <1>1, VaultType
<1>3. PICK u \in bounds.tabs : TabStep(u)
  BY DEF Next, OutsideStep
<1>4. u \in Tabs
  BY <1>3, CaseParts
<1>5. u = t
  BY <1>1, <1>3, <1>4 DEF TabStep, LoginSend, LoginApply, SignOut, Sync, Reload, WriteSend,
    WriteAnswered, ChangeBegin, ChangeAnswered, ChangeFails, ChangeStores, ChangeDenied,
    Resume, FinalizeAnswered
<1>6. PICK b \in back : /\ b.tab = t /\ b.kind \in {"prepare", "finalize"}
                        /\ b.kind = "prepare" \/ Promote(t, b) \/ DropPending(t, b)
                           \/ VaultSet(t, None)
  BY <1>1, <1>3, <1>5 DEF TabStep, LoginSend, LoginApply, SignOut, Sync, Reload, WriteSend,
    WriteAnswered, ChangeBegin, ChangeAnswered, Resume, FinalizeAnswered
<1>7. b.kind = "finalize"
  BY <1>6 DEF IInv, Calls, Doing
<1>8. ~VaultSet(t, None)
  BY <1>1, <1>2 DEF VaultSet
<1>9. ~DropPending(t, b)
  <2> SUFFICES ASSUME DropPending(t, b)
               PROVE  FALSE
    OBVIOUS
  <2>1. PendingOf(t) # None /\ held'[t] = [active |-> held[t].active, pending |-> None]
    BY <1>1 DEF DropPending, Owns, VaultSet
  <2> QED BY <2>1
<1>10. b.code = "OK"
  BY <1>6, <1>7, <1>8, <1>9 DEF Promote
<1> QED BY <1>6, <1>7, <1>10 DEF IInv, Truthful

\* A tab takes the pending key for its active one only when the account was
\* rotated to it (pending_promote after an OK of API_password_rotation_finalize).
THEOREM SuccessTold == Spec => SuccessIsTrue
<1>1. IInv /\ [Next]_vars =>
        [\A t \in Tabs :
           /\ task[t] # None /\ task[t].step = "finalize" /\ task'[t] = None
           /\ PendingOf(t) = task[t].pending /\ local' # local
           /\ held'[t] = [active |-> task[t].pending.new, pending |-> None]
           /\ held'[t].active # held[t].active
           => \/ Applied(task[t].pending)
              \/ account.version > prepared[task[t].pending.rotation].version + 1]_vars
  BY Succeeded DEF Done
<1> QED BY <1>1, RotationInvariant, PTL DEF Spec, SuccessIsTrue

\* The step that stores a live write of the tab's own key keeps the account's
\* documents readable.
LEMMA WriteFits ==
  ASSUME IInv, Next, NEW m \in net \ net', m.kind = "write", m.live, m.content # None,
         account'.docs # account.docs, m.tab \notin unseen, held[m.tab] # None,
         m.content.key = held[m.tab].active, ~crossed, ~\E p \in refused : Applied(p)
  PROVE  m.content.key = account.verifier
<1>1. m \in Request /\ m.tab \in Tabs
  BY RequestParts DEF IInv, TypeOK
<1>2. m.tab \in bounds.tabs /\ held[m.tab] = local
  BY <1>1 DEF IInv, Copies
<1>3. local # None /\ local.pending = None
  BY <1>2 DEF IInv, Calls, PendingOf
<1>4. Current
  <2>1. ~\E t \in bounds.tabs : TabStep(t)
    BY DEF TabStep, LoginSend, LoginApply, SignOut, Sync, Reload, WriteSend,
      WriteAnswered, ChangeBegin, ChangeAnswered, Resume, FinalizeAnswered
  <2>2. OutsideStep
    BY <2>1 DEF Next
  <2>3. PICK n \in net : ServeWrite(n) \/ ServePrepare(n) \/ ServeFinalize(n) \/ GiveUp(n) \/ Lose(n)
    BY <2>2 DEF OutsideStep, LoseAnswer, SessionEnds, ElsewhereWrites, ElsewhereRotates
  <2>4. ServeWrite(n) \/ ServeFinalize(n)
    BY <2>3 DEF ServePrepare, GiveUp, Lose, Deny, Server!Prepare
  <2>5. n = m
    BY <2>4 DEF ServeWrite, ServeFinalize, Deny, AnswerTo
  <2> QED BY <2>4, <2>5 DEF ServeWrite, ServeFinalize, Deny
<1>5. Ours /\ Held
  BY <1>4 DEF Ours, IInv, Orderly
<1> QED BY <1>2, <1>3, <1>5 DEF Held

\* Only a write overtaken by a rotation of its own browser leaves a document
\* that the passphrase does not open (network_generation, suspended requests).
THEOREM OvertakenStrand == Spec => OnlyOvertakenWritesStrand
<1>1. IInv /\ [Next]_vars =>
        [\A m \in net \ net' :
           /\ m.kind = "write" /\ m.live /\ m.content # None
           /\ account'.docs # account.docs
           /\ m.tab \notin unseen /\ held[m.tab] # None /\ m.content.key = held[m.tab].active
           /\ ~crossed /\ ~\E p \in refused : Applied(p)
           => m.content.key = account.verifier]_vars
  BY WriteFits
<1> QED BY <1>1, RotationInvariant, PTL DEF Spec, OnlyOvertakenWritesStrand

=============================================================================
