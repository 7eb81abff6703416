------------------------ MODULE AccountServer_proofs ------------------------
(***************************************************************************)
(* Proofs about AccountServer, for any number of requests, sessions,       *)
(* documents, keys and rotations.                                          *)
(***************************************************************************)
EXTENDS AccountServer, TLAPS

-----------------------------------------------------------------------------
(* What the operators on account data return. *)

\* Re-encrypting contents gives contents.
LEMMA RekeyType ==
  ASSUME NEW docs \in Contents, NEW key \in Keys
  PROVE  Rekey(docs, key) \in Contents
  BY DEF Rekey, Contents, Blob

\* Accounts before their first rotation are accounts.
LEMMA FreshAccountsType == FreshAccounts \subseteq Account
  BY RekeyType DEF FreshAccounts, Account

\* A snapshot carries the version and the documents of its account.
LEMMA SnapshotType ==
  ASSUME NEW acc \in Account
  PROVE  SnapshotOf(acc) \in Snapshot
  BY DEF SnapshotOf, Snapshot, Account

\* Storing a document leaves an account, at the same version and receipt.
LEMMA SetDocType ==
  ASSUME NEW acc \in Account, NEW d \in Docs, NEW content \in Blob \cup {None}
  PROVE  LET saved == [acc EXCEPT !.docs = [acc.docs EXCEPT ![d] = content]]
         IN /\ saved \in Account
            /\ saved.version = acc.version
            /\ saved.receipt = acc.receipt
            /\ saved.verifier = acc.verifier
  BY DEF Account, Contents

\* So does migrating the verifier, which leaves the documents too.
LEMMA MigrateType ==
  ASSUME NEW acc \in Account
  PROVE  LET saved == [acc EXCEPT !.legacy = FALSE]
         IN /\ saved \in Account
            /\ saved.version = acc.version
            /\ saved.receipt = acc.receipt
            /\ saved.verifier = acc.verifier
            /\ saved.docs = acc.docs
  BY DEF Account

\* A rotation leaves an account, one version later.
LEMMA RotatedType ==
  ASSUME NEW acc \in Account, NEW rotation \in Rotations, NEW docs \in Contents,
         NEW old \in Keys, NEW new \in Keys
  PROVE  LET saved == Rotated(acc, rotation, docs, old, new)
         IN /\ saved \in Account
            /\ saved.version = acc.version + 1
            /\ saved.verifier = new
            /\ saved.receipt = [rotation |-> rotation, version |-> acc.version + 1,
                                old |-> old, new |-> new]
  BY RekeyType DEF Rotated, Account, Receipt

\* The kind of a call tells its fields.
LEMMA CallKinds ==
  ASSUME NEW c \in Call
  PROVE  /\ c.kind \in {"read", "logout", "login", "write", "prepare", "finalize"}
         /\ c.kind = "write" => c \in WriteCall
         /\ c.kind = "login" => c \in LoginCall
         /\ c.kind = "prepare" => c \in PrepareCall
         /\ c.kind = "finalize" => c \in FinalizeCall
  BY DEF Call, ReadCall, LogoutCall, LoginCall, WriteCall, PrepareCall, FinalizeCall
-----------------------------------------------------------------------------
(* Types and phases. *)

\* Where a handler stands tells what it has: the mutex and a loaded file only
\* while it holds, a call until it answers, an answer only once it is done.
Phase(r) ==
  /\ call[r] # None <=> pc[r] \in {"loaded", "waiting", "holding"}
  /\ pc[r] = "holding" <=> mutex = r
  /\ config[r] # None <=> pc[r] = "holding"
  /\ reply[r] # None => pc[r] = "done"
  /\ user[r] # None <=> sid[r] # None
  /\ pc[r] = "waiting" => call[r].kind = "finalize" /\ user[r] # None
  /\ pc[r] = "holding" => /\ call[r].kind \in {"login", "write", "finalize"}
                          /\ call[r].kind # "login" => user[r] # None

Phases == \A r \in Requests : Phase(r)

Consistent == TypeOK /\ Phases

LEMMA ConsistentInit == Init => Consistent
  <1> SUFFICES ASSUME Init PROVE Consistent
    OBVIOUS
  <1>1. TypeOK
    BY FreshAccountsType DEF Init, TypeOK
  <1>2. Phases
    BY NoneIsNoSlot DEF Init, Phases, Phase
  <1> QED BY <1>1, <1>2 DEF Consistent

LEMMA ConsistentStep == Consistent /\ [Next]_vars => Consistent'
  <1> SUFFICES ASSUME Consistent, [Next]_vars PROVE Consistent'
    OBVIOUS
  <1> USE NoneIsNoSlot, NoneIsNoState DEF Consistent
  <1>1. ASSUME NEW r \in Requests, Arrive(r) PROVE Consistent'
    <2>1. PICK c \in Call, cookie \in issued \cup {None} : Receive(r, c, cookie)
      BY <1>1 DEF Arrive
    <2>2. TypeOK'
      BY <2>1 DEF TypeOK, Receive
    <2>3. Phases'
      BY <2>1 DEF TypeOK, Receive, Phases, Phase
    <2> QED BY <2>2, <2>3
  <1>2. ASSUME NEW r \in Requests, Respond(r) PROVE Consistent'
    <2>1. TypeOK'
      BY <1>2 DEF TypeOK, Respond, Phases, Phase
    <2>2. Phases'
      BY <1>2 DEF TypeOK, Respond, Phases, Phase
    <2> QED BY <2>1, <2>2
  <1>3. ASSUME NEW r \in Requests, Reject(r) PROVE Consistent'
    <2>1. TypeOK'
      BY <1>3 DEF TypeOK, Reject, Return, Replies
    <2>2. Phases'
      BY <1>3 DEF TypeOK, Reject, Return, Phases, Phase
    <2> QED BY <2>1, <2>2
  <1>4. ASSUME NEW r \in Requests, Read(r) PROVE Consistent'
    <2>1. TypeOK'
      BY <1>4 DEF TypeOK, Read, Return, Flush, Replies
    <2>2. Phases'
      BY <1>4 DEF TypeOK, Read, Calls, Return, Flush, Phases, Phase
    <2> QED BY <2>1, <2>2
  <1>5. ASSUME NEW r \in Requests, Logout(r) PROVE Consistent'
    <2>1. TypeOK'
      BY <1>5 DEF TypeOK, Logout, Return, Flush, Replies
    <2>2. Phases'
      BY <1>5 DEF TypeOK, Logout, Calls, Return, Flush, Phases, Phase
    <2> QED BY <2>1, <2>2
  <1>6. ASSUME NEW r \in Requests, WriteBegin(r) PROVE Consistent'
    <2>1. TypeOK'
      BY <1>6 DEF TypeOK, WriteBegin, Lock, Return, Flush, Replies
    <2>2. Phases'
      BY <1>6 DEF TypeOK, WriteBegin, Calls, Lock, Return, Flush, Phases, Phase
    <2> QED BY <2>1, <2>2
  <1>7. ASSUME NEW r \in Requests, WriteFail(r) PROVE Consistent'
    <2>1. TypeOK'
      BY <1>7 DEF TypeOK, WriteFail, Return, Replies
    <2>2. Phases'
      BY <1>7 DEF TypeOK, WriteFail, Holds, Return, Phases, Phase
    <2> QED BY <2>1, <2>2
  <1>8. ASSUME NEW r \in Requests, NEW d \in Docs, WriteDoc(r, d) PROVE Consistent'
    <2>1. /\ config[r] \in Account
          /\ call[r] \in WriteCall
      BY <1>8, CallKinds DEF TypeOK, Phases, Phase, WriteDoc, Holds
    <2>2. [config[r] EXCEPT !.docs = [config[r].docs EXCEPT ![d] = call[r].content]] \in Account
      BY <2>1, SetDocType DEF WriteCall
    <2> DEFINE left == [call[r] EXCEPT !.todo = call[r].todo \ {d}]
    <2>3. /\ left \in Call
          /\ left.kind = "write"
      BY <1>8, <2>1 DEF WriteCall, Call, WriteDoc, Holds
    <2>4. /\ pc[r] = "holding"
          /\ call[r].kind = "write"
          /\ account' \in Account
          /\ UNCHANGED <<prepared, store, issued, sid, user>>
      BY <1>8, <2>2 DEF WriteDoc, Holds
    <2>5. CASE call[r].todo \ {d} = {}
      <3>1. Return(r, "OK")
        BY <1>8, <2>5 DEF WriteDoc
      <3>2. TypeOK'
        BY <3>1, <2>4 DEF TypeOK, Return, Replies
      <3>3. Phases'
        BY <3>1, <2>4 DEF TypeOK, Return, Phases, Phase
      <3> QED BY <3>2, <3>3
    <2>6. CASE call[r].todo \ {d} # {}
      <3>1. /\ call' = [call EXCEPT ![r] = left]
            /\ UNCHANGED <<mutex, pc, reply>>
            /\ config' = [config EXCEPT ![r] = account']
        BY <1>8, <2>6 DEF WriteDoc
      <3> HIDE DEF left
      <3>2. TypeOK'
        BY <3>1, <2>3, <2>4 DEF TypeOK
      <3>3. Phases'
        BY <3>1, <2>3, <2>4 DEF TypeOK, Phases, Phase
      <3> QED BY <3>2, <3>3
    <2> QED BY <2>5, <2>6
  <1>9. ASSUME NEW r \in Requests, NEW d \in Docs, WriteOutdated(r, d) PROVE Consistent'
    <2>1. call[r] \in WriteCall
      BY <1>9, CallKinds DEF TypeOK, Phases, Phase, WriteOutdated, Holds
    <2> DEFINE left == [call[r] EXCEPT !.todo = call[r].todo \ {d}]
    <2>2. /\ left \in Call
          /\ left.kind = "write"
      BY <1>9, <2>1 DEF WriteCall, Call, WriteOutdated, Holds
    <2>3. /\ pc[r] = "holding"
          /\ call[r].kind = "write"
          /\ UNCHANGED account
          /\ UNCHANGED <<prepared, store, issued, sid, user>>
      BY <1>9 DEF WriteOutdated, Holds
    <2>4. CASE call[r].todo \ {d} = {}
      <3>1. Return(r, "OK")
        BY <1>9, <2>4 DEF WriteOutdated
      <3>2. TypeOK'
        BY <3>1, <2>3 DEF TypeOK, Return, Replies
      <3>3. Phases'
        BY <3>1, <2>3 DEF TypeOK, Return, Phases, Phase
      <3> QED BY <3>2, <3>3
    <2>5. CASE call[r].todo \ {d} # {}
      <3>1. /\ call' = [call EXCEPT ![r] = left]
            /\ UNCHANGED <<mutex, pc, reply>>
            /\ UNCHANGED config
        BY <1>9, <2>5 DEF WriteOutdated
      <3> HIDE DEF left
      <3>2. TypeOK'
        BY <3>1, <2>2, <2>3 DEF TypeOK
      <3>3. Phases'
        BY <3>1, <2>2, <2>3 DEF TypeOK, Phases, Phase
      <3> QED BY <3>2, <3>3
    <2> QED BY <2>4, <2>5
  <1>10. ASSUME NEW r \in Requests, LoginBegin(r) PROVE Consistent'
    <2>1. TypeOK'
      BY <1>10 DEF TypeOK, LoginBegin, Lock
    <2>2. Phases'
      BY <1>10 DEF TypeOK, LoginBegin, Calls, Lock, Phases, Phase
    <2> QED BY <2>1, <2>2
  <1>11. ASSUME NEW r \in Requests, LoginRefuse(r) PROVE Consistent'
    <2>1. TypeOK'
      BY <1>11 DEF TypeOK, LoginRefuse, Return, Replies
    <2>2. Phases'
      BY <1>11 DEF TypeOK, LoginRefuse, Holds, Return, Phases, Phase
    <2> QED BY <2>1, <2>2
  <1>12. ASSUME NEW r \in Requests, LoginAccept(r) PROVE Consistent'
    <2>1. /\ config[r] \in Account
          /\ call[r] \in LoginCall
      BY <1>12, CallKinds DEF TypeOK, Phases, Phase, LoginAccept, Holds
    <2>2. account' \in Account
      BY <1>12, <2>1, MigrateType DEF TypeOK, LoginAccept
    <2>3. [version |-> config[r].version, rotation |-> None] \in User
      BY <2>1 DEF Account, User
    <2>4. TypeOK'
      BY <1>12, <2>1, <2>2, <2>3 DEF TypeOK, LoginAccept, LoginCall, Return, Replies
    <2>5. Phases'
      BY <1>12, <2>1, <2>3 DEF TypeOK, LoginAccept, LoginCall, Return, Phases, Phase, Holds
    <2> QED BY <2>4, <2>5
  <1>13. ASSUME NEW r \in Requests, LoginFail(r) PROVE Consistent'
    <2>1. TypeOK'
      BY <1>13 DEF TypeOK, LoginFail, Return, Replies
    <2>2. Phases'
      BY <1>13 DEF TypeOK, LoginFail, Holds, Return, Phases, Phase
    <2> QED BY <2>1, <2>2
  <1>14. ASSUME NEW r \in Requests, PreparePassword(r) PROVE Consistent'
    <2>1. call[r].rotation \in Rotations
      BY <1>14, CallKinds DEF TypeOK, Phases, Phase, PreparePassword, Calls, PrepareCall
    <2>2. TypeOK'
      BY <1>14, <2>1, SnapshotType DEF TypeOK, PreparePassword, Return, Flush, Replies
    <2>3. Phases'
      BY <1>14 DEF TypeOK, PreparePassword, Calls, Return, Flush, Phases, Phase
    <2> QED BY <2>2, <2>3
  <1>15. ASSUME NEW r \in Requests, FinalizeMark(r) PROVE Consistent'
    <2>1. /\ call[r].rotation \in Rotations
          /\ user[r] \in User
      BY <1>15, CallKinds DEF TypeOK, Phases, Phase, FinalizeMark, Calls, FinalizeCall
    <2>2. [user[r] EXCEPT !.rotation = call[r].rotation] \in User
      BY <2>1 DEF User
    <2>3. TypeOK'
      BY <1>15, <2>2 DEF TypeOK, FinalizeMark, Return, Flush, Replies
    <2>4. Phases'
      BY <1>15, <2>2 DEF TypeOK, FinalizeMark, Calls, Return, Flush, Phases, Phase
    <2> QED BY <2>3, <2>4
  <1>16. ASSUME NEW r \in Requests, FinalizeLock(r) PROVE Consistent'
    <2>1. TypeOK'
      BY <1>16 DEF TypeOK, FinalizeLock, Lock
    <2>2. Phases'
      BY <1>16 DEF TypeOK, FinalizeLock, Lock, Phases, Phase
    <2> QED BY <2>1, <2>2
  <1>17. ASSUME NEW r \in Requests, FinalizeAgain(r) PROVE Consistent'
    <2>1. [version |-> config[r].version, rotation |-> None] \in User
      BY <1>17 DEF TypeOK, Phases, Phase, FinalizeAgain, Holds, Account, User
    <2>2. TypeOK'
      BY <1>17, <2>1 DEF TypeOK, FinalizeAgain, Return, Replies
    <2>3. Phases'
      BY <1>17, <2>1 DEF TypeOK, FinalizeAgain, Holds, Return, Phases, Phase
    <2> QED BY <2>2, <2>3
  <1>18. ASSUME NEW r \in Requests, FinalizeOvertaken(r) PROVE Consistent'
    <2>1. TypeOK'
      BY <1>18 DEF TypeOK, FinalizeOvertaken, Flush, Return, Replies
    <2>2. Phases'
      BY <1>18 DEF TypeOK, FinalizeOvertaken, Holds, Flush, Return, Phases, Phase
    <2> QED BY <2>1, <2>2
  <1>19. ASSUME NEW r \in Requests, FinalizeRefuse(r) PROVE Consistent'
    <2>1. TypeOK'
      BY <1>19 DEF TypeOK, FinalizeRefuse, Return, Replies
    <2>2. Phases'
      BY <1>19 DEF TypeOK, FinalizeRefuse, FinalizeOpen, Holds, Return, Phases, Phase
    <2> QED BY <2>1, <2>2
  <1>20. ASSUME NEW r \in Requests, FinalizeCommit(r) PROVE Consistent'
    <2>1. /\ config[r] \in Account
          /\ call[r] \in FinalizeCall
      BY <1>20, CallKinds DEF TypeOK, Phases, Phase, FinalizeCommit, FinalizeAgreed,
                              FinalizeOpen, Holds
    <2>2. prepared[call[r].rotation].docs \in Contents
      BY <1>20, <2>1 DEF FinalizeCommit, FinalizeAgreed, SnapshotOf, Account
    <2>3. account' \in Account
      BY <1>20, <2>1, <2>2, RotatedType DEF FinalizeCommit, FinalizeCall
    <2>4. [version |-> config[r].version + 1, rotation |-> None] \in User
      BY <2>1 DEF Account, User
    <2>5. TypeOK'
      BY <1>20, <2>3, <2>4 DEF TypeOK, FinalizeCommit, Return, Replies
    <2>6. Phases'
      BY <1>20, <2>4 DEF TypeOK, FinalizeCommit, FinalizeAgreed, FinalizeOpen, Holds, Return,
                         Phases, Phase
    <2> QED BY <2>5, <2>6
  <1>21. ASSUME NEW r \in Requests, FinalizeFail(r) PROVE Consistent'
    <2>1. TypeOK'
      BY <1>21 DEF TypeOK, FinalizeFail, Return, Replies
    <2>2. Phases'
      BY <1>21 DEF TypeOK, FinalizeFail, FinalizeAgreed, FinalizeOpen, Holds, Return, Phases, Phase
    <2> QED BY <2>1, <2>2
  <1>22. ASSUME NEW r \in Requests, Cancel(r) PROVE Consistent'
    <2>1. TypeOK'
      BY <1>22 DEF TypeOK, Cancel
    <2>2. Phases'
      BY <1>22 DEF TypeOK, Cancel, Phases, Phase
    <2> QED BY <2>1, <2>2
  <1>23. ASSUME NEW id \in SessionIds, Expire(id) PROVE Consistent'
    <2>1. TypeOK'
      BY <1>23 DEF TypeOK, Expire
    <2>2. Phases'
      BY <1>23 DEF Expire, Phases, Phase
    <2> QED BY <2>1, <2>2
  <1>24. ASSUME Restart PROVE Consistent'
    <2>1. TypeOK'
      BY <1>24 DEF TypeOK, Restart
    <2>2. Phases'
      BY <1>24 DEF TypeOK, Restart, Phases, Phase
    <2> QED BY <2>1, <2>2
  <1>25. ASSUME UNCHANGED vars PROVE Consistent'
    BY <1>25 DEF TypeOK, Phases, Phase, vars
  <1> QED
    BY <1>1, <1>2, <1>3, <1>4, <1>5, <1>6, <1>7, <1>8, <1>9, <1>10, <1>11, <1>12, <1>13,
       <1>14, <1>15, <1>16, <1>17, <1>18, <1>19, <1>20, <1>21, <1>22, <1>23, <1>24, <1>25
    DEF Next, Handle

\* Every variable keeps its type and its phase: the file is always an account,
\* and a handler under the mutex always has the file it loaded.
THEOREM TypeCorrect == Spec => [](TypeOK /\ Phases)
  <1>1. Init => Consistent
    BY ConsistentInit
  <1>2. Consistent /\ [Next]_vars => Consistent'
    BY ConsistentStep
  <1>3. Consistent => TypeOK /\ Phases
    BY DEF Consistent
  <1> QED BY <1>1, <1>2, <1>3, PTL DEF Spec
-----------------------------------------------------------------------------
(* The inductive invariant. *)

\* What a handler loaded under the mutex is still what the file holds: no other
\* handler writes the file meanwhile.
LoadedIsCurrent == \A r \in Requests : pc[r] = "holding" => config[r] = account

\* A document write that passed mutation_begin is authenticated by a session of
\* the account's version, until it returns.
WritersAreCurrent ==
  \A r \in Requests : Holds(r, "write") => user[r].version = account.version

\* A rotation id in a prepare call was not handed out, nor drawn by another
\* call; one in a finalize call was handed out.
Drawn(r) ==
  call[r] # None =>
    /\ call[r].kind = "prepare" =>
         /\ prepared[call[r].rotation] = None
         /\ \A q \in Requests \ {r} :
              call[q] # None /\ call[q].kind = "prepare" => call[q].rotation # call[r].rotation
    /\ call[r].kind = "finalize" =>
         prepared[call[r].rotation] # None /\ call[r].old # call[r].new

RotationsAreDrawn == \A r \in Requests : Drawn(r)

Safe == /\ Consistent
        /\ LoadedIsCurrent
        /\ WritersAreCurrent
        /\ SessionsNeverAhead
        /\ ReceiptVouches
        /\ RotationsAreDrawn

LEMMA SafeInit == Init => Safe
  <1> SUFFICES ASSUME Init PROVE Safe
    OBVIOUS
  <1>1. Consistent
    BY ConsistentInit
  <1>2. account \in FreshAccounts => account.receipt = None
    BY DEF FreshAccounts
  <1>3. LoadedIsCurrent /\ WritersAreCurrent /\ SessionsNeverAhead /\ RotationsAreDrawn
    BY DEF Init, LoadedIsCurrent, WritersAreCurrent, Holds, SessionsNeverAhead,
           RotationsAreDrawn, Drawn
  <1>4. ReceiptVouches
    BY <1>2 DEF Init, ReceiptVouches
  <1> QED BY <1>1, <1>3, <1>4 DEF Safe

\* The handler under the mutex is alone there, with the current file.
LEMMA HolderAlone ==
  ASSUME Safe, NEW r \in Requests, pc[r] = "holding"
  PROVE  /\ config[r] = account
         /\ account \in Account
         /\ call[r] \in Call
         /\ \A q \in Requests : pc[q] = "holding" => q = r
  BY NoneIsNoSlot, NoneIsNoState
  DEF Safe, Consistent, TypeOK, Phases, Phase, LoadedIsCurrent

LEMMA SafeStep == Safe /\ [Next]_vars => Safe'
  <1> SUFFICES ASSUME Safe, [Next]_vars PROVE Safe'
    OBVIOUS
  <1>0. Consistent /\ Consistent'
    BY ConsistentStep DEF Safe
  <1> USE NoneIsNoSlot, NoneIsNoState
  <1>1. ASSUME NEW r \in Requests, Arrive(r) PROVE Safe'
    <2> USE <1>0, <1>1 DEF Consistent, TypeOK, Phases, Phase, Safe, Arrive, Receive, MaySend, UnusedRotation, InFlight
    <2>1. LoadedIsCurrent'
      BY DEF LoadedIsCurrent
    <2>2. WritersAreCurrent'
      BY DEF WritersAreCurrent, Holds
    <2>3. SessionsNeverAhead'
      BY DEF SessionsNeverAhead
    <2>4. ReceiptVouches'
      BY DEF ReceiptVouches
    <2>5. RotationsAreDrawn'
      BY DEF RotationsAreDrawn, Drawn
    <2> QED BY <2>1, <2>2, <2>3, <2>4, <2>5
  <1>2. ASSUME NEW r \in Requests, Respond(r) PROVE Safe'
    <2> USE <1>0, <1>2 DEF Consistent, TypeOK, Phases, Phase, Safe, Respond
    <2>1. LoadedIsCurrent'
      BY DEF LoadedIsCurrent
    <2>2. WritersAreCurrent'
      BY DEF WritersAreCurrent, Holds
    <2>3. SessionsNeverAhead'
      BY DEF SessionsNeverAhead
    <2>4. ReceiptVouches'
      BY DEF ReceiptVouches
    <2>5. RotationsAreDrawn'
      BY DEF RotationsAreDrawn, Drawn
    <2> QED BY <2>1, <2>2, <2>3, <2>4, <2>5
  <1>3. ASSUME NEW r \in Requests, Reject(r) PROVE Safe'
    <2> USE <1>0, <1>3 DEF Consistent, TypeOK, Phases, Phase, Safe, Reject, Return
    <2>1. LoadedIsCurrent'
      BY DEF LoadedIsCurrent
    <2>2. WritersAreCurrent'
      BY DEF WritersAreCurrent, Holds
    <2>3. SessionsNeverAhead'
      BY DEF SessionsNeverAhead
    <2>4. ReceiptVouches'
      BY DEF ReceiptVouches
    <2>5. RotationsAreDrawn'
      BY DEF RotationsAreDrawn, Drawn
    <2> QED BY <2>1, <2>2, <2>3, <2>4, <2>5
  <1>4. ASSUME NEW r \in Requests, Read(r) PROVE Safe'
    <2> USE <1>0, <1>4 DEF Consistent, TypeOK, Phases, Phase, Safe, Read, Calls, Return, Flush
    <2>1. LoadedIsCurrent'
      BY DEF LoadedIsCurrent
    <2>2. WritersAreCurrent'
      BY DEF WritersAreCurrent, Holds
    <2>3. SessionsNeverAhead'
      BY DEF SessionsNeverAhead
    <2>4. ReceiptVouches'
      BY DEF ReceiptVouches
    <2>5. RotationsAreDrawn'
      BY DEF RotationsAreDrawn, Drawn
    <2> QED BY <2>1, <2>2, <2>3, <2>4, <2>5
  <1>5. ASSUME NEW r \in Requests, Logout(r) PROVE Safe'
    <2> USE <1>0, <1>5 DEF Consistent, TypeOK, Phases, Phase, Safe, Logout, Calls, Return, Flush
    <2>1. LoadedIsCurrent'
      BY DEF LoadedIsCurrent
    <2>2. WritersAreCurrent'
      BY DEF WritersAreCurrent, Holds
    <2>3. SessionsNeverAhead'
      BY DEF SessionsNeverAhead
    <2>4. ReceiptVouches'
      BY DEF ReceiptVouches
    <2>5. RotationsAreDrawn'
      BY DEF RotationsAreDrawn, Drawn
    <2> QED BY <2>1, <2>2, <2>3, <2>4, <2>5
  <1>6. ASSUME NEW r \in Requests, WriteBegin(r) PROVE Safe'
    <2> USE <1>0, <1>6 DEF Consistent, TypeOK, Phases, Phase, Safe, WriteBegin, Calls, Lock, Return, Flush, Stale
    <2>1. LoadedIsCurrent'
      BY DEF LoadedIsCurrent
    <2>2. WritersAreCurrent'
      BY DEF WritersAreCurrent, Holds
    <2>3. SessionsNeverAhead'
      BY DEF SessionsNeverAhead
    <2>4. ReceiptVouches'
      BY DEF ReceiptVouches
    <2>5. RotationsAreDrawn'
      BY DEF RotationsAreDrawn, Drawn
    <2> QED BY <2>1, <2>2, <2>3, <2>4, <2>5
  <1>7. ASSUME NEW r \in Requests, WriteFail(r) PROVE Safe'
    <2> USE <1>0, <1>7 DEF Consistent, TypeOK, Phases, Phase, Safe, WriteFail, Return
    <2>1. LoadedIsCurrent'
      BY DEF LoadedIsCurrent
    <2>2. WritersAreCurrent'
      BY DEF WritersAreCurrent, Holds
    <2>3. SessionsNeverAhead'
      BY DEF SessionsNeverAhead
    <2>4. ReceiptVouches'
      BY DEF ReceiptVouches
    <2>5. RotationsAreDrawn'
      BY DEF RotationsAreDrawn, Drawn
    <2> QED BY <2>1, <2>2, <2>3, <2>4, <2>5
  <1>8. ASSUME NEW r \in Requests, NEW d \in Docs, WriteDoc(r, d) PROVE Safe'
    <2> DEFINE left == [call[r] EXCEPT !.todo = call[r].todo \ {d}]
    <2>1. pc[r] = "holding" /\ call[r].kind = "write"
      BY <1>8 DEF WriteDoc, Holds
    <2>2. call[r] \in WriteCall
      BY <2>1, HolderAlone, CallKinds
    <2>3. /\ account' \in Account
          /\ account'.version = account.version
          /\ account'.receipt = account.receipt
          /\ account'.verifier = account.verifier
      BY <1>8, <2>1, <2>2, HolderAlone, SetDocType DEF WriteDoc, WriteCall
    <2>4. left.kind = "write"
      BY <2>1, <2>2 DEF WriteCall
    <2>5. /\ UNCHANGED <<prepared, store, user>>
          /\ \/ /\ pc' = [pc EXCEPT ![r] = "done"]
                /\ call' = [call EXCEPT ![r] = None]
             \/ /\ UNCHANGED pc
                /\ call' = [call EXCEPT ![r] = left]
                /\ config' = [config EXCEPT ![r] = account']
      BY <1>8 DEF WriteDoc, Return
    <2> HIDE DEF left
    <2>6. \A q \in Requests : pc'[q] = "holding" => q = r
      BY <2>1, <2>5, HolderAlone DEF Safe, Consistent, TypeOK
    <2>7. LoadedIsCurrent'
      BY <1>0, <2>1, <2>5, <2>6 DEF Consistent, TypeOK, LoadedIsCurrent
    <2>8. WritersAreCurrent'
      BY <1>0, <2>1, <2>3, <2>5, <2>6
      DEF Safe, Consistent, TypeOK, WritersAreCurrent, Holds
    <2>9. SessionsNeverAhead' /\ ReceiptVouches'
      BY <2>3, <2>5 DEF Safe, SessionsNeverAhead, ReceiptVouches
    <2>10. \A q \in Requests :
             call'[q] # None /\ call'[q].kind # "write" => call'[q] = call[q]
      BY <1>0, <2>4, <2>5 DEF Consistent, TypeOK
    <2>11. RotationsAreDrawn'
      BY <1>0, <2>5, <2>10 DEF Safe, RotationsAreDrawn, Drawn
    <2> QED BY <1>0, <2>7, <2>8, <2>9, <2>11 DEF Safe
  <1>9. ASSUME NEW r \in Requests, NEW d \in Docs, WriteOutdated(r, d) PROVE Safe'
    <2> DEFINE left == [call[r] EXCEPT !.todo = call[r].todo \ {d}]
    <2>1. pc[r] = "holding" /\ call[r].kind = "write"
      BY <1>9 DEF WriteOutdated, Holds
    <2>2. call[r] \in WriteCall
      BY <2>1, HolderAlone, CallKinds
    <2>3. left.kind = "write"
      BY <2>1, <2>2 DEF WriteCall
    <2>4. /\ UNCHANGED <<account, prepared, store, user>>
          /\ \/ /\ pc' = [pc EXCEPT ![r] = "done"]
                /\ call' = [call EXCEPT ![r] = None]
             \/ /\ UNCHANGED <<pc, config>>
                /\ call' = [call EXCEPT ![r] = left]
      BY <1>9 DEF WriteOutdated, Return
    <2> HIDE DEF left
    <2>5. \A q \in Requests : pc'[q] = "holding" => q = r
      BY <2>1, <2>4, HolderAlone DEF Safe, Consistent, TypeOK
    <2>6. LoadedIsCurrent'
      BY <1>0, <2>1, <2>4, <2>5 DEF Safe, Consistent, TypeOK, LoadedIsCurrent
    <2>7. WritersAreCurrent'
      BY <1>0, <2>1, <2>4, <2>5 DEF Safe, Consistent, TypeOK, WritersAreCurrent, Holds
    <2>8. SessionsNeverAhead' /\ ReceiptVouches'
      BY <2>4 DEF Safe, SessionsNeverAhead, ReceiptVouches
    <2>9. \A q \in Requests :
            call'[q] # None /\ call'[q].kind # "write" => call'[q] = call[q]
      BY <1>0, <2>3, <2>4 DEF Consistent, TypeOK
    <2>10. RotationsAreDrawn'
      BY <1>0, <2>4, <2>9 DEF Safe, RotationsAreDrawn, Drawn
    <2> QED BY <1>0, <2>6, <2>7, <2>8, <2>10 DEF Safe
  <1>10. ASSUME NEW r \in Requests, LoginBegin(r) PROVE Safe'
    <2> USE <1>0, <1>10 DEF Consistent, TypeOK, Phases, Phase, Safe, LoginBegin, Calls, Lock
    <2>1. LoadedIsCurrent'
      BY DEF LoadedIsCurrent
    <2>2. WritersAreCurrent'
      BY DEF WritersAreCurrent, Holds
    <2>3. SessionsNeverAhead'
      BY DEF SessionsNeverAhead
    <2>4. ReceiptVouches'
      BY DEF ReceiptVouches
    <2>5. RotationsAreDrawn'
      BY DEF RotationsAreDrawn, Drawn
    <2> QED BY <2>1, <2>2, <2>3, <2>4, <2>5
  <1>11. ASSUME NEW r \in Requests, LoginRefuse(r) PROVE Safe'
    <2> USE <1>0, <1>11 DEF Consistent, TypeOK, Phases, Phase, Safe, LoginRefuse, Return
    <2>1. LoadedIsCurrent'
      BY DEF LoadedIsCurrent
    <2>2. WritersAreCurrent'
      BY DEF WritersAreCurrent, Holds
    <2>3. SessionsNeverAhead'
      BY DEF SessionsNeverAhead
    <2>4. ReceiptVouches'
      BY DEF ReceiptVouches
    <2>5. RotationsAreDrawn'
      BY DEF RotationsAreDrawn, Drawn
    <2> QED BY <2>1, <2>2, <2>3, <2>4, <2>5
  <1>12. ASSUME NEW r \in Requests, LoginAccept(r) PROVE Safe'
    <2>1. pc[r] = "holding" /\ call[r].kind = "login"
      BY <1>12 DEF LoginAccept, Holds
    <2>2. call[r].fresh \in SessionIds
      BY <2>1, HolderAlone, CallKinds DEF LoginCall
    <2>3. /\ account' \in Account
          /\ account'.version = account.version
          /\ account'.receipt = account.receipt
          /\ account'.verifier = account.verifier
      BY <1>12, <2>1, HolderAlone, MigrateType DEF LoginAccept
    <2>4. /\ pc' = [pc EXCEPT ![r] = "done"]
          /\ call' = [call EXCEPT ![r] = None]
          /\ UNCHANGED prepared
      BY <1>12 DEF LoginAccept, Return
    <2>5. \A q \in Requests : pc'[q] # "holding"
      BY <2>1, <2>4, HolderAlone DEF Safe, Consistent, TypeOK
    <2>6. LoadedIsCurrent' /\ WritersAreCurrent'
      BY <2>5 DEF LoadedIsCurrent, WritersAreCurrent, Holds
    <2>7. \A id \in SessionIds : store'[id] # None => store'[id] = store[id]
      BY <1>0, <1>12 DEF LoginAccept, Consistent, TypeOK
    <2>8. \A q \in Requests :
            user'[q] # None => user'[q] = user[q] \/ user'[q].version = account.version
      BY <1>0, <1>12, <2>1, HolderAlone DEF LoginAccept, Consistent, TypeOK
    <2>9. account.version <= account.version
      BY <2>1, HolderAlone DEF Account
    <2>10. SessionsNeverAhead'
      BY <2>3, <2>7, <2>8, <2>9 DEF Safe, SessionsNeverAhead
    <2>11. ReceiptVouches'
      BY <2>3 DEF Safe, ReceiptVouches
    <2>12. RotationsAreDrawn'
      BY <1>0, <2>4 DEF Safe, Consistent, TypeOK, RotationsAreDrawn, Drawn
    <2> QED BY <1>0, <2>6, <2>10, <2>11, <2>12 DEF Safe
  <1>13. ASSUME NEW r \in Requests, LoginFail(r) PROVE Safe'
    <2> USE <1>0, <1>13 DEF Consistent, TypeOK, Phases, Phase, Safe, LoginFail, Return
    <2>1. LoadedIsCurrent'
      BY DEF LoadedIsCurrent
    <2>2. WritersAreCurrent'
      BY DEF WritersAreCurrent, Holds
    <2>3. SessionsNeverAhead'
      BY DEF SessionsNeverAhead
    <2>4. ReceiptVouches'
      BY DEF ReceiptVouches
    <2>5. RotationsAreDrawn'
      BY DEF RotationsAreDrawn, Drawn
    <2> QED BY <2>1, <2>2, <2>3, <2>4, <2>5
  <1>14. ASSUME NEW r \in Requests, PreparePassword(r) PROVE Safe'
    <2> USE <1>0, <1>14 DEF Safe, Consistent, TypeOK, PreparePassword, Calls, Return
    <2>1. LoadedIsCurrent'
      BY DEF LoadedIsCurrent
    <2>2. WritersAreCurrent'
      BY DEF Flush, WritersAreCurrent, Holds
    <2>3. SessionsNeverAhead'
      BY DEF Flush, SessionsNeverAhead
    <2>4. ReceiptVouches'
      BY DEF ReceiptVouches
    <2>5. SnapshotOf(account) # None
      BY SnapshotType, NoneIsNoRecord
    <2>6. /\ call[r] \in Call
          /\ call[r].kind = "prepare"
      BY DEF Phases, Phase
    <2>7. call[r].rotation \in Rotations
      BY <2>6, CallKinds DEF PrepareCall
    <2>8. ASSUME NEW q \in Requests, call'[q] # None PROVE Drawn(q)'
      <3>1. q # r /\ call'[q] = call[q]
        BY <2>8
      <3>2. call[q] \in Call
        BY <2>8, <3>1
      <3>3. call[q].kind = "prepare" =>
              /\ call[q].rotation # call[r].rotation
              /\ prepared'[call[q].rotation] = None
        BY <3>1, <3>2, <2>6, <2>7, CallKinds DEF RotationsAreDrawn, Drawn, PrepareCall
      <3>4. call[q].kind = "prepare" =>
              \A other \in Requests \ {q} :
                call'[other] # None /\ call'[other].kind = "prepare"
                => call'[other].rotation # call[q].rotation
        BY <2>8, <3>1 DEF RotationsAreDrawn, Drawn
      <3>5. call[q].kind = "finalize" =>
              prepared'[call[q].rotation] # None /\ call[q].old # call[q].new
        BY <3>1, <3>2, <2>5, <2>7, CallKinds DEF RotationsAreDrawn, Drawn, FinalizeCall
      <3> QED BY <3>1, <3>3, <3>4, <3>5 DEF Drawn
    <2>9. RotationsAreDrawn'
      BY <2>8 DEF RotationsAreDrawn, Drawn
    <2> QED BY <2>1, <2>2, <2>3, <2>4, <2>9
  <1>15. ASSUME NEW r \in Requests, FinalizeMark(r) PROVE Safe'
    <2> USE <1>0, <1>15 DEF Safe, Consistent, TypeOK, FinalizeMark, Calls, Return
    <2>1. LoadedIsCurrent'
      BY DEF LoadedIsCurrent
    <2>2. WritersAreCurrent'
      BY DEF Flush, WritersAreCurrent, Holds
    <2>3. [user[r] EXCEPT !.rotation = call[r].rotation].version = user[r].version
      BY DEF User
    <2>4. \A q \in Requests :
            user'[q] # None => user[q] # None /\ user'[q].version = user[q].version
      BY <2>3 DEF Flush
    <2>5. \A id \in SessionIds : store'[id] # None => store'[id] = store[id]
      BY DEF Flush
    <2>6. SessionsNeverAhead'
      BY <2>4, <2>5 DEF SessionsNeverAhead
    <2>7. ReceiptVouches'
      BY DEF ReceiptVouches
    <2>8. RotationsAreDrawn'
      BY DEF RotationsAreDrawn, Drawn
    <2> QED BY <2>1, <2>2, <2>6, <2>7, <2>8
  <1>16. ASSUME NEW r \in Requests, FinalizeLock(r) PROVE Safe'
    <2> USE <1>0, <1>16 DEF Consistent, TypeOK, Phases, Phase, Safe, FinalizeLock, Lock
    <2>1. LoadedIsCurrent'
      BY DEF LoadedIsCurrent
    <2>2. WritersAreCurrent'
      BY DEF WritersAreCurrent, Holds
    <2>3. SessionsNeverAhead'
      BY DEF SessionsNeverAhead
    <2>4. ReceiptVouches'
      BY DEF ReceiptVouches
    <2>5. RotationsAreDrawn'
      BY DEF RotationsAreDrawn, Drawn
    <2> QED BY <2>1, <2>2, <2>3, <2>4, <2>5
  <1>17. ASSUME NEW r \in Requests, FinalizeAgain(r) PROVE Safe'
    <2> USE <1>0, <1>17 DEF Safe, Consistent, TypeOK, FinalizeAgain, Holds, Return
    <2>1. LoadedIsCurrent'
      BY DEF LoadedIsCurrent
    <2>2. WritersAreCurrent'
      BY DEF WritersAreCurrent
    <2>3. user' = [user EXCEPT ![r] = [version |-> account.version, rotation |-> None]]
      BY HolderAlone
    <2>4. account.version <= account.version
      BY DEF Account
    <2>5. SessionsNeverAhead'
      BY <2>3, <2>4 DEF SessionsNeverAhead
    <2>6. ReceiptVouches'
      BY DEF ReceiptVouches
    <2>7. RotationsAreDrawn'
      BY DEF RotationsAreDrawn, Drawn
    <2> QED BY <2>1, <2>2, <2>5, <2>6, <2>7
  <1>18. ASSUME NEW r \in Requests, FinalizeOvertaken(r) PROVE Safe'
    <2> USE <1>0, <1>18 DEF Consistent, TypeOK, Phases, Phase, Safe, FinalizeOvertaken, Flush, Return
    <2>1. LoadedIsCurrent'
      BY DEF LoadedIsCurrent
    <2>2. WritersAreCurrent'
      BY DEF WritersAreCurrent, Holds
    <2>3. SessionsNeverAhead'
      BY DEF SessionsNeverAhead
    <2>4. ReceiptVouches'
      BY DEF ReceiptVouches
    <2>5. RotationsAreDrawn'
      BY DEF RotationsAreDrawn, Drawn
    <2> QED BY <2>1, <2>2, <2>3, <2>4, <2>5
  <1>19. ASSUME NEW r \in Requests, FinalizeRefuse(r) PROVE Safe'
    <2> USE <1>0, <1>19 DEF Consistent, TypeOK, Phases, Phase, Safe, FinalizeRefuse, Return
    <2>1. LoadedIsCurrent'
      BY DEF LoadedIsCurrent
    <2>2. WritersAreCurrent'
      BY DEF WritersAreCurrent, Holds
    <2>3. SessionsNeverAhead'
      BY DEF SessionsNeverAhead
    <2>4. ReceiptVouches'
      BY DEF ReceiptVouches
    <2>5. RotationsAreDrawn'
      BY DEF RotationsAreDrawn, Drawn
    <2> QED BY <2>1, <2>2, <2>3, <2>4, <2>5
  <1>20. ASSUME NEW r \in Requests, FinalizeCommit(r) PROVE Safe'
    <2>1. pc[r] = "holding" /\ call[r].kind = "finalize"
      BY <1>20 DEF FinalizeCommit, FinalizeAgreed, FinalizeOpen, Holds
    <2>2. /\ call[r].rotation \in Rotations
          /\ call[r].old \in Keys
          /\ call[r].new \in Keys
      BY <2>1, HolderAlone, CallKinds DEF FinalizeCall
    <2>3. prepared[call[r].rotation].docs \in Contents
      BY <1>20, <2>1, HolderAlone DEF FinalizeCommit, FinalizeAgreed, SnapshotOf, Account
    <2>4. /\ account'.version = account.version + 1
          /\ account'.verifier = call[r].new
          /\ account'.receipt.version = account.version + 1
          /\ account'.receipt.new = call[r].new
      <3>1. account' = Rotated(account, call[r].rotation, prepared[call[r].rotation].docs,
                               call[r].old, call[r].new)
        BY <1>20, <2>1, HolderAlone DEF FinalizeCommit
      <3> QED BY <3>1 DEF Rotated
    <2>5. /\ pc' = [pc EXCEPT ![r] = "done"]
          /\ call' = [call EXCEPT ![r] = None]
          /\ user' = [user EXCEPT ![r] = [version |-> account.version + 1, rotation |-> None]]
          /\ UNCHANGED <<prepared, store>>
      BY <1>20, <2>1, HolderAlone DEF FinalizeCommit, Return
    <2>6. \A q \in Requests : pc'[q] # "holding"
      BY <2>1, <2>5, HolderAlone DEF Safe, Consistent, TypeOK
    <2>7. LoadedIsCurrent' /\ WritersAreCurrent'
      BY <2>6 DEF LoadedIsCurrent, WritersAreCurrent, Holds
    <2>8. /\ account.version \in Nat
          /\ \A u \in User : u.version \in Nat
      BY <2>1, HolderAlone DEF Account, User
    <2>9. ASSUME NEW id \in SessionIds, store'[id] # None
          PROVE  store'[id].version <= account'.version
      BY <1>0, <2>4, <2>5, <2>8, <2>9 DEF Safe, Consistent, TypeOK, SessionsNeverAhead
    <2>10. ASSUME NEW q \in Requests, user'[q] # None
           PROVE  user'[q].version <= account'.version
      BY <1>0, <2>4, <2>5, <2>8, <2>10 DEF Safe, Consistent, TypeOK, SessionsNeverAhead
    <2>11. SessionsNeverAhead'
      BY <2>9, <2>10 DEF SessionsNeverAhead
    <2>12. ReceiptVouches'
      BY <2>4 DEF ReceiptVouches
    <2>13. RotationsAreDrawn'
      BY <1>0, <2>5 DEF Safe, Consistent, TypeOK, RotationsAreDrawn, Drawn
    <2> QED BY <1>0, <2>7, <2>11, <2>12, <2>13 DEF Safe
  <1>21. ASSUME NEW r \in Requests, FinalizeFail(r) PROVE Safe'
    <2> USE <1>0, <1>21 DEF Consistent, TypeOK, Phases, Phase, Safe, FinalizeFail, Return
    <2>1. LoadedIsCurrent'
      BY DEF LoadedIsCurrent
    <2>2. WritersAreCurrent'
      BY DEF WritersAreCurrent, Holds
    <2>3. SessionsNeverAhead'
      BY DEF SessionsNeverAhead
    <2>4. ReceiptVouches'
      BY DEF ReceiptVouches
    <2>5. RotationsAreDrawn'
      BY DEF RotationsAreDrawn, Drawn
    <2> QED BY <2>1, <2>2, <2>3, <2>4, <2>5
  <1>22. ASSUME NEW r \in Requests, Cancel(r) PROVE Safe'
    <2> USE <1>0, <1>22 DEF Consistent, TypeOK, Phases, Phase, Safe, Cancel
    <2>1. LoadedIsCurrent'
      BY DEF LoadedIsCurrent
    <2>2. WritersAreCurrent'
      BY DEF WritersAreCurrent, Holds
    <2>3. SessionsNeverAhead'
      BY DEF SessionsNeverAhead
    <2>4. ReceiptVouches'
      BY DEF ReceiptVouches
    <2>5. RotationsAreDrawn'
      BY DEF RotationsAreDrawn, Drawn
    <2> QED BY <2>1, <2>2, <2>3, <2>4, <2>5
  <1>23. ASSUME NEW id \in SessionIds, Expire(id) PROVE Safe'
    <2> USE <1>0, <1>23 DEF Consistent, TypeOK, Phases, Phase, Safe, Expire
    <2>1. LoadedIsCurrent'
      BY DEF LoadedIsCurrent
    <2>2. WritersAreCurrent'
      BY DEF WritersAreCurrent, Holds
    <2>3. SessionsNeverAhead'
      BY DEF SessionsNeverAhead
    <2>4. ReceiptVouches'
      BY DEF ReceiptVouches
    <2>5. RotationsAreDrawn'
      BY DEF RotationsAreDrawn, Drawn
    <2> QED BY <2>1, <2>2, <2>3, <2>4, <2>5
  <1>24. ASSUME Restart PROVE Safe'
    <2> USE <1>0, <1>24 DEF Consistent, TypeOK, Phases, Phase, Safe, Restart
    <2>1. LoadedIsCurrent'
      BY DEF LoadedIsCurrent
    <2>2. WritersAreCurrent'
      BY DEF WritersAreCurrent, Holds
    <2>3. SessionsNeverAhead'
      BY DEF SessionsNeverAhead
    <2>4. ReceiptVouches'
      BY DEF ReceiptVouches
    <2>5. RotationsAreDrawn'
      BY DEF RotationsAreDrawn, Drawn
    <2> QED BY <2>1, <2>2, <2>3, <2>4, <2>5
  <1>25. ASSUME UNCHANGED vars PROVE Safe'
    <2> USE <1>0, <1>25 DEF Consistent, TypeOK, Phases, Phase, Safe, vars
    <2>1. LoadedIsCurrent'
      BY DEF LoadedIsCurrent
    <2>2. WritersAreCurrent'
      BY DEF WritersAreCurrent, Holds
    <2>3. SessionsNeverAhead'
      BY DEF SessionsNeverAhead
    <2>4. ReceiptVouches'
      BY DEF ReceiptVouches
    <2>5. RotationsAreDrawn'
      BY DEF RotationsAreDrawn, Drawn
    <2> QED BY <2>1, <2>2, <2>3, <2>4, <2>5
  <1> QED
    BY <1>1, <1>2, <1>3, <1>4, <1>5, <1>6, <1>7, <1>8, <1>9, <1>10, <1>11, <1>12, <1>13,
       <1>14, <1>15, <1>16, <1>17, <1>18, <1>19, <1>20, <1>21, <1>22, <1>23, <1>24, <1>25
    DEF Next, Handle

\* Every reachable state is safe.
THEOREM SafeAlways == Spec => []Safe
  <1>1. Init => Safe
    BY SafeInit
  <1>2. Safe /\ [Next]_vars => Safe'
    BY SafeStep
  <1> QED BY <1>1, <1>2, PTL DEF Spec

\* No session, stored or copied by a request, is ahead of the account; and the
\* receipt always describes the rotation the file is at.
THEOREM SessionsAndReceipt == Spec => [](SessionsNeverAhead /\ ReceiptVouches)
  <1>1. Safe => SessionsNeverAhead /\ ReceiptVouches
    BY DEF Safe
  <1> QED BY <1>1, SafeAlways, PTL

-----------------------------------------------------------------------------
(* What a step does to the account file. *)

\* Only the handler under the mutex changes the file, and in one of three ways.
LEMMA AccountSteps ==
  ASSUME Safe, [Next]_vars
  PROVE  \/ UNCHANGED account
         \/ \E r \in Requests, d \in Docs : WriteDoc(r, d)
         \/ \E r \in Requests : LoginAccept(r)
         \/ \E r \in Requests : FinalizeCommit(r)
  BY DEF Next, vars, Arrive, Receive, Handle, Respond, Reject, Read, Logout, WriteBegin,
         WriteFail, WriteOutdated, LoginBegin, LoginRefuse, LoginFail, PreparePassword,
         FinalizeMark, FinalizeLock, FinalizeAgain, FinalizeOvertaken, FinalizeRefuse,
         FinalizeFail, Cancel, Expire, Restart

\* Only the handler of a prepare call hands a snapshot out.
LEMMA PreparedSteps ==
  ASSUME Safe, [Next]_vars
  PROVE  UNCHANGED prepared \/ \E r \in Requests : PreparePassword(r)
  BY DEF Next, vars, Arrive, Receive, Handle, Respond, Reject, Read, Logout, WriteBegin,
         WriteFail, WriteDoc, WriteOutdated, LoginBegin, LoginRefuse, LoginAccept,
         LoginFail, FinalizeMark, FinalizeLock, FinalizeAgain, FinalizeOvertaken,
         FinalizeRefuse, FinalizeCommit, FinalizeFail, Cancel, Expire, Restart

\* A session authenticated before a rotation cannot write after it.
THEOREM CurrentSessionsWrite == Spec => OnlyCurrentSessionsWrite
  <1>1. Safe /\ [Next]_vars =>
          [account'.docs # account.docs =>
             \E r \in Requests : /\ mutex = r /\ user[r] # None
                                 /\ user[r].version = account.version]_vars
    <2> SUFFICES ASSUME Safe, [Next]_vars, account'.docs # account.docs
                 PROVE  \E r \in Requests : /\ mutex = r /\ user[r] # None
                                            /\ user[r].version = account.version
      OBVIOUS
    <2>1. ASSUME NEW r \in Requests, NEW d \in Docs, WriteDoc(r, d)
          PROVE  mutex = r /\ user[r] # None /\ user[r].version = account.version
      BY <2>1 DEF WriteDoc, Holds, Safe, Consistent, Phases, Phase, WritersAreCurrent
    <2>2. ASSUME NEW r \in Requests, LoginAccept(r) PROVE FALSE
      <3>1. pc[r] = "holding"
        BY <2>2 DEF LoginAccept, Holds
      <3> QED BY <2>2, <3>1, HolderAlone, MigrateType DEF LoginAccept
    <2>3. ASSUME NEW r \in Requests, FinalizeCommit(r)
          PROVE  mutex = r /\ user[r] # None /\ user[r].version = account.version
      <3>1. pc[r] = "holding" /\ call[r].kind = "finalize"
        BY <2>3 DEF FinalizeCommit, FinalizeAgreed, FinalizeOpen, Holds
      <3>2. mutex = r /\ user[r] # None
        BY <3>1 DEF Safe, Consistent, Phases, Phase
      <3>3. user[r].version = account.version
        BY <2>3, <3>1, HolderAlone DEF FinalizeCommit, FinalizeAgreed, FinalizeOpen
      <3> QED BY <3>2, <3>3
    <2> QED BY <2>1, <2>2, <2>3, AccountSteps
  <1> QED BY <1>1, SafeAlways, PTL DEF Spec, OnlyCurrentSessionsWrite

-----------------------------------------------------------------------------
(* The detailed specification implements the abstract one. *)

LEMMA AtomicInit == Init => Atomic!Init
  BY DEF Init, Atomic!Init, FreshAccounts, Atomic!FreshAccounts, Contents, Atomic!Contents,
         Blob, Atomic!Blob, Rekey, Atomic!Rekey

LEMMA AtomicStep == Safe /\ [Next]_vars => [Atomic!Next]_Atomic!vars
  <1> SUFFICES ASSUME Safe, [Next]_vars PROVE [Atomic!Next]_Atomic!vars
    OBVIOUS
  <1> USE DEF Atomic!Next, Atomic!vars
  <1>1. ASSUME NEW r \in Requests, NEW d \in Docs, WriteDoc(r, d) PROVE Atomic!SetDoc(d)
    <2>1. pc[r] = "holding" /\ call[r].kind = "write"
      BY <1>1 DEF WriteDoc, Holds
    <2>2. call[r].content \in Blob \cup {None}
      BY <2>1, HolderAlone, CallKinds DEF WriteCall
    <2>3. /\ account' = [account EXCEPT !.docs = [account.docs EXCEPT ![d] = call[r].content]]
          /\ UNCHANGED prepared
      BY <1>1, <2>1, HolderAlone DEF WriteDoc
    <2> QED BY <2>2, <2>3 DEF Atomic!SetDoc, Blob, Atomic!Blob
  <1>2. ASSUME NEW r \in Requests, LoginAccept(r)
        PROVE  Atomic!MigrateVerifier \/ UNCHANGED Atomic!vars
    <2>1. pc[r] = "holding"
      BY <1>2 DEF LoginAccept, Holds
    <2> QED BY <1>2, <2>1, HolderAlone DEF LoginAccept, Atomic!MigrateVerifier
  <1>3. ASSUME NEW r \in Requests, FinalizeCommit(r)
        PROVE  \E rotation \in Rotations, old, new \in Keys : Atomic!Rotate(rotation, old, new)
    <2>1. pc[r] = "holding" /\ call[r].kind = "finalize"
      BY <1>3 DEF FinalizeCommit, FinalizeAgreed, FinalizeOpen, Holds
    <2>2. /\ call[r].rotation \in Rotations
          /\ call[r].old \in Keys
          /\ call[r].new \in Keys
      BY <2>1, HolderAlone, CallKinds DEF FinalizeCall
    <2>3. call[r].old # call[r].new
      BY <2>1, HolderAlone, NoneIsNoState DEF Safe, RotationsAreDrawn, Drawn
    <2>4. /\ prepared[call[r].rotation] = SnapshotOf(account)
          /\ call[r].old = account.verifier
          /\ account' = Rotated(account, call[r].rotation, prepared[call[r].rotation].docs,
                                call[r].old, call[r].new)
          /\ UNCHANGED prepared
      BY <1>3, <2>1, HolderAlone DEF FinalizeCommit, FinalizeAgreed
    <2>5. prepared[call[r].rotation].docs = account.docs
      BY <2>4 DEF SnapshotOf
    <2>6. Atomic!Rotate(call[r].rotation, call[r].old, call[r].new)
      BY <2>3, <2>4, <2>5
      DEF Atomic!Rotate, SnapshotOf, Atomic!SnapshotOf, Rotated, Atomic!Rotated, Rekey, Atomic!Rekey
    <2> QED BY <2>2, <2>6
  <1>4. ASSUME NEW r \in Requests, PreparePassword(r)
        PROVE  Atomic!vars' = Atomic!vars \/ \E rotation \in Rotations : Atomic!Prepare(rotation)
    <2>1. /\ call[r] \in Call
          /\ call[r].kind = "prepare"
          /\ call[r] # None
      BY <1>4, NoneIsNoState DEF PreparePassword, Calls, Safe, Consistent, TypeOK, Phases, Phase
    <2>2. call[r].rotation \in Rotations
      BY <2>1, CallKinds DEF PrepareCall
    <2>3. prepared[call[r].rotation] = None
      BY <2>1 DEF Safe, RotationsAreDrawn, Drawn
    <2> QED BY <1>4, <2>2, <2>3
           DEF PreparePassword, Atomic!Prepare, SnapshotOf, Atomic!SnapshotOf
  <1>5. CASE UNCHANGED account
    BY <1>4, <1>5, PreparedSteps
  <1> QED BY <1>1, <1>2, <1>3, <1>5, AccountSteps

\* The server keeps the promise of AtomicAccount, whatever its handlers'
\* interleaving, its clients' retries and its restarts.
THEOREM AccountIsAtomic == Spec => ImplementsAtomicAccount
  <1>1. Init => Atomic!Init
    BY AtomicInit
  <1>2. Safe /\ [Next]_vars => [Atomic!Next]_Atomic!vars
    BY AtomicStep
  <1> QED BY <1>1, <1>2, SafeAlways, PTL DEF Spec, ImplementsAtomicAccount, Atomic!Spec

-----------------------------------------------------------------------------
(* The answers to a finalize request. *)

\* Which handlers answer a finalize request under the mutex, and what.
LEMMA FinalizeAnswers ==
  ASSUME Safe, [Next]_vars, NEW r \in Requests,
         pc[r] = "holding", call[r].kind = "finalize", reply'[r] # None
  PROVE  FinalizeAgain(r) \/ FinalizeOvertaken(r) \/ FinalizeRefuse(r)
         \/ FinalizeCommit(r) \/ FinalizeFail(r)
  <1>1. reply[r] = None
    BY DEF Safe, Consistent, Phases, Phase
  <1>2. \A q \in Requests : pc[q] = "holding" => q = r
    BY HolderAlone
  <1>3. PICK q \in Requests : Handle(q)
    BY <1>1 DEF Next, vars, Arrive, Receive, Cancel, Expire, Restart, Safe, Consistent, TypeOK
  <1>4. q = r
    BY <1>1, <1>3 DEF Handle, Respond, Reject, Read, Logout, WriteBegin, WriteFail, WriteDoc,
         WriteOutdated, LoginBegin, LoginRefuse, LoginAccept, LoginFail, PreparePassword,
         FinalizeMark, FinalizeLock, FinalizeAgain, FinalizeOvertaken, FinalizeRefuse,
         FinalizeCommit, FinalizeFail, Return, Safe, Consistent, TypeOK
  <1> QED BY <1>3, <1>4 DEF Handle, Respond, Reject, Read, Calls, Logout, WriteBegin,
         WriteFail, WriteDoc, WriteOutdated, Holds, LoginBegin, LoginRefuse, LoginAccept,
         LoginFail, PreparePassword, FinalizeMark, FinalizeLock

\* OK is answered only while the account is at exactly the rotation asked for,
\* so the browser may replace its active key by the pending one.
THEOREM AckedRotation == Spec => AckedRotationIsInForce
  <1>1. Safe /\ [Next]_vars =>
          [\A r \in Requests :
             pc[r] = "holding" /\ call[r].kind = "finalize" /\ reply'[r] = "OK"
             => ReceiptMatches(account', call[r]) /\ account'.verifier = call[r].new]_vars
    <2> SUFFICES ASSUME Safe, [Next]_vars, NEW r \in Requests,
                        pc[r] = "holding", call[r].kind = "finalize", reply'[r] = "OK"
                 PROVE  ReceiptMatches(account', call[r]) /\ account'.verifier = call[r].new
      OBVIOUS
    <2>1. reply \in [Requests -> Replies \cup {None}]
      BY DEF Safe, Consistent, TypeOK
    <2>2. CASE FinalizeAgain(r)
      <3>1. config[r] = account /\ account' = account
        BY <2>2, HolderAlone DEF FinalizeAgain
      <3>2. ReceiptMatches(account', call[r]) /\ call[r].new = account'.verifier
        BY <2>2, <3>1 DEF FinalizeAgain
      <3> QED BY <3>2
    <2>3. CASE FinalizeCommit(r)
      <3>1. account' = Rotated(account, call[r].rotation, prepared[call[r].rotation].docs,
                               call[r].old, call[r].new)
        BY <2>3, HolderAlone DEF FinalizeCommit
      <3>2. prepared[call[r].rotation].version = account.version
        BY <2>3, HolderAlone DEF FinalizeCommit, FinalizeAgreed, SnapshotOf
      <3>3. UNCHANGED prepared
        BY <2>3 DEF FinalizeCommit
      <3> QED BY <3>1, <3>2, <3>3 DEF ReceiptMatches, ReceiptOf, Rotated
    <2>4. FinalizeOvertaken(r) \/ FinalizeRefuse(r) \/ FinalizeFail(r) => reply'[r] # "OK"
      BY <2>1 DEF FinalizeOvertaken, FinalizeRefuse, FinalizeFail, Return
    <2>5. reply'[r] # None
      BY NoneIsNoState DEF Replies
    <2> QED BY <2>2, <2>3, <2>4, <2>5, FinalizeAnswers
  <1> QED BY <1>1, SafeAlways, PTL DEF Spec, AckedRotationIsInForce

\* The answers on which the browser drops the pending key are given only when
\* the account is not at the rotation asked for.
THEOREM RefusedRotation == Spec => RefusedRotationIsNotInForce
  <1>1. Safe /\ [Next]_vars =>
          [\A r \in Requests :
             /\ pc[r] = "holding" /\ call[r].kind = "finalize"
             /\ reply'[r] \in {"CONFLICT", "CURRENT_INVALID"}
             => ~ReceiptMatches(account', call[r])]_vars
    <2> SUFFICES ASSUME Safe, [Next]_vars, NEW r \in Requests,
                        pc[r] = "holding", call[r].kind = "finalize",
                        reply'[r] \in {"CONFLICT", "CURRENT_INVALID"}
                 PROVE  ~ReceiptMatches(account', call[r])
      OBVIOUS
    <2>1. reply \in [Requests -> Replies \cup {None}]
      BY DEF Safe, Consistent, TypeOK
    <2>2. CASE FinalizeRefuse(r)
      <3>1. UNCHANGED account /\ UNCHANGED prepared
        BY <2>2 DEF FinalizeRefuse
      <3>2. ~ReceiptMatches(account, call[r])
        BY <2>2, HolderAlone DEF FinalizeRefuse, FinalizeOpen
      <3> QED BY <3>1, <3>2 DEF ReceiptMatches, ReceiptOf
    <2>3. FinalizeAgain(r) \/ FinalizeOvertaken(r) \/ FinalizeCommit(r) \/ FinalizeFail(r)
          => reply'[r] \notin {"CONFLICT", "CURRENT_INVALID"}
      BY <2>1 DEF FinalizeAgain, FinalizeOvertaken, FinalizeCommit, FinalizeFail, Return
    <2>4. reply'[r] # None
      BY NoneIsNoState DEF Replies
    <2> QED BY <2>2, <2>3, <2>4, FinalizeAnswers
  <1> QED BY <1>1, SafeAlways, PTL DEF Spec, RefusedRotationIsNotInForce
=============================================================================
