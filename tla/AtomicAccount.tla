--------------------------- MODULE AtomicAccount ---------------------------
(***************************************************************************)
(* What the account store promises, with no session, lock, request, copy   *)
(* or crash in sight: the file changes one whole operation at a time, each *)
(* computed from the current file, and a rotation replaces exactly the     *)
(* contents its snapshot was taken of.                                     *)
(***************************************************************************)
EXTENDS AccountData

VARIABLES
  account,    \* the account file
  prepared    \* rotation id -> the snapshot handed out for it, or None

vars == <<account, prepared>>

Init ==
  /\ account \in FreshAccounts
  /\ prepared = [rotation \in Rotations |-> None]

\* One document is written, or removed.
SetDoc(d) ==
  /\ \E content \in Blob \cup {None} :
       account' = [account EXCEPT !.docs = [account.docs EXCEPT ![d] = content]]
  /\ UNCHANGED prepared

\* A verifier of the former format is replaced by one of the same passphrase.
MigrateVerifier ==
  /\ account' = [account EXCEPT !.legacy = FALSE]
  /\ UNCHANGED prepared

Prepare(rotation) ==
  /\ prepared[rotation] = None
  /\ prepared' = [prepared EXCEPT ![rotation] = SnapshotOf(account)]
  /\ UNCHANGED account

\* Verifier, version, receipt and every document change together, and only
\* if nothing was stored since the rotation was prepared.
Rotate(rotation, old, new) ==
  /\ prepared[rotation] = SnapshotOf(account)
  /\ account.verifier = old
  /\ old # new
  /\ account' = Rotated(account, rotation, account.docs, old, new)
  /\ UNCHANGED prepared

Next ==
  \/ \E d \in Docs : SetDoc(d)
  \/ MigrateVerifier
  \/ \E rotation \in Rotations : Prepare(rotation)
  \/ \E rotation \in Rotations, old, new \in Keys : Rotate(rotation, old, new)

Spec == Init /\ [][Next]_vars
=============================================================================
