---------------------------- MODULE AccountData ----------------------------
(***************************************************************************)
(* The data an account file of WebHome holds and the operators on it, as   *)
(* src/api/login/user_back.rs uses them.  One account is modelled: every   *)
(* lock, file and check of the code is per account identity.               *)
(*                                                                         *)
(* A passphrase yields both the credential the server verifies and the     *)
(* AES key the browser encrypts with, so one element of Keys stands for    *)
(* both.  A document is a stored module, or the account preferences: the   *)
(* server treats both as opaque ciphertext.  Its payload stands for the    *)
(* plaintext with the timestamp and position stored beside it.             *)
(***************************************************************************)
EXTENDS Naturals

CONSTANTS
  Keys,        \* passphrases, each giving a credential and a content key
  Docs,        \* ids of the documents an account may store
  Payloads,    \* what a document may say
  Rotations,   \* ids of password rotations (random uuids in the code)
  MaxVersion,  \* bound on the number of rotations of a run
  None         \* a null value that is no member of the sets above

ASSUME DataAssumption ==
  /\ MaxVersion \in Nat
  /\ None \notin Keys \cup Rotations

Blob == [key: Keys, payload: Payloads]
ASSUME NoneIsNoBlob == None \notin Blob

Contents == [Docs -> Blob \cup {None}]

\* What a rotation was prepared from: passwordRotationRevision_get hashes it.
Snapshot == [version: Nat, docs: Contents]

\* The identity of an applied rotation; old and new stand for resultDigest.
Receipt == [rotation: Rotations, version: Nat, old: Keys, new: Keys]

ASSUME NoneIsNoRecord == None \notin Snapshot \cup Receipt

Account == [verifier: Keys, legacy: BOOLEAN, version: Nat,
            docs: Contents, receipt: Receipt \cup {None}]

SnapshotOf(acc) == [version |-> acc.version, docs |-> acc.docs]

\* The documents encrypted again under another key, plaintexts unchanged.
Rekey(docs, key) ==
  [d \in Docs |-> IF docs[d] = None
                  THEN None ELSE [key |-> key, payload |-> docs[d].payload]]

\* The account after the single file_save of a rotation.
Rotated(acc, rotation, docs, old, new) ==
  [verifier |-> new,
   legacy   |-> FALSE,
   version  |-> acc.version + 1,
   docs     |-> Rekey(docs, new),
   receipt  |-> [rotation |-> rotation, version |-> acc.version + 1,
                 old |-> old, new |-> new]]

\* An account before its first rotation, every document under its passphrase.
FreshAccounts ==
  {[verifier |-> key, legacy |-> legacy, version |-> 0,
    docs |-> Rekey(docs, key), receipt |-> None] :
     key \in Keys, legacy \in BOOLEAN, docs \in Contents}
=============================================================================
