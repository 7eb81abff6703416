-------------------------- MODULE MCAccountServer --------------------------
(***************************************************************************)
(* Small instances of AccountServer for TLC.  Every constant set is a set  *)
(* of model values that the specification only compares, so permuting any  *)
(* of them is sound for the safety runs.                                   *)
(***************************************************************************)
EXTENDS AccountServer, TLC

Symmetry ==
  Permutations(Requests) \cup Permutations(SessionIds) \cup Permutations(Keys)
  \cup Permutations(Docs) \cup Permutations(Payloads) \cup Permutations(Rotations)

\* A reachable state to start the liveness run from: an empty account whose
\* every session id was given out by a login and is current.
LoggedIn ==
  /\ account \in {acc \in FreshAccounts : ~acc.legacy /\ \A d \in Docs : acc.docs[d] = None}
  /\ prepared = [rotation \in Rotations |-> None]
  /\ store = [id \in SessionIds |-> [version |-> 0, rotation |-> None]]
  /\ issued = SessionIds
  /\ mutex = None
  /\ pc = [r \in Requests |-> "idle"]
  /\ call = [r \in Requests |-> None]
  /\ sid = [r \in Requests |-> None]
  /\ user = [r \in Requests |-> None]
  /\ config = [r \in Requests |-> None]
  /\ reply = [r \in Requests |-> None]

LoggedInSpec == LoggedIn /\ [][Next]_vars /\ \A r \in Requests : SF_vars(Handle(r))

\* What the comment in session_isAuthenticated says: "A final password-rotation
\* response can fail after the atomic file save; keeping its rotation id lets the
\* exact pending request recover through the receipt."  Where SessionIds has one
\* member, an authenticated repetition of the applied request, sent when nothing
\* else is in flight, comes from the very session that rotated: it must not be
\* taken for a stranger's.
LostAnswerIsRecovered ==
  [][\A r \in Requests :
       /\ Calls(r, "finalize") /\ user[r] # None
       /\ ReceiptMatches(account, call[r])
       /\ \A q \in Requests \ {r} : pc[q] = "idle"
       => reply'[r] # "AUTH_REQUIRED"]_vars
=============================================================================
