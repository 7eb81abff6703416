--------------------------- MODULE SignInContract ---------------------------
(***************************************************************************)
(* What signing up and signing in promise, with no counter, lock, clock,   *)
(* queue or crash in sight: the first sign-up of an identity decides its   *)
(* credential, and a session becomes that of an identity only by that      *)
(* credential.                                                             *)
(***************************************************************************)
CONSTANTS Identities, Sessions, Credentials, Nobody

VARIABLES
  credential, \* identity -> its credential, or Nobody
  proved,     \* the <<session, identity>> whose credential was shown
  user        \* session -> the identity it is signed in as, or Nobody

vars == <<credential, proved, user>>

Init ==
  /\ credential \in [Identities -> Credentials \cup {Nobody}]
  /\ proved = {}
  /\ user = [s \in Sessions |-> Nobody]

\* An answer carries the session as it was when the request came.
Return(s) ==
  \E i \in Identities \cup {Nobody} :
    /\ i = Nobody \/ <<s, i>> \in proved
    /\ user' = [user EXCEPT ![s] = i]

SignUp(s, i, c) ==
  /\ credential[i] = Nobody
  /\ credential' = [credential EXCEPT ![i] = c]
  /\ Return(s)
  /\ UNCHANGED proved

SignIn(s, i, c) ==
  /\ credential[i] = c
  /\ proved' = proved \cup {<<s, i>>}
  /\ user' = [user EXCEPT ![s] = i]
  /\ UNCHANGED credential

Refuse(s) == Return(s) /\ UNCHANGED <<credential, proved>>

Forget ==
  /\ user' = [s \in Sessions |-> Nobody]
  /\ UNCHANGED <<credential, proved>>

Next ==
  \/ \E s \in Sessions, i \in Identities, c \in Credentials :
       SignUp(s, i, c) \/ SignIn(s, i, c)
  \/ \E s \in Sessions : Refuse(s)
  \/ Forget

Spec == Init /\ [][Next]_vars
=============================================================================
