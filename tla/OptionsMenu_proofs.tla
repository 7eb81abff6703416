--------------------------- MODULE OptionsMenu_proofs ---------------------------
(***************************************************************************)
(* Proofs about OptionsMenu, for any languages, hues and numbers of        *)
(* dialogs, keys, faults and revisions.                                    *)
(***************************************************************************)
EXTENDS OptionsMenu, TLAPS

-----------------------------------------------------------------------------
(* The inductive invariant. *)

Rotating(t) == t.kind = "rotate" /\ t.step \in Asking

\* Who is signed in has a vault, the one that is stored, and only then are there
\* dialogs.  A sign-in starts with nothing else being asked.
Signed ==
    /\ cookie.connected <=> vault # None
    /\ cookie.connected => stored = vault
    /\ dialog # NoDialog => cookie.connected
    /\ \A t \in tasks : t.kind = "login" =>
         /\ ~cookie.connected /\ late = {}
         /\ \A u \in tasks : ~Rotating(u) /\ (u.kind = "login" => u = t)
    /\ \A t \in late : t.kind = "login" =>
         ~cookie.connected /\ \A u \in tasks \cup late : ~Rotating(u)

\* What sets passwordRotationRunning: a rotation, or the sign-out that gives one up.
Runner(t) == t.kind = "rotate" \/ (t.kind = "logout" /\ t.id # 0)

\* One rotation at a time; it is prepared while none is pending, and what is
\* finalized is what is pending.
Runs ==
    /\ \A t \in tasks : Runner(t) => running
    /\ \A t, u \in tasks : Runner(t) /\ Runner(u) => t = u
    /\ \A t \in tasks : t.kind = "rotate" /\ vault # None =>
         /\ t.step \in {"prepare", "prepared"} => vault.pending = None
         /\ t.step = "finalize" /\ vault.pending # None =>
              t.key = vault.pending.key /\ t.rev = vault.pending.rev
    /\ \A t \in tasks \cup late : t.rev <= server.rev
    /\ vault # None /\ vault.pending # None => vault.pending.rev <= server.rev

\* The timer belongs to the dialog it closes, and a save keeps its dialog up and
\* everything else away.
Attended ==
    ~disturbed =>
      /\ PreviewGoesWithDialog
      /\ timer /\ dialog # NoDialog => dialog.closing
      /\ \A t \in late : t.kind # "save"
      /\ \A t \in tasks : t.kind = "logout" /\ t.id = 0 => ~Shown
      /\ \A t \in tasks : t.kind = "save" =>
           /\ Shown /\ dialog.id = t.id /\ t.id \in saving /\ ~timer
           /\ vault.pending = None /\ tasks = {t}

\* The key of the account is the one that everything on its way relies on: no
\* rotation that may still be applied is other than the one that is pending.
Keyed ==
    ~disturbed =>
      /\ PreferencesOpen
      /\ session = "current" =>
           /\ BrowserHasKey
           /\ \A t \in tasks \cup late : t.kind = "login" /\ t.step # "denied" =>
                /\ t.key = server.key
                /\ t.step \in {"get", "set"} => t.prefs.key = server.key
           /\ \A t \in tasks : t.kind = "save" /\ t.step = "sent" => t.prefs.key = server.key
           /\ cookie.connected =>
                /\ \A t \in tasks \cup late : t.kind = "rotate" /\ t.step = "finalize" =>
                     \/ vault.pending # None /\ t.key = vault.pending.key /\ t.rev = vault.pending.rev
                     \/ t.key = server.key
                     \/ t.rev < server.rev
                /\ \A t \in tasks : t.kind = "rotate" /\ Owns(t) =>
                     /\ t.step = "ok" => t.key = server.key
                     /\ t.step = "conflict" => t.key # server.key /\ vault.pending.rev < server.rev

\* What the account was last known to have is what is shown, or is about to be.
Agreeing ==
    ~disturbed /\ agreed =>
      /\ cookie.connected =>
           /\ server.prefs # None
           /\ server.prefs.style = cookie.style \/ \E t \in tasks : t.kind = "save" /\ t.step = "ok"
      /\ \A t \in tasks : t.kind = "login" => t.step = "ok"
      /\ \A t \in tasks : t.kind \in {"save", "login"} /\ t.step = "ok" =>
           server.prefs # None /\ server.prefs.style = t.prefs.style

OptionsInv == OptionsTypeOK /\ Signed /\ Runs /\ Attended /\ Keyed /\ Agreeing

-----------------------------------------------------------------------------
(* Tasks. *)

LEMMA TaskParts ==
    ASSUME NEW t, IsTask(t)
    PROVE  /\ t.kind \in {"save", "login", "logout", "rotate"} /\ t.step \in StepsOf(t.kind)
           /\ t.id \in 0 .. MaxDialogs /\ t.key \in Nat /\ t.rev \in Nat /\ t.prefs \in Prefs \cup {None}
           /\ t.kind = "save" => t.step \in {"sent", "ok", "error", "denied"}
           /\ t.kind = "login" => t.step \in {"get", "set", "ok", "error", "denied"}
           /\ t.kind = "logout" => t.step \in {"sent", "ok"}
           /\ t.kind = "rotate" => t.step \in {"prepare", "prepared", "finalize", "ok", "conflict", "error", "denied"}
           /\ t.kind \in {"save", "login"} =>
                /\ t.prefs \in Prefs /\ t.prefs.key \in Nat /\ t.prefs.style \in Styles /\ t.prefs # None
BY NoneIsNothing DEF IsTask, StepsOf, Prefs

LEMMA TypesTell ==
    ASSUME OptionsTypeOK
    PROVE  /\ MaxDialogs \in Nat /\ opened \in Nat
           /\ \A t \in tasks \cup late : IsTask(t)
           /\ \A t \in late : t.step \in Asking
           /\ server.key \in Nat /\ server.rev \in Nat /\ server.prefs \in Prefs \cup {None}
           /\ server.prefs # None => server.prefs.key \in Nat /\ server.prefs.style \in Styles
           /\ cookie.style \in Styles /\ cookie.connected \in BOOLEAN /\ cookie.style # None
           /\ vault # None =>
                /\ vault \in Vault /\ vault.active \in Nat
                /\ vault.pending # None =>
                     vault.pending \in Pending /\ vault.pending.key \in Nat /\ vault.pending.rev \in Nat
BY DialogAssumption, NoneIsNothing DEF OptionsTypeOK, Prefs, Vault, Pending

-----------------------------------------------------------------------------
(* Requests and their answers. *)

\* The task that has the answer.
Told(t, step, prefs) == [t EXCEPT !.step = step, !.prefs = prefs, !.rev = server.rev]

\* An answer that a task of this kind can have.
Fits(t, step, prefs) ==
    /\ step \in StepsOf(t.kind)
    /\ step \in Asking => t.kind = "login"
    /\ step = "prepared" => t.step = "prepare"
    /\ prefs \in Prefs \cup {None}
    /\ t.kind \in {"save", "login"} => prefs \in Prefs

LEMMA ToldParts ==
    ASSUME OptionsTypeOK, NEW t, IsTask(t), NEW step, NEW prefs, Fits(t, step, prefs)
    PROVE  LET new == Told(t, step, prefs)
           IN /\ IsTask(new) /\ new.kind = t.kind /\ new.id = t.id /\ new.key = t.key
              /\ new.step = step /\ new.prefs = prefs /\ new.rev = server.rev
<1> DEFINE new == Told(t, step, prefs)
<1>1. step \in UNION {StepsOf(k) : k \in {"save", "login", "logout", "rotate"}}
  BY DEF Fits, IsTask
<1>2. /\ t \in [kind : {"save", "login", "logout", "rotate"}, step : UNION {StepsOf(k) : k \in {"save", "login", "logout", "rotate"}},
                id : 0 .. MaxDialogs, key : Nat, prefs : Prefs \cup {None}, rev : Nat]
      /\ prefs \in Prefs \cup {None} /\ server.rev \in Nat
  BY TypesTell DEF IsTask, Fits
<1> HIDE DEF StepsOf
<1>3. /\ new \in [kind : {"save", "login", "logout", "rotate"}, step : UNION {StepsOf(k) : k \in {"save", "login", "logout", "rotate"}},
                  id : 0 .. MaxDialogs, key : Nat, prefs : Prefs \cup {None}, rev : Nat]
      /\ new.kind = t.kind /\ new.id = t.id /\ new.key = t.key
      /\ new.step = step /\ new.prefs = prefs /\ new.rev = server.rev
  BY <1>1, <1>2 DEF Told
<1> HIDE DEF new
<1>4. IsTask(new)
  BY <1>3 DEF Fits, IsTask
<1> QED BY <1>3, <1>4 DEF new

\* An answer goes to the task that waits, or to nobody.
LEMMA AnswerParts ==
    ASSUME OptionsTypeOK, NEW t \in tasks \cup late, NEW step, NEW prefs, Fits(t, step, prefs),
           Answered(t, step, prefs)
    PROVE  \/ t \in tasks /\ late' = late /\ tasks' = (tasks \ {t}) \cup {Told(t, step, prefs)}
           \/ t \notin tasks /\ t \in late /\ late' = late \ {t} /\ tasks' = tasks
BY DEF Answered, Told

\* An answer leaves the dialogs, the tasks and the rotation in order.
LEMMA AnswerKeeps ==
    ASSUME OptionsInv, NEW t \in tasks \cup late, t.step \in Asking,
           NEW step, NEW prefs, Fits(t, step, prefs), Answered(t, step, prefs),
           UNCHANGED <<hostvars, local, flags, minted>>,
           server' \in [key : Nat, rev : Nat, prefs : Prefs \cup {None}], server.rev <= server'.rev,
           session' \in {"current", "behind", "none"}, faults' \in Nat, agreed' \in BOOLEAN
    PROVE  OptionsTypeOK' /\ Signed' /\ Runs' /\ Attended'
<1> DEFINE new == Told(t, step, prefs)
<1>1. /\ UNCHANGED <<dialog, timer, opened, disturbed, cookie, preview, stored, vault, running, saving, succeeded, minted>>
  BY DEF hostvars, local, flags
<1>2. /\ IsTask(new) /\ new.kind = t.kind /\ new.id = t.id /\ new.key = t.key
      /\ new.step = step /\ new.prefs = prefs /\ new.rev = server.rev
      /\ IsTask(t) /\ t.step \in Asking
  BY ToldParts, TypesTell DEF OptionsInv
<1>3. \/ t \in tasks /\ late' = late /\ tasks' = (tasks \ {t}) \cup {new}
      \/ t \notin tasks /\ t \in late /\ late' = late \ {t} /\ tasks' = tasks
  BY AnswerParts DEF OptionsInv
<1> HIDE DEF new
<1>4. /\ \A u \in tasks' : u \in tasks \/ (u = new /\ t \in tasks)
      /\ late' \subseteq late
  BY <1>3
<1>5. OptionsTypeOK'
  BY <1>1, <1>2, <1>4 DEF OptionsInv, OptionsTypeOK
<1>6. new.step \in Asking => t.kind = "login"
  BY <1>2 DEF Fits
<1>7. Signed'
  <2>1. ASSUME NEW u \in tasks', u.kind = "login"
        PROVE  /\ ~cookie.connected /\ late' = {}
               /\ \A v \in tasks' : ~Rotating(v) /\ (v.kind = "login" => v = u)
    <3>1. PICK w \in tasks : w.kind = "login" /\ (w = u \/ (u = new /\ w = t))
      BY <1>2, <1>4, <2>1
    <3>2. ~cookie.connected /\ late = {} /\ \A v \in tasks : ~Rotating(v) /\ (v.kind = "login" => v = w)
      BY <3>1 DEF OptionsInv, Signed
    <3>3. t \in tasks
      BY <3>2
    <3>4. \A v \in tasks' : v = new \/ (v \in tasks /\ v # t)
      BY <1>3, <3>3
    <3> QED BY <1>2, <1>3, <1>6, <3>1, <3>2, <3>3, <3>4 DEF Rotating
  <2>2. ASSUME NEW u \in late', u.kind = "login"
        PROVE  ~cookie.connected /\ \A v \in tasks' \cup late' : ~Rotating(v)
    <3>1. ~cookie.connected /\ \A v \in tasks \cup late : ~Rotating(v)
      BY <1>4, <2>2 DEF OptionsInv, Signed
    <3> QED BY <1>2, <1>4, <1>6, <3>1 DEF Rotating
  <2> QED BY <1>1, <2>1, <2>2 DEF OptionsInv, Signed
<1>8. Runs'
  <2>1. Runner(new) => Runner(t)
    BY <1>2 DEF Runner
  <2>2. new.step \notin {"prepare", "finalize"}
    BY <1>2, <1>6, TaskParts DEF Fits, Asking
  <2>3. new.step = "prepared" => t.step = "prepare"
    BY <1>2 DEF Fits
  <2>4. \A u \in tasks' \cup late' : u.rev <= server'.rev
    <3>1. \A u \in tasks \cup late : u.rev \in Nat /\ u.rev <= server.rev
      BY TaskParts, TypesTell DEF OptionsInv, Runs
    <3>2. server.rev \in Nat /\ server'.rev \in Nat
      BY TypesTell DEF OptionsInv
    <3> QED BY <1>2, <1>4, <3>1, <3>2
  <2>5. vault # None /\ vault.pending # None => vault.pending.rev <= server'.rev
    BY TypesTell DEF OptionsInv, Runs
  <2>6. \A u \in tasks' : Runner(u) => running
    BY <1>4, <2>1 DEF OptionsInv, Runs
  <2>7. \A u, v \in tasks' : Runner(u) /\ Runner(v) => u = v
    BY <1>3, <2>1 DEF OptionsInv, Runs
  <2>8. ASSUME NEW u \in tasks', u.kind = "rotate", vault # None
        PROVE  /\ u.step \in {"prepare", "prepared"} => vault.pending = None
               /\ u.step = "finalize" /\ vault.pending # None =>
                    u.key = vault.pending.key /\ u.rev = vault.pending.rev
    BY <1>2, <1>4, <2>2, <2>3, <2>8 DEF OptionsInv, Runs
  <2> QED BY <1>1, <2>4, <2>5, <2>6, <2>7, <2>8 DEF Runs, Runner
<1>9. Attended'
  <2>1. SUFFICES ASSUME ~disturbed PROVE Attended'
    BY <1>1 DEF Attended
  <2>2. \A u \in tasks' : u.kind = "save" =>
          Shown /\ dialog.id = u.id /\ u.id \in saving /\ ~timer /\ vault.pending = None /\ tasks' = {u}
    <3>1. ASSUME NEW u \in tasks', u.kind = "save"
          PROVE  Shown /\ dialog.id = u.id /\ u.id \in saving /\ ~timer /\ vault.pending = None /\ tasks' = {u}
      <4>1. PICK w \in tasks : w.kind = "save" /\ w.id = u.id /\ (w = u \/ (u = new /\ w = t))
        BY <1>2, <1>4, <3>1
      <4>2. Shown /\ dialog.id = w.id /\ w.id \in saving /\ ~timer /\ vault.pending = None /\ tasks = {w}
        BY <2>1, <4>1 DEF OptionsInv, Attended
      <4> QED BY <1>3, <3>1, <4>1, <4>2
    <3> QED BY <3>1
  <2>3. \A u \in tasks' : u.kind = "logout" /\ u.id = 0 => ~Shown
    BY <1>2, <1>4, <2>1 DEF OptionsInv, Attended
  <2>4. \A u \in late' : u.kind # "save"
    BY <1>4, <2>1 DEF OptionsInv, Attended
  <2>5. PreviewGoesWithDialog' /\ (timer' /\ dialog' # NoDialog => dialog'.closing)
    BY <1>1, <2>1 DEF OptionsInv, Attended, PreviewGoesWithDialog, Shown
  <2> QED BY <1>1, <2>2, <2>3, <2>4, <2>5 DEF Attended, Shown
<1> QED BY <1>5, <1>7, <1>8, <1>9

\* An answer that changes nothing on the server leaves the keys in order.
LEMMA KeysStay ==
    ASSUME OptionsInv, NEW t \in tasks \cup late, t.step \in Asking,
           NEW step, NEW prefs, Fits(t, step, prefs), Answered(t, step, prefs),
           UNCHANGED <<hostvars, local, server>>, session' \in {session, "none"},
           session' = "current" =>
             /\ step \in {"get", "set"} => prefs.key = server.key
             /\ t.kind = "rotate" /\ step = "ok" => t.key = server.key
             /\ step = "conflict" => t.step = "finalize" /\ t.key # server.key /\ t.rev # server.rev
    PROVE  Keyed'
<1> DEFINE new == Told(t, step, prefs)
<1>1. UNCHANGED <<dialog, disturbed, cookie, stored, vault, server>>
  BY DEF hostvars, local
<1>2. /\ IsTask(new) /\ new.kind = t.kind /\ new.id = t.id /\ new.key = t.key
      /\ new.step = step /\ new.prefs = prefs /\ new.rev = server.rev
      /\ IsTask(t) /\ t.step \in Asking
  BY ToldParts, TypesTell DEF OptionsInv
<1>3. \/ t \in tasks /\ late' = late /\ tasks' = (tasks \ {t}) \cup {new}
      \/ t \notin tasks /\ t \in late /\ late' = late \ {t} /\ tasks' = tasks
  BY AnswerParts DEF OptionsInv
<1> HIDE DEF new
<1>4. /\ \A u \in tasks' : u \in tasks \/ (u = new /\ t \in tasks)
      /\ late' \subseteq late
  BY <1>3
<1>5. SUFFICES ASSUME ~disturbed PROVE Keyed'
  BY <1>1 DEF Keyed
<1>6. PreferencesOpen'
  BY <1>1, <1>5 DEF OptionsInv, Keyed, PreferencesOpen
<1>7. SUFFICES ASSUME session' = "current" PROVE Keyed'
  BY <1>6 DEF Keyed
<1>8. session = "current"
  BY <1>7
<1>9. BrowserHasKey'
  <2>1. (\E u \in tasks : u.kind = "login") => \E u \in tasks' : u.kind = "login"
    BY <1>2, <1>3
  <2> QED BY <1>1, <1>5, <1>8, <2>1 DEF OptionsInv, Keyed, BrowserHasKey
<1>10. \A u \in tasks' \cup late' : u.kind = "login" /\ u.step # "denied" =>
         u.key = server.key /\ (u.step \in {"get", "set"} => u.prefs.key = server.key)
  <2>1. t.kind = "login" => t.key = server.key
    BY <1>2, <1>5, <1>8 DEF OptionsInv, Keyed, Asking
  <2> QED BY <1>2, <1>4, <1>5, <1>7, <1>8, <2>1 DEF OptionsInv, Keyed
<1>11. \A u \in tasks' : u.kind = "save" /\ u.step = "sent" => u.prefs.key = server.key
  BY <1>2, <1>4, <1>5, <1>8 DEF OptionsInv, Keyed, Fits, Asking
<1>12. ASSUME cookie.connected, NEW u \in tasks' \cup late', u.kind = "rotate", u.step = "finalize"
       PROVE  \/ vault.pending # None /\ u.key = vault.pending.key /\ u.rev = vault.pending.rev
              \/ u.key = server.key
              \/ u.rev < server.rev
  BY <1>2, <1>4, <1>5, <1>8, <1>12 DEF OptionsInv, Keyed, Fits, Asking
<1>13. ASSUME cookie.connected, NEW u \in tasks', u.kind = "rotate", Owns(u)
       PROVE  /\ u.step = "ok" => u.key = server.key
              /\ u.step = "conflict" => u.key # server.key /\ vault.pending.rev < server.rev
  <2>1. CASE u \in tasks
    BY <1>5, <1>8, <1>13, <2>1 DEF OptionsInv, Keyed
  <2>2. CASE u = new /\ t \in tasks
    <3>1. step = "conflict" => t.step = "finalize" /\ t.key # server.key /\ t.rev # server.rev
      BY <1>7
    <3>2. step = "conflict" => t.rev = vault.pending.rev
      BY <1>2, <1>13, <2>2, <3>1 DEF OptionsInv, Runs, Owns
    <3>3. t.rev \in Nat /\ server.rev \in Nat /\ t.rev <= server.rev
      BY <1>2, TaskParts, TypesTell DEF OptionsInv, Runs
    <3> QED BY <1>2, <1>7, <1>13, <2>2, <3>1, <3>2, <3>3
  <2> QED BY <1>4, <2>1, <2>2
<1> QED BY <1>1, <1>6, <1>9, <1>10, <1>11, <1>12, <1>13 DEF Keyed, Owns

\* An answer that is no success of a save or a sign-in leaves what is agreed.
LEMMA AgreedStays ==
    ASSUME OptionsInv, NEW t \in tasks \cup late, t.step \in Asking,
           NEW step, NEW prefs, Fits(t, step, prefs), Answered(t, step, prefs),
           UNCHANGED <<hostvars, local>>, agreed' => agreed,
           server' = server \/ (server'.prefs # None /\ server.prefs # None /\ server'.prefs.style = server.prefs.style)
                            \/ (server'.prefs = None /\ server.prefs = None),
           step = "ok" => t.kind \notin {"save", "login"}
    PROVE  Agreeing'
<1> DEFINE new == Told(t, step, prefs)
<1>1. UNCHANGED <<disturbed, cookie>>
  BY DEF hostvars, local
<1>2. /\ new.kind = t.kind /\ new.step = step /\ IsTask(t)
  BY ToldParts, TypesTell DEF OptionsInv
<1>3. \/ t \in tasks /\ late' = late /\ tasks' = (tasks \ {t}) \cup {new}
      \/ t \notin tasks /\ t \in late /\ late' = late \ {t} /\ tasks' = tasks
  BY AnswerParts DEF OptionsInv
<1> HIDE DEF new
<1>4. SUFFICES ASSUME ~disturbed, agreed PROVE Agreeing'
  BY <1>1 DEF Agreeing
<1>5. \A u \in tasks' : u \in tasks \/ (u = new /\ t \in tasks)
  BY <1>3
<1>6. \A u \in tasks : u.step = "ok" => u \in tasks'
  BY <1>3 DEF Asking
<1>7. t \in tasks => t.kind # "login"
  BY <1>4 DEF OptionsInv, Agreeing, Asking
<1>8. cookie.connected =>
        /\ server'.prefs # None
        /\ server'.prefs.style = cookie.style \/ \E u \in tasks' : u.kind = "save" /\ u.step = "ok"
  BY <1>4, <1>6 DEF OptionsInv, Agreeing
<1>9. \A u \in tasks' : u.kind = "login" => u.step = "ok"
  BY <1>2, <1>4, <1>5, <1>7 DEF OptionsInv, Agreeing
<1>10. \A u \in tasks' : u.kind \in {"save", "login"} /\ u.step = "ok" =>
         server'.prefs # None /\ server'.prefs.style = u.prefs.style
  BY <1>2, <1>4, <1>5 DEF OptionsInv, Agreeing
<1> QED BY <1>1, <1>8, <1>9, <1>10 DEF Agreeing

\* Preferences that are set put every rotation on its way out of date.
LEMMA KeysRevised ==
    ASSUME OptionsInv, disturbed' = disturbed, UNCHANGED <<cookie, stored, vault, session>>,
           server'.key = server.key, server'.rev = server.rev + 1, ~disturbed => PreferencesOpen',
           late' \subseteq late,
           \A u \in tasks' :
             \/ u \in tasks
             \/ u.step \in {"ok", "error"} /\ \E w \in tasks : w.kind = u.kind /\ w.key = u.key /\ w.step \in Asking
                                                              /\ u.kind # "rotate",
           \A w \in tasks : w.kind = "login" => \E u \in tasks' : u.kind = "login"
    PROVE  Keyed'
<1>1. SUFFICES ASSUME ~disturbed, session = "current" PROVE Keyed'
  BY DEF Keyed
<1>2. BrowserHasKey'
  BY <1>1 DEF OptionsInv, Keyed, BrowserHasKey
<1>3. \A u \in tasks' \cup late' : u.kind = "login" /\ u.step # "denied" =>
        u.key = server'.key /\ (u.step \in {"get", "set"} => u.prefs.key = server'.key)
  BY <1>1 DEF OptionsInv, Keyed, Asking
<1>4. \A u \in tasks' : u.kind = "save" /\ u.step = "sent" => u.prefs.key = server'.key
  BY <1>1 DEF OptionsInv, Keyed
<1>5. \A u \in tasks' \cup late' : u.kind = "rotate" /\ u.step = "finalize" => u.rev < server'.rev
  <2>1. \A u \in tasks \cup late : u.rev \in Nat /\ u.rev <= server.rev
    BY TaskParts, TypesTell DEF OptionsInv, Runs
  <2> QED BY <2>1, TypesTell DEF OptionsInv
<1>6. ASSUME cookie.connected, NEW u \in tasks', u.kind = "rotate", Owns(u)
      PROVE  /\ u.step = "ok" => u.key = server'.key
             /\ u.step = "conflict" => u.key # server'.key /\ vault.pending.rev < server'.rev
  <2>1. u \in tasks /\ server.rev \in Nat /\ vault.pending.rev \in Nat
    BY <1>6, TypesTell DEF OptionsInv, Owns
  <2> QED BY <1>1, <1>6, <2>1 DEF OptionsInv, Keyed
<1> QED BY <1>1, <1>2, <1>3, <1>4, <1>5, <1>6 DEF Keyed, Owns

LEMMA StepSet ==
    ASSUME OptionsInv, NEW t \in tasks \cup late, accountPreferences_set(t),
           UNCHANGED <<hostvars, local, flags, minted>>
    PROVE  OptionsInv'
<1>1. PICK step \in {"ok", "error"} :
        /\ Answered(t, step, t.prefs) /\ faults' \in Nat
        /\ step = "ok" => agreed' = (t \in tasks)
        /\ step = "error" => agreed' = FALSE
  <2>1. faults \in Nat
    BY DEF OptionsInv, OptionsTypeOK
  <2>2. CASE Answered(t, "ok", t.prefs) /\ agreed' = (t \in tasks) /\ UNCHANGED faults
    BY <2>1, <2>2
  <2>3. CASE Fault /\ Answered(t, "error", t.prefs) /\ agreed' = FALSE
    BY <2>1, <2>3 DEF Fault
  <2> QED BY <2>2, <2>3 DEF accountPreferences_set
<1>2. /\ t.step \in {"sent", "set"} /\ t.kind \in {"save", "login"} /\ session = "current" /\ session' = session
      /\ server' = Revised(t.prefs) /\ t.step \in Asking
  BY DEF accountPreferences_set, Asking
<1>3. IsTask(t) /\ t.prefs \in Prefs /\ t.prefs # None /\ t.prefs.key \in Nat
  BY <1>2, TypesTell, TaskParts DEF OptionsInv
<1>4. Fits(t, step, t.prefs)
  BY <1>1, <1>2, <1>3 DEF Fits, StepsOf, Asking
<1>5. /\ server' \in [key : Nat, rev : Nat, prefs : Prefs \cup {None}] /\ server.rev <= server'.rev
      /\ server'.key = server.key /\ server'.rev = server.rev + 1 /\ server'.prefs = t.prefs
  <2>1. server \in [key : Nat, rev : Nat, prefs : Prefs \cup {None}]
    BY DEF OptionsInv, OptionsTypeOK
  <2>2. server.rev \in Nat
    BY <2>1
  <2>3. server' = [server EXCEPT !.prefs = t.prefs, !.rev = server.rev + 1]
    BY <1>2 DEF Revised
  <2>4. server'.key = server.key /\ server'.rev = server.rev + 1 /\ server'.prefs = t.prefs
    BY <2>1, <2>3
  <2>5. server' \in [key : Nat, rev : Nat, prefs : Prefs \cup {None}]
    <3>1. server' = [key |-> server.key, rev |-> server.rev + 1, prefs |-> t.prefs]
      BY <2>1, <2>3
    <3>2. server.key \in Nat /\ server.rev + 1 \in Nat /\ t.prefs \in Prefs \cup {None}
      BY <1>3, <2>1, <2>2
    <3> QED BY <3>1, <3>2
  <2> QED BY <2>2, <2>4, <2>5
<1>6. OptionsTypeOK' /\ Signed' /\ Runs' /\ Attended'
  <2>1. session' \in {"current", "behind", "none"}
    BY <1>2
  <2>2. agreed' \in BOOLEAN
    <3>1. CASE step = "ok"
      BY <1>1, <3>1
    <3>2. CASE step = "error"
      BY <1>1, <3>2
    <3> QED BY <3>1, <3>2
  <2> QED BY <1>1, <1>2, <1>4, <1>5, <2>1, <2>2, AnswerKeeps
<1> DEFINE new == Told(t, step, t.prefs)
<1>7. /\ new.kind = t.kind /\ new.key = t.key /\ new.step = step /\ new.prefs = t.prefs
  BY <1>3, <1>4, ToldParts DEF OptionsInv
<1>8. \/ t \in tasks /\ late' = late /\ tasks' = (tasks \ {t}) \cup {new}
      \/ t \notin tasks /\ t \in late /\ late' = late \ {t} /\ tasks' = tasks
  BY <1>1, <1>4, AnswerParts DEF OptionsInv
<1> HIDE DEF new
<1>9. UNCHANGED <<dialog, disturbed, cookie, stored, vault>>
  BY DEF hostvars, local
<1>10. Keyed'
  <2>1. ~disturbed => t.prefs.key = server.key
    <3>1. CASE t.kind = "save"
      BY <1>2, <1>3, <3>1, TaskParts DEF OptionsInv, Keyed, Attended
    <3>2. CASE t.kind = "login"
      BY <1>2, <1>3, <3>2, TaskParts DEF OptionsInv, Keyed
    <3> QED BY <1>2, <3>1, <3>2
  <2>2. ~disturbed => PreferencesOpen'
    BY <1>5, <2>1 DEF PreferencesOpen
  <2>3. \A u \in tasks' :
             \/ u \in tasks
             \/ u.step \in {"ok", "error"} /\ \E w \in tasks : w.kind = u.kind /\ w.key = u.key /\ w.step \in Asking
                                                              /\ u.kind # "rotate"
    BY <1>1, <1>2, <1>7, <1>8
  <2>4. \A w \in tasks : w.kind = "login" => \E u \in tasks' : u.kind = "login"
    BY <1>7, <1>8
  <2>5. late' \subseteq late
    BY <1>8
  <2> QED BY <1>2, <1>5, <1>9, <2>2, <2>3, <2>4, <2>5, KeysRevised
<1>11. Agreeing'
  <2>1. SUFFICES ASSUME ~disturbed, step = "ok", t \in tasks PROVE Agreeing'
    BY <1>1, <1>9 DEF Agreeing
  <2>2. \A u \in tasks' : u.kind \in {"save", "login"} => u = new
    BY <1>2, <1>8, <2>1 DEF OptionsInv, Attended, Signed
  <2>3. cookie.connected => t.kind = "save"
    BY <1>2, <2>1 DEF OptionsInv, Signed
  <2> QED BY <1>3, <1>5, <1>7, <1>8, <1>9, <2>1, <2>2, <2>3 DEF Agreeing
<1> QED BY <1>6, <1>10, <1>11 DEF OptionsInv

LEMMA StepGet ==
    ASSUME OptionsInv, NEW t \in tasks \cup late, accountPreferences_get(t),
           UNCHANGED <<hostvars, local, flags, minted>>
    PROVE  OptionsInv'
<1>1. /\ t.step = "get" /\ session = "current" /\ UNCHANGED <<server, session, faults>> /\ t.step \in Asking
      /\ IsTask(t) /\ t.kind = "login" /\ t.prefs \in Prefs
  BY TypesTell, TaskParts DEF accountPreferences_get, Asking, OptionsInv
<1>2. /\ server \in [key : Nat, rev : Nat, prefs : Prefs \cup {None}] /\ server.rev <= server'.rev
      /\ session' \in {"current", "behind", "none"} /\ faults' \in Nat
  BY <1>1, TypesTell DEF OptionsInv, OptionsTypeOK
<1>3. PICK step \in {"set", "ok", "error"}, prefs \in Prefs :
        /\ Answered(t, step, prefs)
        /\ step = "set" => prefs = t.prefs /\ agreed' = agreed
        /\ step = "ok" => server.prefs # None /\ prefs = server.prefs /\ agreed' = (t \in tasks)
        /\ step = "error" => agreed' = FALSE
  BY <1>1, TypesTell DEF accountPreferences_get, OptionsInv
<1>4. Fits(t, step, prefs)
  BY <1>1, <1>3 DEF Fits, StepsOf, Asking
<1>5. OptionsTypeOK' /\ Signed' /\ Runs' /\ Attended'
  <2>1. agreed' \in BOOLEAN
    <3>1. CASE step = "ok"
      BY <1>3, <3>1
    <3>2. CASE step = "error"
      BY <1>3, <3>2
    <3>3. CASE step = "set"
      BY <1>3, <3>3 DEF OptionsInv, OptionsTypeOK
    <3> QED BY <3>1, <3>2, <3>3
  <2> QED BY <1>1, <1>2, <1>3, <1>4, <2>1, AnswerKeeps
<1>6. UNCHANGED <<dialog, disturbed, cookie, stored, vault>>
  BY DEF hostvars, local
<1>7. Keyed'
  <2>1. CASE disturbed
    BY <1>6, <2>1 DEF Keyed
  <2>2. CASE ~disturbed
    <3>1. t.prefs.key = server.key
      BY <1>1, <2>2 DEF OptionsInv, Keyed
    <3>2. step \in {"get", "set"} => prefs.key = server.key
      BY <1>3, <3>1
    <3> QED BY <1>1, <1>3, <1>4, <3>2, KeysStay
  <2> QED BY <2>1, <2>2
<1>8. Agreeing'
  <2>1. CASE step # "ok"
    BY <1>1, <1>3, <1>4, <2>1, AgreedStays
  <2>2. CASE step = "ok" /\ t \in tasks /\ ~disturbed
    <3> DEFINE new == Told(t, step, prefs)
    <3>1. new.kind = "login" /\ new.step = "ok" /\ new.prefs = server.prefs
      BY <1>1, <1>3, <1>4, <2>2, ToldParts DEF OptionsInv
    <3>2. tasks' = (tasks \ {t}) \cup {new}
      BY <1>3, <1>4, <2>2, AnswerParts DEF OptionsInv
    <3> HIDE DEF new
    <3>3. ~cookie.connected /\ \A u \in tasks : u.kind \in {"save", "login"} => u = t
      BY <1>1, <2>2 DEF OptionsInv, Attended, Signed
    <3> QED BY <1>1, <1>3, <1>6, <2>2, <3>1, <3>2, <3>3 DEF Agreeing
  <2>3. CASE step = "ok" /\ (t \notin tasks \/ disturbed)
    BY <1>3, <1>6, <2>3 DEF Agreeing
  <2> QED BY <2>1, <2>2, <2>3
<1> QED BY <1>5, <1>7, <1>8 DEF OptionsInv

LEMMA RekeyedParts ==
    ASSUME OptionsTypeOK, NEW key \in Nat
    PROVE  LET after == Rekeyed(key)
           IN /\ after \in [key : Nat, rev : Nat, prefs : Prefs \cup {None}]
              /\ after.key = key /\ after.rev = server.rev + 1
              /\ after.prefs # None => after.prefs.key = key
              /\ \/ after.prefs = None /\ server.prefs = None
                 \/ /\ server.prefs # None /\ after.prefs # None
                    /\ after.prefs.style = server.prefs.style
<1>1. server.rev \in Nat /\ server.rev + 1 \in Nat
  BY TypesTell
<1>2. CASE server.prefs = None
  BY <1>1, <1>2 DEF Rekeyed
<1>3. CASE server.prefs # None
  <2>1. /\ Sealed(key, server.prefs.style) \in Prefs /\ Sealed(key, server.prefs.style) # None
        /\ Sealed(key, server.prefs.style).key = key
        /\ Sealed(key, server.prefs.style).style = server.prefs.style
    BY <1>3, TypesTell, NoneIsNothing DEF Sealed, Prefs
  <2> QED BY <1>1, <1>3, <2>1 DEF Rekeyed
<1> QED BY <1>2, <1>3

\* A rotation that is applied.
LEMMA StepRekey ==
    ASSUME OptionsInv, NEW t \in tasks \cup late, t.step = "finalize", t.kind = "rotate", session = "current",
           server.key # t.key, server.rev = t.rev, server' = Rekeyed(t.key),
           NEW step \in {"ok", "error"}, Answered(t, step, t.prefs), faults' \in Nat,
           UNCHANGED <<hostvars, local, flags, minted, session, agreed>>
    PROVE  OptionsInv'
<1>1. /\ UNCHANGED <<dialog, disturbed, cookie, stored, vault>> /\ IsTask(t) /\ t.key \in Nat
      /\ t.step \in Asking /\ Rotating(t)
  BY TypesTell, TaskParts DEF hostvars, local, OptionsInv, Asking, Rotating
<1>2. Fits(t, step, t.prefs)
  BY <1>1, TaskParts DEF Fits, StepsOf, Asking
<1>3. /\ server' \in [key : Nat, rev : Nat, prefs : Prefs \cup {None}]
      /\ server'.key = t.key /\ server'.rev = server.rev + 1
      /\ server'.prefs # None => server'.prefs.key = t.key
      /\ \/ server'.prefs = None /\ server.prefs = None
         \/ /\ server.prefs # None /\ server'.prefs # None
            /\ server'.prefs.style = server.prefs.style
  BY <1>1, RekeyedParts DEF OptionsInv
<1>4. server.rev \in Nat /\ server.rev < server'.rev
  BY <1>3, TypesTell DEF OptionsInv
<1>5. OptionsTypeOK' /\ Signed' /\ Runs' /\ Attended'
  <2>1. session' \in {"current", "behind", "none"} /\ agreed' \in BOOLEAN /\ server.rev <= server'.rev
    BY <1>3, <1>4 DEF OptionsInv, OptionsTypeOK
  <2> QED BY <1>1, <1>2, <1>3, <2>1, AnswerKeeps
<1>6. Agreeing'
  <2>1. step = "ok" => t.kind \notin {"save", "login"}
    OBVIOUS
  <2> QED BY <1>1, <1>2, <1>3, <2>1, AgreedStays
<1> DEFINE new == Told(t, step, t.prefs)
<1>7. /\ new.kind = "rotate" /\ new.key = t.key /\ new.step = step
  BY <1>1, <1>2, ToldParts DEF OptionsInv
<1>8. \/ t \in tasks /\ late' = late /\ tasks' = (tasks \ {t}) \cup {new}
      \/ t \notin tasks /\ t \in late /\ late' = late \ {t} /\ tasks' = tasks
  BY <1>2, AnswerParts DEF OptionsInv
<1> HIDE DEF new
<1>9. /\ \A u \in tasks' : u \in tasks \/ (u = new /\ t \in tasks)
      /\ late' \subseteq late
  BY <1>8
<1>10. Keyed'
  <2>1. SUFFICES ASSUME ~disturbed PROVE Keyed'
    BY <1>1 DEF Keyed
  <2>2. cookie.connected => /\ vault.pending # None /\ t.key = vault.pending.key /\ t.rev = vault.pending.rev
                            /\ stored = vault
    BY <1>4, <2>1 DEF OptionsInv, Keyed, Signed
  <2>3. PreferencesOpen'
    BY <1>3 DEF PreferencesOpen
  <2>4. BrowserHasKey'
    <3>1. cookie.connected => stored # None
      BY <2>2 DEF OptionsInv, Signed
    <3> QED BY <1>1, <1>3, <2>2, <3>1 DEF BrowserHasKey
  <2>5. \A u \in tasks' \cup late' : u.kind # "login"
    <3>1. \A u \in tasks \cup late : u.kind # "login"
      BY <1>1 DEF OptionsInv, Signed
    <3> QED BY <1>7, <1>9, <3>1
  <2>6. \A u \in tasks' : u.kind # "save"
    <3>1. \A u \in tasks : u.kind = "save" => cookie.connected /\ vault.pending = None
      BY <2>1 DEF OptionsInv, Attended, Shown, Signed
    <3> QED BY <1>7, <1>9, <2>2, <3>1
  <2>7. \A u \in tasks' \cup late' : u.kind = "rotate" /\ u.step = "finalize" => u.rev < server'.rev
    <3>1. \A u \in tasks \cup late : u.rev \in Nat /\ u.rev <= server.rev
      BY TaskParts, TypesTell DEF OptionsInv, Runs
    <3> QED BY <1>3, <1>4, <1>7, <1>9, <3>1
  <2>8. ASSUME cookie.connected, NEW u \in tasks', u.kind = "rotate", Owns(u)
        PROVE  /\ u.step = "ok" => u.key = server'.key
               /\ u.step # "conflict"
    <3>1. u.key = t.key
      BY <2>2, <2>8 DEF Owns
    <3>2. u \in tasks => u.step # "conflict"
      BY <1>4, <2>1, <2>2, <2>8 DEF OptionsInv, Keyed
    <3> QED BY <1>3, <1>7, <1>9, <3>1, <3>2
  <2> QED BY <1>1, <2>1, <2>3, <2>4, <2>5, <2>6, <2>7, <2>8 DEF Keyed, Owns
<1> QED BY <1>5, <1>6, <1>10 DEF OptionsInv

\* An answer that changes nothing on the server.
LEMMA StepTold ==
    ASSUME OptionsInv, NEW t \in tasks \cup late, t.step \in Asking,
           NEW step, NEW prefs, Fits(t, step, prefs), Answered(t, step, prefs), step \notin {"get", "set"},
           UNCHANGED <<hostvars, local, flags, minted, server, agreed>>,
           session' \in {session, "none"}, faults' \in Nat,
           step = "ok" => t.kind \notin {"save", "login"},
           t.kind = "rotate" /\ step = "ok" => t.key = server.key,
           step = "conflict" => t.step = "finalize" /\ t.key # server.key /\ t.rev # server.rev
    PROVE  OptionsInv'
<1>1. /\ server' \in [key : Nat, rev : Nat, prefs : Prefs \cup {None}] /\ server.rev <= server'.rev
      /\ session' \in {"current", "behind", "none"} /\ agreed' \in BOOLEAN
  BY TypesTell DEF OptionsInv, OptionsTypeOK
<1>2. OptionsTypeOK' /\ Signed' /\ Runs' /\ Attended'
  BY <1>1, AnswerKeeps
<1>3. Keyed'
  BY KeysStay
<1>4. Agreeing'
  BY AgreedStays
<1> QED BY <1>2, <1>3, <1>4 DEF OptionsInv

LEMMA StepServe ==
    ASSUME OptionsInv, NEW t \in tasks \cup late, Serve(t)
    PROVE  OptionsInv'
<1>1. /\ t.step \in Asking /\ UNCHANGED <<hostvars, local, flags, minted>> /\ IsTask(t)
  BY TypesTell DEF Serve, OptionsInv
<1>2. faults \in Nat /\ (Fault => faults' \in Nat)
  BY DEF OptionsInv, OptionsTypeOK, Fault
<1>3. t.prefs \in Prefs \cup {None} /\ (t.kind \in {"save", "login"} => t.prefs \in Prefs)
  BY <1>1, TaskParts
<1>4. CASE t.kind # "logout" /\ Refuse(t)
  <2>1. Fits(t, "denied", t.prefs)
    BY <1>1, <1>3, <1>4, TaskParts DEF Fits, StepsOf, Asking
  <2> QED BY <1>1, <1>2, <1>4, <2>1, StepTold DEF Refuse
<1>5. CASE t.kind # "logout" /\ Miss(t)
  <2>1. Fits(t, "error", t.prefs)
    BY <1>1, <1>3, <1>5, TaskParts DEF Fits, StepsOf, Asking
  <2> QED BY <1>1, <1>2, <1>5, <2>1, StepTold DEF Miss
<1>6. CASE accountPreferences_set(t)
  BY <1>1, <1>6, StepSet
<1>7. CASE accountPreferences_get(t)
  BY <1>1, <1>7, StepGet
<1>8. CASE passwordRotation_prepare(t)
  <2>1. t.kind = "rotate" /\ t.step = "prepare"
    BY <1>1, <1>8, TaskParts DEF passwordRotation_prepare
  <2>2. Fits(t, "prepared", server.prefs)
    BY <2>1, TypesTell DEF Fits, StepsOf, Asking, OptionsInv
  <2> QED BY <1>1, <1>2, <1>8, <2>1, <2>2, StepTold DEF passwordRotation_prepare
<1>9. CASE passwordRotation_finalize(t)
  <2>1. t.kind = "rotate" /\ t.step = "finalize" /\ session = "current" /\ UNCHANGED <<session, agreed>>
    BY <1>1, <1>9, TaskParts DEF passwordRotation_finalize
  <2>2. Fits(t, "ok", t.prefs) /\ Fits(t, "conflict", t.prefs)
    BY <1>3, <2>1 DEF Fits, StepsOf, Asking
  <2>3. CASE server.key = t.key /\ Answered(t, "ok", t.prefs) /\ UNCHANGED <<server, faults>>
    BY <1>1, <1>2, <2>1, <2>2, <2>3, StepTold
  <2>4. CASE server.key # t.key /\ server.rev # t.rev /\ Answered(t, "conflict", t.prefs) /\ UNCHANGED <<server, faults>>
    BY <1>1, <1>2, <2>1, <2>2, <2>4, StepTold
  <2>5. CASE /\ server.key # t.key /\ server.rev = t.rev /\ server' = Rekeyed(t.key)
             /\ (Answered(t, "ok", t.prefs) /\ UNCHANGED faults) \/ (Fault /\ Answered(t, "error", t.prefs))
    <3>1. PICK step \in {"ok", "error"} : Answered(t, step, t.prefs) /\ faults' \in Nat
      BY <1>2, <2>5
    <3> QED BY <1>1, <2>1, <2>5, <3>1, StepRekey
  <2> QED BY <1>9, <2>3, <2>4, <2>5 DEF passwordRotation_finalize
<1>10. CASE user_logout(t)
  <2>1. Fits(t, "ok", t.prefs)
    BY <1>3, <1>10 DEF Fits, StepsOf, Asking, user_logout
  <2>2. session' \in {session, "none"} /\ faults' \in Nat
    BY <1>2, <1>10 DEF user_logout
  <2> QED BY <1>1, <1>10, <2>1, <2>2, StepTold DEF user_logout
<1> QED BY <1>4, <1>5, <1>6, <1>7, <1>8, <1>9, <1>10 DEF Serve

-----------------------------------------------------------------------------
(* What happens outside the browser. *)

LEMMA OutsideKeeps ==
    ASSUME OptionsInv, UNCHANGED <<hostvars, local, tasks, late, flags, faults>>,
           server' \in [key : Nat, rev : Nat, prefs : Prefs \cup {None}], server.rev <= server'.rev,
           session' \in {"current", "behind", "none"}, minted' \in Nat, agreed' \in BOOLEAN
    PROVE  OptionsTypeOK' /\ Signed' /\ Runs' /\ Attended'
<1>1. UNCHANGED <<dialog, timer, opened, disturbed, cookie, preview, stored, vault, running, saving, succeeded>>
  BY DEF hostvars, local, flags
<1>2. OptionsTypeOK'
  BY <1>1 DEF OptionsInv, OptionsTypeOK
<1>3. Signed'
  BY <1>1 DEF OptionsInv, Signed
<1>4. Runs'
  <2>1. server.rev \in Nat /\ server'.rev \in Nat
    BY TypesTell DEF OptionsInv
  <2>2. \A u \in tasks' \cup late' : u.rev <= server'.rev
    <3>1. \A u \in tasks \cup late : u.rev \in Nat /\ u.rev <= server.rev
      BY TaskParts, TypesTell DEF OptionsInv, Runs
    <3> QED BY <2>1, <3>1
  <2>3. vault # None /\ vault.pending # None => vault.pending.rev <= server'.rev
    BY <2>1, TypesTell DEF OptionsInv, Runs
  <2> QED BY <1>1, <2>2, <2>3 DEF OptionsInv, Runs
<1>5. Attended'
  BY <1>1 DEF OptionsInv, Attended, PreviewGoesWithDialog, Shown
<1> QED BY <1>2, <1>3, <1>4, <1>5

LEMMA StepOutside ==
    ASSUME OptionsInv, SessionEnds \/ (\E style \in Styles : OtherSets(style)) \/ OtherRotates
    PROVE  OptionsInv'
<1>1. UNCHANGED <<hostvars, local, tasks, late, flags, faults>>
  BY DEF SessionEnds, OtherSets, OtherRotates
<1>2. UNCHANGED <<dialog, timer, opened, disturbed, cookie, preview, stored, vault, running, saving, succeeded>>
  BY <1>1 DEF hostvars, local, flags
<1>3. /\ server \in [key : Nat, rev : Nat, prefs : Prefs \cup {None}] /\ server.key \in Nat /\ server.rev \in Nat
      /\ session \in {"current", "behind", "none"} /\ minted \in Nat /\ agreed \in BOOLEAN
  BY TypesTell DEF OptionsInv, OptionsTypeOK
<1>4. CASE SessionEnds
  <2>1. session' = "none" /\ UNCHANGED <<server, minted, agreed>>
    BY <1>4 DEF SessionEnds
  <2>2. OptionsTypeOK' /\ Signed' /\ Runs' /\ Attended'
    BY <1>1, <1>3, <2>1, OutsideKeeps
  <2>3. Keyed'
    BY <1>2, <2>1 DEF OptionsInv, Keyed, PreferencesOpen
  <2>4. Agreeing'
    BY <1>1, <1>2, <2>1 DEF OptionsInv, Agreeing
  <2> QED BY <2>2, <2>3, <2>4 DEF OptionsInv
<1>5. ASSUME NEW style \in Styles, OtherSets(style)
      PROVE  OptionsInv'
  <2> DEFINE prefs == Sealed(server.key, style)
  <2>1. prefs \in Prefs /\ prefs.key = server.key
    BY <1>3 DEF Sealed, Prefs
  <2>2. server' = [server EXCEPT !.prefs = prefs, !.rev = server.rev + 1] /\ agreed' = FALSE /\ UNCHANGED <<session, minted>>
    BY <1>5 DEF OtherSets, Revised
  <2> HIDE DEF prefs
  <2>3. server' = [key |-> server.key, rev |-> server.rev + 1, prefs |-> prefs]
    BY <1>3, <2>2
  <2>4. server.rev + 1 \in Nat /\ server.rev <= server.rev + 1 /\ prefs \in Prefs \cup {None}
    BY <1>3, <2>1
  <2>5. OptionsTypeOK' /\ Signed' /\ Runs' /\ Attended'
    BY <1>1, <1>3, <2>2, <2>3, <2>4, OutsideKeeps
  <2>6. Keyed'
    <3>1. PreferencesOpen'
      BY <2>1, <2>3 DEF PreferencesOpen
    <3> QED BY <1>1, <1>2, <2>2, <2>3, <3>1, KeysRevised
  <2>7. Agreeing'
    BY <2>2 DEF Agreeing
  <2> QED BY <2>5, <2>6, <2>7 DEF OptionsInv
<1>6. CASE OtherRotates
  <2>1. /\ minted' = minted + 1 /\ server' = Rekeyed(minted') /\ agreed' = agreed
        /\ session' = IF session = "current" THEN "behind" ELSE session
    BY <1>6 DEF OtherRotates
  <2>2. minted' \in Nat
    BY <1>3, <2>1
  <2>3. /\ server' \in [key : Nat, rev : Nat, prefs : Prefs \cup {None}]
        /\ server'.key = minted' /\ server'.rev = server.rev + 1
        /\ server'.prefs # None => server'.prefs.key = minted'
        /\ \/ server'.prefs = None /\ server.prefs = None
           \/ /\ server.prefs # None /\ server'.prefs # None
              /\ server'.prefs.style = server.prefs.style
    <3> HIDE DEF Rekeyed
    <3> DEFINE key == minted'
    <3>1. key \in Nat /\ server' = Rekeyed(key)
      BY <2>1, <2>2
    <3> HIDE DEF key
    <3>2. /\ server' \in [key : Nat, rev : Nat, prefs : Prefs \cup {None}]
          /\ server'.key = key /\ server'.rev = server.rev + 1
          /\ server'.prefs # None => server'.prefs.key = key
          /\ \/ server'.prefs = None /\ server.prefs = None
             \/ /\ server.prefs # None /\ server'.prefs # None
                /\ server'.prefs.style = server.prefs.style
      BY <3>1, RekeyedParts DEF OptionsInv
    <3> QED BY <3>2 DEF key
  <2>4. session' \in {"behind", "none"} /\ server.rev <= server'.rev
    BY <1>3, <2>1, <2>3
  <2>5. OptionsTypeOK' /\ Signed' /\ Runs' /\ Attended'
    BY <1>1, <1>3, <2>1, <2>2, <2>3, <2>4, OutsideKeeps
  <2>6. Keyed'
    BY <2>3, <2>4 DEF Keyed, PreferencesOpen
  <2>7. Agreeing'
    BY <1>1, <1>2, <2>1, <2>3 DEF OptionsInv, Agreeing
  <2> QED BY <2>5, <2>6, <2>7 DEF OptionsInv
<1> QED BY <1>4, <1>5, <1>6

-----------------------------------------------------------------------------
(* The dialogs. *)

LEMMA DialogKeeps ==
    ASSUME OptionsInv, UNCHANGED <<server, session, cookie, stored, vault, tasks, late, flags, minted, faults, agreed>>,
           dialog' # NoDialog => dialog' \in OptionsDialog /\ cookie.connected,
           timer' \in BOOLEAN, opened' \in 0 .. MaxDialogs, disturbed' \in BOOLEAN, disturbed => disturbed',
           preview' \in Styles \cup {None}, Attended'
    PROVE  OptionsInv'
<1>1. UNCHANGED <<running, saving, succeeded>>
  BY DEF flags
<1>2. OptionsTypeOK'
  BY <1>1 DEF OptionsInv, OptionsTypeOK
<1>3. Signed'
  BY DEF OptionsInv, Signed
<1>4. Runs'
  BY <1>1 DEF OptionsInv, Runs
<1>5. Keyed'
  BY DEF OptionsInv, Keyed, PreferencesOpen, BrowserHasKey, Owns
<1>6. Agreeing'
  BY DEF OptionsInv, Agreeing
<1> QED BY <1>2, <1>3, <1>4, <1>5, <1>6 DEF OptionsInv

LEMMA StepDialog ==
    ASSUME OptionsInv, openFn \/ OverOptions \/ OptionsPreferences \/ OptionsClose \/ OptionsClosed
    PROVE  OptionsInv'
<1>1. UNCHANGED <<server, session, cookie, stored, vault, tasks, late, flags, minted, faults, agreed>>
  BY DEF openFn, OverOptions, OptionsPreferences, OptionsClose, OptionsClosed, hostvars, local
<1>2. /\ dialog # NoDialog => dialog \in OptionsDialog /\ cookie.connected
      /\ timer \in BOOLEAN /\ opened \in 0 .. MaxDialogs /\ opened \in Nat /\ disturbed \in BOOLEAN
      /\ preview \in Styles \cup {None} /\ cookie.style \in Styles /\ None \notin Styles /\ MaxDialogs \in Nat
  BY TypesTell, NoneIsNothing DEF OptionsInv, OptionsTypeOK, Signed
<1>3. ASSUME NEW kind \in {"options", "other"}, opened < MaxDialogs
      PROVE  LET d == NewDialog(kind, None, None)
             IN /\ d \in OptionsDialog /\ d # NoDialog /\ d.kind = kind /\ d.closing = FALSE
                /\ opened + 1 \in 0 .. MaxDialogs
  <2>1. opened + 1 \in 1 .. MaxDialogs
    BY <1>2, <1>3
  <2>2. NewDialog(kind, None, None) \in OptionsDialog
    BY <2>1 DEF NewDialog, OptionsDialog
  <2>3. /\ NewDialog(kind, None, None).kind = kind
        /\ NewDialog(kind, None, None).closing = FALSE
    BY DEF NewDialog
  <2>4. NewDialog(kind, None, None) # NoDialog
    BY <2>2, NoneIsNothing
  <2>5. opened + 1 \in 0 .. MaxDialogs
    BY <2>1
  <2> QED BY <2>2, <2>3, <2>4, <2>5
<1>4. CASE openFn
  <2>1. /\ cookie.connected /\ dialog = NoDialog /\ opened < MaxDialogs /\ opened' = opened + 1 /\ timer' = timer
        /\ dialog' = NewDialog("options", None, None) /\ preview' = cookie.style
        /\ disturbed' = (disturbed \/ timer \/ \E t \in tasks : t.kind = "logout")
    BY <1>4 DEF openFn, Opens, open, preferencesPreview_begin
  <2>2. dialog' \in OptionsDialog /\ dialog' # NoDialog /\ dialog'.kind = "options" /\ dialog'.closing = FALSE
    BY <1>3, <2>1
  <2>3. disturbed' \in BOOLEAN /\ (disturbed => disturbed')
    BY <1>2, <2>1
  <2>4. Attended'
    <3>1. SUFFICES ASSUME ~disturbed' PROVE Attended'
      BY DEF Attended
    <3>2. ~disturbed /\ ~timer /\ \A t \in tasks : t.kind # "logout"
      BY <2>1, <3>1
    <3>3. PreviewGoesWithDialog'
      BY <1>2, <2>1, <2>2 DEF PreviewGoesWithDialog, Shown
    <3>4. \A t \in tasks : t.kind # "save"
      BY <2>1, <3>2 DEF OptionsInv, Attended, Shown
    <3> QED BY <1>1, <2>1, <3>2, <3>3, <3>4 DEF OptionsInv, Attended
  <2> QED BY <1>1, <1>2, <1>3, <2>1, <2>2, <2>3, <2>4, DialogKeeps
<1>5. CASE OverOptions
  <2>1. /\ cookie.connected /\ opened < MaxDialogs /\ opened' = opened + 1 /\ timer' = timer
        /\ dialog' = NewDialog("other", None, None) /\ preview' = preview
        /\ disturbed' = (disturbed \/ dialog # NoDialog \/ timer)
    BY <1>5 DEF OverOptions, Intrudes, Opens, open, local
  <2>2. dialog' \in OptionsDialog /\ dialog'.kind = "other"
    BY <1>3, <2>1
  <2>3. disturbed' \in BOOLEAN /\ (disturbed => disturbed')
    BY <1>2, <2>1
  <2>4. Attended'
    <3>1. SUFFICES ASSUME ~disturbed' PROVE Attended'
      BY DEF Attended
    <3>2. ~disturbed /\ ~timer /\ dialog = NoDialog
      BY <2>1, <3>1
    <3>3. PreviewGoesWithDialog' /\ ~Shown'
      BY <2>1, <2>2, <3>2 DEF OptionsInv, Attended, PreviewGoesWithDialog, Shown
    <3>4. \A t \in tasks : t.kind # "save"
      BY <3>2 DEF OptionsInv, Attended, Shown
    <3> QED BY <1>1, <2>1, <3>2, <3>3, <3>4 DEF OptionsInv, Attended
  <2> QED BY <1>1, <1>2, <1>3, <2>1, <2>2, <2>3, <2>4, DialogKeeps
<1>6. CASE OptionsPreferences
  <2>1. /\ UNCHANGED <<dialog, timer, opened, disturbed>> /\ preview # None /\ preview' \in Styles
        /\ preview' # None
    BY <1>2, <1>6 DEF OptionsPreferences, preferencesPreview_set, hostvars
  <2>2. Attended'
    BY <1>1, <2>1 DEF OptionsInv, Attended, PreviewGoesWithDialog, Shown, flags
  <2> QED BY <1>1, <1>2, <2>1, <2>2, DialogKeeps
<1>7. CASE OptionsClose
  <2>1. /\ dialog # NoDialog /\ ~timer /\ optionsCanClose(dialog) /\ timer' = TRUE
        /\ dialog' = [dialog EXCEPT !.closing = TRUE] /\ preview' = IF Shown THEN None ELSE preview
        /\ UNCHANGED <<opened, disturbed>>
    BY <1>7 DEF OptionsClose, Responds, innerAnimateClose
  <2>2. dialog' \in OptionsDialog /\ dialog'.closing = TRUE /\ dialog'.kind = dialog.kind
    BY <1>2, <2>1 DEF OptionsDialog
  <2>3. Attended'
    <3>1. SUFFICES ASSUME ~disturbed PROVE Attended'
      BY <2>1 DEF Attended
    <3>2. PreviewGoesWithDialog'
      BY <2>1, <2>2, <3>1 DEF OptionsInv, Attended, PreviewGoesWithDialog, Shown
    <3>3. \A t \in tasks : t.kind # "save"
      BY <2>1, <3>1 DEF OptionsInv, Attended, Shown, optionsCanClose
    <3>4. Shown' => Shown
      BY <2>1, <2>2 DEF Shown
    <3> QED BY <1>1, <2>1, <2>2, <3>1, <3>2, <3>3, <3>4 DEF OptionsInv, Attended
  <2> QED BY <1>1, <1>2, <2>1, <2>2, <2>3, DialogKeeps
<1>8. CASE OptionsClosed
  <2>1. timer /\ timer' = FALSE /\ dialog' = NoDialog /\ UNCHANGED <<opened, disturbed, preview>>
    BY <1>8 DEF OptionsClosed, TimerFires, innerClose, local
  <2>2. Attended'
    <3>1. SUFFICES ASSUME ~disturbed PROVE Attended'
      BY <2>1 DEF Attended
    <3>2. PreviewGoesWithDialog' /\ ~Shown'
      BY <2>1, <3>1 DEF OptionsInv, Attended, PreviewGoesWithDialog, Shown
    <3>3. \A t \in tasks : t.kind # "save"
      BY <2>1, <3>1 DEF OptionsInv, Attended
    <3> QED BY <1>1, <2>1, <3>1, <3>2, <3>3 DEF OptionsInv, Attended
  <2> QED BY <1>1, <1>2, <2>1, <2>2, DialogKeeps
<1> QED BY <1>4, <1>5, <1>6, <1>7, <1>8

-----------------------------------------------------------------------------
(* What the user starts. *)

LEMMA NewTask ==
    ASSUME NEW kind \in {"save", "login", "logout", "rotate"}, NEW step \in StepsOf(kind), NEW id \in 0 .. MaxDialogs,
           NEW key \in Nat, NEW prefs \in Prefs \cup {None}, NEW rev \in Nat,
           kind \in {"save", "login"} => prefs \in Prefs
    PROVE  IsTask([kind |-> kind, step |-> step, id |-> id, key |-> key, prefs |-> prefs, rev |-> rev])
<1> DEFINE m == [kind |-> kind, step |-> step, id |-> id, key |-> key, prefs |-> prefs, rev |-> rev]
           steps == UNION {StepsOf(k) : k \in {"save", "login", "logout", "rotate"}}
<1>1. step \in steps
  OBVIOUS
<1> HIDE DEF steps
<1>2. m \in [kind : {"save", "login", "logout", "rotate"}, step : steps, id : 0 .. MaxDialogs,
             key : Nat, prefs : Prefs \cup {None}, rev : Nat]
  BY <1>1
<1>3. m.kind = kind /\ m.step = step /\ m.prefs = prefs
  OBVIOUS
<1> HIDE DEF m
<1>4. IsTask(m)
  BY <1>2, <1>3 DEF IsTask, steps
<1> QED BY <1>4 DEF m

LEMMA TaskAdded ==
    ASSUME OptionsInv, cookie.connected, NEW n, IsTask(n), tasks' = tasks \cup {n},
           UNCHANGED <<hostvars, server, session, local, late, succeeded, minted, faults, agreed>>,
           running' \in BOOLEAN, saving' \subseteq Nat, running => running', Runner(n) => ~running /\ running',
           n.kind # "login", n.step # "ok", n.step # "conflict", n.rev <= server.rev,
           n.kind = "rotate" /\ n.step \in {"prepare", "prepared"} => vault.pending = None,
           n.kind = "rotate" /\ n.step = "finalize" =>
             vault.pending # None /\ n.key = vault.pending.key /\ n.rev = vault.pending.rev,
           ~disturbed /\ session = "current" /\ n.kind = "save" => n.prefs.key = server.key,
           Attended'
    PROVE  OptionsInv'
<1>1. UNCHANGED <<dialog, timer, opened, disturbed, cookie, preview, stored, vault>>
  BY DEF hostvars, local
<1>2. OptionsTypeOK'
  BY <1>1 DEF OptionsInv, OptionsTypeOK
<1>3. \A t \in tasks \cup late : t.kind # "login"
  BY DEF OptionsInv, Signed
<1>4. Signed'
  BY <1>1, <1>3 DEF OptionsInv, Signed
<1>5. Runs'
  <2>1. \A t, u \in tasks' : Runner(t) /\ Runner(u) => t = u
    BY DEF OptionsInv, Runs
  <2>2. \A t \in tasks' : Runner(t) => running'
    BY DEF OptionsInv, Runs
  <2>3. \A t \in tasks' : t.kind = "rotate" /\ vault # None =>
         /\ t.step \in {"prepare", "prepared"} => vault.pending = None
         /\ t.step = "finalize" /\ vault.pending # None =>
              t.key = vault.pending.key /\ t.rev = vault.pending.rev
    BY DEF OptionsInv, Runs
  <2>4. \A t \in tasks' \cup late : t.rev <= server.rev
    BY DEF OptionsInv, Runs
  <2>5. vault # None /\ vault.pending # None => vault.pending.rev <= server.rev
    BY DEF OptionsInv, Runs
  <2> QED BY <1>1, <2>1, <2>2, <2>3, <2>4, <2>5 DEF Runs, Runner
<1>6. Keyed'
  <2>1. SUFFICES ASSUME ~disturbed PROVE Keyed'
    BY <1>1 DEF Keyed
  <2>2. PreferencesOpen'
    BY <2>1 DEF OptionsInv, Keyed, PreferencesOpen
  <2>3. SUFFICES ASSUME session = "current" PROVE Keyed'
    BY <2>2 DEF Keyed
  <2>4. BrowserHasKey'
    BY <1>1, <1>3, <2>1, <2>3 DEF OptionsInv, Keyed, BrowserHasKey
  <2>5. \A t \in tasks' : t.kind = "save" /\ t.step = "sent" => t.prefs.key = server.key
    BY <2>1, <2>3 DEF OptionsInv, Keyed
  <2>6. \A t \in tasks' \cup late : t.kind = "rotate" /\ t.step = "finalize" =>
                     \/ vault.pending # None /\ t.key = vault.pending.key /\ t.rev = vault.pending.rev
                     \/ t.key = server.key
                     \/ t.rev < server.rev
    BY <2>1, <2>3 DEF OptionsInv, Keyed
  <2>7. \A t \in tasks' : t.kind = "rotate" /\ Owns(t) =>
                     /\ t.step = "ok" => t.key = server.key
                     /\ t.step = "conflict" => t.key # server.key /\ vault.pending.rev < server.rev
    BY <2>1, <2>3 DEF OptionsInv, Keyed
  <2> QED BY <1>1, <1>3, <2>2, <2>4, <2>5, <2>6, <2>7 DEF Keyed, Owns
<1>7. Agreeing'
  BY <1>1, <1>3 DEF OptionsInv, Agreeing
<1> QED BY <1>2, <1>4, <1>5, <1>6, <1>7 DEF OptionsInv

LEMMA StepSignOut ==
    ASSUME OptionsInv, SignOut \/ pendingLogout
    PROVE  OptionsInv'
<1>1. UNCHANGED <<dialog, timer, opened, disturbed, cookie, preview, stored, vault>>
  BY DEF SignOut, pendingLogout, hostvars, local
<1>2. /\ dialog # NoDialog => dialog.id \in 0 .. MaxDialogs /\ dialog.id # 0
      /\ 0 \in 0 .. MaxDialogs /\ 0 \in Nat /\ server.rev \in Nat /\ running \in BOOLEAN /\ saving \subseteq Nat
  BY TypesTell DEF OptionsInv, OptionsTypeOK, OptionsDialog
<1>3. ASSUME NEW id \in 0 .. MaxDialogs
      PROVE  LET n == Task("logout", "sent", id) IN IsTask(n) /\ n.kind = "logout" /\ n.step = "sent" /\ n.id = id /\ n.rev = 0
  BY <1>2, NewTask DEF Task, StepsOf
<1>4. CASE SignOut
  <2> DEFINE n == Task("logout", "sent", 0)
  <2>1. IsTask(n) /\ n.kind = "logout" /\ n.step = "sent" /\ n.id = 0 /\ n.rev = 0
    BY <1>2, <1>3
  <2>2. /\ cookie.connected /\ dialog = NoDialog /\ tasks' = tasks \cup {n} /\ UNCHANGED <<running, saving, succeeded>>
        /\ UNCHANGED <<hostvars, server, session, local, late, succeeded, minted, faults, agreed>>
    BY <1>4 DEF SignOut, flags
  <2> HIDE DEF n
  <2>3. Attended'
    <3>1. SUFFICES ASSUME ~disturbed PROVE Attended'
      BY <1>1 DEF Attended
    <3>2. ~Shown /\ ~Shown'
      BY <1>1, <2>2 DEF Shown
    <3>3. \A t \in tasks : t.kind # "save"
      BY <3>1, <3>2 DEF OptionsInv, Attended
    <3> QED BY <1>1, <2>1, <2>2, <3>1, <3>2, <3>3 DEF OptionsInv, Attended, PreviewGoesWithDialog
  <2>4. ~Runner(n)
    BY <2>1 DEF Runner
  <2> QED BY <1>2, <2>1, <2>2, <2>3, <2>4, TaskAdded
<1>5. CASE pendingLogout
  <2> DEFINE n == Task("logout", "sent", dialog.id)
  <2>1. Shown /\ dialog # NoDialog
    BY <1>5 DEF pendingLogout, Shown
  <2>2. IsTask(n) /\ n.kind = "logout" /\ n.step = "sent" /\ n.id = dialog.id /\ n.rev = 0
    BY <1>2, <1>3, <2>1
  <2>3. /\ ~running /\ vault # None /\ vault.pending # None /\ running' = TRUE /\ tasks' = tasks \cup {n} /\ UNCHANGED <<saving, succeeded>>
        /\ UNCHANGED <<hostvars, server, session, local, late, succeeded, minted, faults, agreed>>
    BY <1>5 DEF pendingLogout
  <2> HIDE DEF n
  <2>4. cookie.connected
    BY <2>3 DEF OptionsInv, Signed
  <2>5. Attended'
    <3>1. SUFFICES ASSUME ~disturbed PROVE Attended'
      BY <1>1 DEF Attended
    <3>2. \A t \in tasks : t.kind # "save"
      BY <2>3, <3>1 DEF OptionsInv, Attended
    <3> QED BY <1>1, <1>2, <2>1, <2>2, <2>3, <3>1, <3>2 DEF OptionsInv, Attended, PreviewGoesWithDialog, Shown
  <2> QED BY <1>2, <2>2, <2>3, <2>4, <2>5, TaskAdded
<1> QED BY <1>4, <1>5

LEMMA StepSubmit ==
    ASSUME OptionsInv, submit
    PROVE  OptionsInv'
<1> DEFINE n == IF vault.pending = None THEN Task("rotate", "prepare", dialog.id) ELSE Resume(dialog.id)
<1>1. UNCHANGED <<dialog, timer, opened, disturbed, cookie, preview, stored, vault>>
  BY DEF submit, hostvars, local
<1>2. Shown /\ dialog # NoDialog /\ ~running /\ dialog.id \notin saving /\ vault # None
  BY DEF submit, Shown
<1>3. dialog.id \in 0 .. MaxDialogs /\ server.rev \in Nat /\ saving \subseteq Nat /\ 0 \in Nat
  BY <1>2, TypesTell DEF OptionsInv, OptionsTypeOK, OptionsDialog
<1>4. /\ IsTask(n) /\ n.kind = "rotate" /\ n.step \in {"prepare", "finalize"} /\ n.rev <= server.rev
      /\ n.step = "prepare" => vault.pending = None
      /\ n.step = "finalize" => vault.pending # None /\ n.key = vault.pending.key /\ n.rev = vault.pending.rev
  <2>1. CASE vault.pending = None
    <3>1. n = [kind |-> "rotate", step |-> "prepare", id |-> dialog.id, key |-> 0, prefs |-> None, rev |-> 0]
      BY <2>1 DEF Task
    <3>2. IsTask(n)
      BY <1>3, <3>1, NewTask DEF StepsOf
    <3> QED BY <1>3, <2>1, <3>1, <3>2
  <2>2. CASE vault.pending # None
    <3>1. vault.pending.key \in Nat /\ vault.pending.rev \in Nat /\ vault.pending.rev <= server.rev
      BY <1>2, <2>2, TypesTell DEF OptionsInv, Runs
    <3>2. n = [kind |-> "rotate", step |-> "finalize", id |-> dialog.id, key |-> vault.pending.key,
               prefs |-> None, rev |-> vault.pending.rev]
      BY <2>2 DEF Resume, Task
    <3>3. IsTask(n)
      BY <1>3, <3>1, <3>2, NewTask DEF StepsOf
    <3> QED BY <2>2, <3>1, <3>2, <3>3
  <2> QED BY <2>1, <2>2
<1>5. /\ running' = TRUE /\ tasks' = tasks \cup {n} /\ UNCHANGED <<saving, succeeded>>
      /\ UNCHANGED <<hostvars, server, session, local, late, succeeded, minted, faults, agreed>>
  BY DEF submit
<1> HIDE DEF n
<1>6. cookie.connected
  BY <1>2 DEF OptionsInv, Signed
<1>7. Attended'
  <2>1. SUFFICES ASSUME ~disturbed PROVE Attended'
    BY <1>1 DEF Attended
  <2>2. \A t \in tasks : t.kind # "save"
    BY <1>2, <2>1 DEF OptionsInv, Attended
  <2> QED BY <1>1, <1>4, <1>5, <2>1, <2>2 DEF OptionsInv, Attended, PreviewGoesWithDialog, Shown
<1> QED BY <1>2, <1>3, <1>4, <1>5, <1>6, <1>7, TaskAdded

LEMMA StepCommit ==
    ASSUME OptionsInv, preferencesPreview_commit
    PROVE  OptionsInv'
<1> DEFINE n == [Task("save", "sent", dialog.id) EXCEPT !.prefs = Sealed(vault.active, preview)]
<1>1. UNCHANGED <<dialog, timer, opened, disturbed, cookie, preview, stored, vault, running>>
  BY DEF preferencesPreview_commit, hostvars, local
<1>2. /\ Shown /\ dialog # NoDialog /\ ~timer /\ preview # None /\ vault # None
      /\ dialog.id \notin saving /\ ~running /\ vault.pending = None
  BY DEF preferencesPreview_commit, Shown, Responds, optionsCanClose
<1>3. dialog.id \in 0 .. MaxDialogs /\ server.rev \in Nat /\ saving \subseteq Nat /\ dialog.id \in Nat /\ 0 \in Nat
  BY <1>2, TypesTell DEF OptionsInv, OptionsTypeOK, OptionsDialog
<1>4. Sealed(vault.active, preview) \in Prefs /\ Sealed(vault.active, preview).key = vault.active
  BY <1>2, TypesTell DEF Sealed, Prefs, OptionsInv, OptionsTypeOK
<1>5. IsTask(n) /\ n.kind = "save" /\ n.step = "sent" /\ n.id = dialog.id /\ n.rev = 0 /\ n.prefs.key = vault.active
  <2>1. n = [kind |-> "save", step |-> "sent", id |-> dialog.id, key |-> 0,
             prefs |-> Sealed(vault.active, preview), rev |-> 0]
    BY DEF Task
  <2>2. IsTask(n)
    BY <1>3, <1>4, <2>1, NewTask DEF StepsOf
  <2> QED BY <1>4, <2>1, <2>2
<1>6. /\ saving' = saving \cup {dialog.id} /\ tasks' = tasks \cup {n}
      /\ UNCHANGED <<hostvars, server, session, local, late, succeeded, minted, faults, agreed>>
  BY DEF preferencesPreview_commit
<1> HIDE DEF n
<1>7. cookie.connected /\ stored = vault
  BY <1>2 DEF OptionsInv, Signed
<1>8. ASSUME ~disturbed
      PROVE  tasks = {}
  <2>1. SUFFICES ASSUME NEW t \in tasks PROVE FALSE
    OBVIOUS
  <2>2. t.kind # "login"
    BY <1>7 DEF OptionsInv, Signed
  <2>3. ~Runner(t)
    BY <1>2 DEF OptionsInv, Runs
  <2>4. t.kind # "logout"
    BY <1>2, <1>8, <2>3 DEF OptionsInv, Attended, Runner
  <2>5. t.kind # "save"
    BY <1>2, <1>8 DEF OptionsInv, Attended
  <2> QED BY <2>2, <2>3, <2>4, <2>5, TypesTell, TaskParts DEF Runner, OptionsInv
<1>9. Attended'
  <2>1. SUFFICES ASSUME ~disturbed PROVE Attended'
    BY <1>1 DEF Attended
  <2>2. tasks' = {n}
    BY <1>6, <1>8, <2>1
  <2> QED BY <1>1, <1>2, <1>5, <1>6, <2>1, <2>2 DEF OptionsInv, Attended, PreviewGoesWithDialog, Shown
<1>10. ~disturbed /\ session = "current" => n.prefs.key = server.key
  <2>1. SUFFICES ASSUME ~disturbed, session = "current" PROVE n.prefs.key = server.key
    OBVIOUS
  <2>2. BrowserHasKey /\ ~\E t \in tasks : t.kind = "login"
    BY <1>8, <2>1 DEF OptionsInv, Keyed
  <2> QED BY <1>2, <1>5, <1>7, <2>1, <2>2 DEF BrowserHasKey
<1>11. ~Runner(n) /\ running \in BOOLEAN /\ saving' \subseteq Nat
  BY <1>3, <1>5, <1>6 DEF Runner, OptionsInv, OptionsTypeOK
<1> QED BY <1>1, <1>3, <1>5, <1>6, <1>7, <1>9, <1>10, <1>11, TaskAdded

-----------------------------------------------------------------------------
(* Signing in. *)

\* What a task becomes when the session it asks under goes.
Cut(t) ==
    IF t.step \notin Asking THEN t ELSE [t EXCEPT !.step = IF t.kind = "logout" THEN "ok" ELSE "denied"]

LEMMA CutParts ==
    ASSUME NEW t, IsTask(t)
    PROVE  LET u == Cut(t)
           IN /\ IsTask(u) /\ u.kind = t.kind /\ u.id = t.id /\ u.key = t.key /\ u.prefs = t.prefs /\ u.rev = t.rev
              /\ u.step \notin Asking
<1> DEFINE u == Cut(t)
<1>1. CASE t.step \notin Asking
  BY <1>1 DEF Cut
<1>2. CASE t.step \in Asking
  <2>1. t \in [kind : {"save", "login", "logout", "rotate"}, step : UNION {StepsOf(k) : k \in {"save", "login", "logout", "rotate"}},
               id : 0 .. MaxDialogs, key : Nat, prefs : Prefs \cup {None}, rev : Nat]
    BY DEF IsTask
  <2>2. PICK step \in {"ok", "denied"} : step \in StepsOf(t.kind) /\ u = [t EXCEPT !.step = step]
    <3>1. CASE t.kind = "logout"
      BY <1>2, <3>1 DEF Cut, StepsOf
    <3>2. CASE t.kind # "logout"
      BY <1>2, <3>2, TaskParts DEF Cut, StepsOf
    <3> QED BY <3>1, <3>2
  <2>3. step \in UNION {StepsOf(k) : k \in {"save", "login", "logout", "rotate"}}
    BY <2>2, TaskParts
  <2> HIDE DEF StepsOf
  <2>4. /\ u \in [kind : {"save", "login", "logout", "rotate"}, step : UNION {StepsOf(k) : k \in {"save", "login", "logout", "rotate"}},
                  id : 0 .. MaxDialogs, key : Nat, prefs : Prefs \cup {None}, rev : Nat]
        /\ u.kind = t.kind /\ u.id = t.id /\ u.key = t.key /\ u.prefs = t.prefs /\ u.rev = t.rev /\ u.step = step
    BY <2>1, <2>2, <2>3
  <2> HIDE DEF u
  <2>5. IsTask(u)
    BY <2>2, <2>4 DEF IsTask
  <2>6. u.step \notin Asking
    BY <2>4 DEF Asking
  <2> QED BY <2>4, <2>5, <2>6 DEF u
<1> QED BY <1>1, <1>2

LEMMA StepLoginGet ==
    ASSUME OptionsInv, login_get
    PROVE  OptionsInv'
<1> DEFINE n == [Task("login", "get", 0) EXCEPT !.key = server.key, !.prefs = Sealed(server.key, cookie.style)]
<1>1. UNCHANGED <<dialog, timer, opened, disturbed, cookie, preview, stored, vault, running, saving, succeeded, server, minted, faults>>
  BY DEF login_get, hostvars, local, flags
<1>2. /\ ~cookie.connected /\ session' = "current" /\ late' = {} /\ agreed' = FALSE
      /\ \A t \in tasks : t.kind # "login"
  BY DEF login_get
<1>3. tasks' = {Cut(t) : t \in tasks} \cup {n}
  BY DEF login_get, Cut
<1>4. /\ vault = None /\ dialog = NoDialog /\ ~Shown
  BY <1>2 DEF OptionsInv, Signed, Shown
<1>5. /\ IsTask(n) /\ n.kind = "login" /\ n.step = "get" /\ n.key = server.key /\ n.rev = 0 /\ n.prefs.key = server.key
  <2>1. Sealed(server.key, cookie.style) \in Prefs /\ Sealed(server.key, cookie.style).key = server.key
    BY TypesTell DEF Sealed, Prefs, OptionsInv
  <2>2. n = [kind |-> "login", step |-> "get", id |-> 0, key |-> server.key,
             prefs |-> Sealed(server.key, cookie.style), rev |-> 0]
    <3>1. ASSUME NEW blank \in [kind : {"login"}, step : {"get"}, id : Nat, key : Nat, prefs : Prefs \cup {None}, rev : Nat],
                 NEW key \in Nat, NEW prefs \in Prefs \cup {None}
          PROVE  LET m == [blank EXCEPT !.key = key, !.prefs = prefs]
                 IN /\ m \in [kind : {"login"}, step : {"get"}, id : Nat, key : Nat, prefs : Prefs \cup {None}, rev : Nat]
                    /\ m.id = blank.id /\ m.rev = blank.rev /\ m.key = key /\ m.prefs = prefs
      OBVIOUS
    <3>2. Task("login", "get", 0) \in [kind : {"login"}, step : {"get"}, id : Nat, key : Nat, prefs : Prefs \cup {None}, rev : Nat]
      BY DEF Task
    <3>3. server.key \in Nat
      BY TypesTell DEF OptionsInv
    <3>4. Sealed(server.key, cookie.style) \in Prefs \cup {None}
      BY <2>1
    <3>5. /\ n \in [kind : {"login"}, step : {"get"}, id : Nat, key : Nat, prefs : Prefs \cup {None}, rev : Nat]
          /\ n.id = Task("login", "get", 0).id /\ n.rev = Task("login", "get", 0).rev
          /\ n.key = server.key /\ n.prefs = Sealed(server.key, cookie.style)
      BY <3>1, <3>2, <3>3, <3>4, Zenon
    <3>6. Task("login", "get", 0).id = 0 /\ Task("login", "get", 0).rev = 0
      BY DEF Task
    <3> HIDE DEF n
    <3> QED BY <3>5, <3>6
  <2>3. 0 \in 0 .. MaxDialogs /\ server.key \in Nat /\ 0 \in Nat
    BY TypesTell DEF OptionsInv
  <2>4. IsTask(n)
    BY <2>1, <2>2, <2>3, NewTask DEF StepsOf
  <2> QED BY <2>1, <2>2, <2>4
<1> HIDE DEF n
<1>6. \A t \in tasks : /\ IsTask(Cut(t)) /\ Cut(t).kind = t.kind /\ Cut(t).id = t.id /\ Cut(t).rev = t.rev
                       /\ Cut(t).step \notin Asking
  BY CutParts, TypesTell DEF OptionsInv
<1>7. \A u \in tasks' : u = n \/ \E t \in tasks : u = Cut(t)
  BY <1>3
<1>8. \A u \in tasks' : IsTask(u) /\ (u # n => u.kind # "login" /\ u.step \notin Asking)
  BY <1>2, <1>5, <1>6, <1>7
<1>9. OptionsTypeOK'
  BY <1>1, <1>2, <1>8 DEF OptionsInv, OptionsTypeOK
<1>10. Signed'
  <2>1. \A u \in tasks' : ~Rotating(u) /\ (u.kind = "login" => u = n)
    BY <1>5, <1>8 DEF Rotating
  <2> QED BY <1>1, <1>2, <2>1 DEF OptionsInv, Signed
<1>11. Runs'
  <2>1. \A u \in tasks' : Runner(u) => running /\ \E t \in tasks : u = Cut(t) /\ Runner(t)
    BY <1>5, <1>6, <1>7 DEF OptionsInv, Runs, Runner
  <2>2. \A u \in tasks' : u.rev <= server.rev
    BY <1>5, <1>6, <1>7, TypesTell DEF OptionsInv, Runs
  <2>3. \A t, u \in tasks' : Runner(t) /\ Runner(u) => t = u
    BY <2>1 DEF OptionsInv, Runs
  <2> QED BY <1>1, <1>2, <1>4, <2>1, <2>2, <2>3 DEF Runs, Runner
<1>12. Attended'
  <2>1. SUFFICES ASSUME ~disturbed PROVE Attended'
    BY <1>1 DEF Attended
  <2>2. \A t \in tasks : t.kind # "save"
    BY <1>4, <2>1 DEF OptionsInv, Attended
  <2>3. \A u \in tasks' : u.kind # "save"
    BY <1>5, <1>6, <1>7, <2>2
  <2> QED BY <1>1, <1>2, <1>4, <2>1, <2>3 DEF OptionsInv, Attended, PreviewGoesWithDialog, Shown
<1>13. Keyed'
  <2>1. SUFFICES ASSUME ~disturbed PROVE Keyed'
    BY <1>1 DEF Keyed
  <2>2. PreferencesOpen' /\ BrowserHasKey'
    BY <1>1, <1>2, <2>1 DEF OptionsInv, Keyed, PreferencesOpen, BrowserHasKey
  <2>3. \A u \in tasks' : u.kind = "login" => u.key = server.key /\ u.prefs.key = server.key
    BY <1>5, <1>8
  <2>4. \A u \in tasks' : u.kind = "save" => u.step # "sent"
    BY <1>5, <1>8 DEF Asking
  <2> QED BY <1>1, <1>2, <2>2, <2>3, <2>4 DEF Keyed
<1>14. Agreeing'
  BY <1>2 DEF Agreeing
<1> QED BY <1>9, <1>10, <1>11, <1>12, <1>13, <1>14 DEF OptionsInv

LEMMA StepLoginApply ==
    ASSUME OptionsInv, NEW t \in tasks, login_apply(t)
    PROVE  OptionsInv'
<1>1. UNCHANGED <<dialog, timer, opened, disturbed, preview, running, saving, succeeded, server, session, late, minted, agreed>>
  BY DEF login_apply, hostvars, flags
<1>2. /\ t.kind = "login" /\ IsTask(t) /\ t.prefs \in Prefs /\ t.prefs.style \in Styles /\ t.key \in Nat
      /\ faults \in Nat
  BY TypesTell, TaskParts DEF login_apply, OptionsInv, OptionsTypeOK
<1>3. /\ ~cookie.connected /\ late = {} /\ vault = None /\ dialog = NoDialog /\ ~Shown
      /\ \A u \in tasks : ~Rotating(u) /\ (u.kind = "login" => u = t)
  BY <1>2 DEF OptionsInv, Signed, Shown
<1>4. ~disturbed => \A u \in tasks : u.kind # "save"
  BY <1>3 DEF OptionsInv, Attended
<1>5. CASE /\ t.step \in {"ok", "error"} /\ Ends(t)
           /\ StorageSets([active |-> t.key, pending |-> None])
           /\ vault' = [active |-> t.key, pending |-> None]
           /\ cookie' = [style |-> t.prefs.style, connected |-> TRUE]
  <2>1. /\ tasks' = tasks \ {t} /\ stored' = vault' /\ faults' = faults /\ cookie'.connected = TRUE
        /\ cookie'.style = t.prefs.style /\ vault'.active = t.key /\ vault'.pending = None
    BY <1>5 DEF Ends, StorageSets
  <2>2. vault' \in Vault /\ vault' # None /\ cookie' \in [style : Styles, connected : BOOLEAN]
    BY <1>2, <1>5, NoneIsNothing DEF Vault
  <2>3. OptionsTypeOK'
    BY <1>1, <2>1, <2>2 DEF OptionsInv, OptionsTypeOK
  <2>4. Signed'
    BY <1>1, <1>3, <2>1, <2>2 DEF Signed
  <2>5. Runs'
    <3>1. \A u \in tasks' : u.kind = "rotate" => u.step # "finalize"
      BY <1>3, <2>1 DEF Rotating, Asking
    <3> QED BY <1>1, <2>1, <3>1 DEF OptionsInv, Runs, Runner
  <2>6. Attended'
    BY <1>1, <1>3, <1>4, <2>1 DEF OptionsInv, Attended, PreviewGoesWithDialog, Shown
  <2>7. Keyed'
    <3>1. SUFFICES ASSUME ~disturbed PROVE Keyed'
      BY <1>1 DEF Keyed
    <3>2. PreferencesOpen'
      BY <1>1, <3>1 DEF OptionsInv, Keyed, PreferencesOpen
    <3>3. SUFFICES ASSUME session = "current" PROVE Keyed'
      BY <1>1, <3>2 DEF Keyed
    <3>4. t.key = server.key
      BY <1>2, <1>5, <3>1, <3>3 DEF OptionsInv, Keyed
    <3>5. BrowserHasKey'
      BY <1>1, <2>1, <2>2, <3>4 DEF BrowserHasKey
    <3>6. \A u \in tasks' : u.kind \notin {"login", "save"} /\ (u.kind = "rotate" => u.step # "finalize")
      BY <1>3, <1>4, <2>1, <3>1 DEF Rotating, Asking
    <3> QED BY <1>1, <1>3, <2>1, <3>2, <3>5, <3>6 DEF Keyed, Owns
  <2>8. Agreeing'
    BY <1>1, <1>2, <1>3, <2>1 DEF OptionsInv, Agreeing
  <2> QED BY <2>3, <2>4, <2>5, <2>6, <2>7, <2>8 DEF OptionsInv
<1>6. CASE /\ t.step \in {"ok", "error", "denied"} /\ UNCHANGED <<vault, cookie>>
           /\ tasks' = (tasks \ {t}) \cup {Task("logout", "sent", 0)}
           /\ IF t.step = "denied" THEN UNCHANGED <<stored, faults>> ELSE WriteFails
  <2> DEFINE n == Task("logout", "sent", 0)
  <2>1. IsTask(n) /\ n.kind = "logout" /\ n.step = "sent" /\ n.id = 0 /\ n.rev = 0
    <3>1. 0 \in 0 .. MaxDialogs /\ 0 \in Nat
      BY TypesTell DEF OptionsInv
    <3> QED BY <3>1, NewTask DEF Task, StepsOf
  <2>2. UNCHANGED <<vault, cookie, stored>> /\ tasks' = (tasks \ {t}) \cup {n} /\ faults' \in Nat
    BY <1>2, <1>6 DEF WriteFails, Fault
  <2> HIDE DEF n
  <2>3. OptionsTypeOK'
    BY <1>1, <2>1, <2>2 DEF OptionsInv, OptionsTypeOK
  <2>4. Signed'
    BY <1>1, <1>3, <2>1, <2>2 DEF OptionsInv, Signed
  <2>5. Runs'
    <3>1. ~Runner(n) /\ n.rev <= server.rev
      BY <2>1, TypesTell DEF Runner, OptionsInv
    <3> QED BY <1>1, <1>3, <2>2, <3>1 DEF OptionsInv, Runs, Runner
  <2>6. Attended'
    BY <1>1, <1>3, <1>4, <2>1, <2>2 DEF OptionsInv, Attended, PreviewGoesWithDialog, Shown
  <2>7. Keyed'
    BY <1>1, <1>3, <1>4, <2>1, <2>2 DEF OptionsInv, Keyed, PreferencesOpen, BrowserHasKey
  <2>8. Agreeing'
    BY <1>1, <1>3, <2>1, <2>2 DEF OptionsInv, Agreeing
  <2> QED BY <2>3, <2>4, <2>5, <2>6, <2>7, <2>8 DEF OptionsInv
<1> QED BY <1>5, <1>6 DEF login_apply

-----------------------------------------------------------------------------
(* Leaving, and saving. *)

\* Nothing is asked besides a save.
LEMMA NothingElseSaved ==
    ASSUME OptionsInv, NEW t \in tasks
    PROVE  ~disturbed => \A u \in tasks \ {t} : u.kind # "save"
  BY DEF OptionsInv, Attended

LEMMA StepLeaves ==
    ASSUME OptionsInv, NEW gone \in SUBSET tasks, Leaves(gone),
           UNCHANGED <<opened, server, late, succeeded, minted, agreed>>, session' \in {session, "none"},
           disturbed' \in BOOLEAN, ~disturbed' => ~disturbed /\ \A u \in tasks \ gone : u.kind # "save",
           saving' \subseteq Nat, running' \in BOOLEAN, \A u \in tasks \ gone : Runner(u) => running'
    PROVE  OptionsInv'
<1> DEFINE n == Task("logout", "sent", 0)
<1>1. /\ vault' = None /\ cookie'.connected = FALSE /\ preview' = None /\ dialog' = NoDialog /\ timer' = timer
      /\ cookie' \in [style : Styles, connected : BOOLEAN]
      /\ stored' \in Vault \cup {None} /\ faults' \in Nat
  <2>1. /\ vault' = None /\ cookie' = [style |-> [cookie.style EXCEPT !.hue = DefaultHue], connected |-> FALSE]
        /\ preview' = None /\ dialog' = NoDialog /\ timer' = timer
        /\ (stored' = None /\ faults' = faults) \/ (faults' = faults + 1 /\ stored' = stored)
    BY DEF Leaves, local_clear, clear, innerClose, Reset, StorageSets, WriteFails, Fault
  <2>2. cookie.style \in [lang : Langs, hue : Hues]
    BY TypesTell DEF Styles, OptionsInv
  <2>3. [cookie.style EXCEPT !.hue = DefaultHue] \in Styles
    BY <2>2, OptionsAssumption DEF Styles
  <2>4. stored \in Vault \cup {None} /\ faults \in Nat
    BY DEF OptionsInv, OptionsTypeOK
  <2> QED BY <2>1, <2>3, <2>4
<1>2. IsTask(n) /\ n.kind = "logout" /\ n.step = "sent" /\ n.id = 0 /\ n.rev = 0
  <2>1. 0 \in 0 .. MaxDialogs /\ 0 \in Nat
    BY TypesTell DEF OptionsInv
  <2> QED BY <2>1, NewTask DEF Task, StepsOf
<1>3. tasks' = tasks \ gone \/ tasks' = (tasks \ gone) \cup {n}
  BY DEF Leaves
<1> HIDE DEF n
<1>4. OptionsTypeOK'
  BY <1>1, <1>2, <1>3 DEF OptionsInv, OptionsTypeOK
<1>5. Signed'
  <2>1. \A u \in tasks' : u = n \/ u \in tasks
    BY <1>3
  <2>2. ~Rotating(n) /\ n.kind # "login"
    BY <1>2 DEF Rotating
  <2>3. \A u \in tasks' : u.kind = "login" =>
         /\ ~cookie'.connected /\ late' = {}
         /\ \A v \in tasks' : ~Rotating(v) /\ (v.kind = "login" => v = u)
    BY <1>1, <2>1, <2>2 DEF OptionsInv, Signed
  <2>4. \A u \in late' : u.kind = "login" =>
         ~cookie'.connected /\ \A v \in tasks' \cup late' : ~Rotating(v)
    BY <1>1, <2>1, <2>2 DEF OptionsInv, Signed
  <2> QED BY <1>1, <2>3, <2>4 DEF Signed
<1>6. Runs'
  <2>1. ~Runner(n) /\ n.rev <= server.rev
    BY <1>2, TypesTell DEF Runner, OptionsInv
  <2> QED BY <1>1, <1>3, <2>1 DEF OptionsInv, Runs, Runner
<1>7. ~disturbed' => ~disturbed /\ \A u \in tasks' : u.kind # "save"
  BY <1>2, <1>3
<1>8. Attended'
  BY <1>1, <1>7 DEF OptionsInv, Attended, PreviewGoesWithDialog, Shown
<1>9. Keyed'
  BY <1>1, <1>2, <1>3, <1>7 DEF OptionsInv, Keyed, PreferencesOpen, BrowserHasKey
<1>10. Agreeing'
  BY <1>1, <1>2, <1>3 DEF OptionsInv, Agreeing
<1> QED BY <1>4, <1>5, <1>6, <1>8, <1>9, <1>10 DEF OptionsInv

LEMMA StepSignedOut ==
    ASSUME OptionsInv, NEW t \in tasks, SignedOut(t)
    PROVE  OptionsInv'
<1>1. /\ t.kind = "logout" /\ Leaves({t}) /\ running' = (running /\ t.id = 0)
      /\ UNCHANGED <<opened, disturbed, server, session, late, saving, succeeded, minted, agreed>>
  BY DEF SignedOut
<1>2. running' \in BOOLEAN /\ saving' \subseteq Nat
  BY <1>1 DEF OptionsInv, OptionsTypeOK
<1>3. \A u \in tasks \ {t} : Runner(u) => running'
  <2>1. CASE t.id = 0
    BY <1>1, <2>1 DEF OptionsInv, Runs
  <2>2. CASE t.id # 0
    <3>1. Runner(t)
      BY <1>1, <2>2 DEF Runner
    <3> QED BY <3>1 DEF OptionsInv, Runs
  <2> QED BY <2>1, <2>2
<1>4. /\ {t} \in SUBSET tasks /\ disturbed' \in BOOLEAN
      /\ ~disturbed' => ~disturbed /\ \A u \in tasks \ {t} : u.kind # "save"
  BY <1>1, NothingElseSaved DEF OptionsInv, OptionsTypeOK
<1> QED BY <1>1, <1>2, <1>3, <1>4, StepLeaves

LEMMA StepRefused ==
    ASSUME OptionsInv, authenticationRequired
    PROVE  OptionsInv'
<1>1. /\ Leaves({}) /\ session' = "none" /\ disturbed' = (disturbed \/ \E t \in tasks : t.kind = "save")
      /\ UNCHANGED <<opened, server, late, running, saving, succeeded, minted, agreed>>
  BY DEF authenticationRequired, flags
<1>2. running' \in BOOLEAN /\ saving' \subseteq Nat /\ disturbed' \in BOOLEAN
  BY <1>1 DEF OptionsInv, OptionsTypeOK
<1>3. \A u \in tasks \ {} : Runner(u) => running'
  BY <1>1 DEF OptionsInv, Runs
<1>4. ~disturbed' => ~disturbed /\ \A u \in tasks \ {} : u.kind # "save"
  BY <1>1
<1> QED BY <1>1, <1>2, <1>3, <1>4, StepLeaves

LEMMA StepSaved ==
    ASSUME OptionsInv, NEW t \in tasks, Saved(t)
    PROVE  OptionsInv'
<1>1. /\ t.kind = "save" /\ saving' = saving \ {t.id}
      /\ UNCHANGED <<opened, disturbed, server, session, late, running, succeeded, minted, agreed>>
      /\ t.prefs \in Prefs /\ t.prefs.style \in Styles
  BY TypesTell, TaskParts DEF Saved, OptionsInv
<1>2. saving' \subseteq Nat /\ running' \in BOOLEAN
  BY <1>1 DEF OptionsInv, OptionsTypeOK
<1>3. CASE t.step = "denied" /\ Leaves({t})
  <2>1. \A u \in tasks \ {t} : Runner(u) => running'
    BY <1>1 DEF OptionsInv, Runs
  <2>2. /\ {t} \in SUBSET tasks /\ disturbed' \in BOOLEAN
        /\ ~disturbed' => ~disturbed /\ \A u \in tasks \ {t} : u.kind # "save"
    BY <1>1, NothingElseSaved DEF OptionsInv, OptionsTypeOK
  <2> QED BY <1>1, <1>2, <1>3, <2>1, <2>2, StepLeaves
<1>4. CASE /\ t.step \in {"ok", "error"} /\ tasks' = tasks \ {t} /\ cookie' \in [style : Styles, connected : BOOLEAN]
           /\ cookie'.connected = cookie.connected /\ UNCHANGED <<timer, stored, vault, faults>>
           /\ \/ t.step = "ok" /\ cookie'.style = t.prefs.style /\ preview' = None /\ dialog' = NoDialog
              \/ t.step = "error" /\ UNCHANGED <<cookie, preview, dialog>>
  <2>1. OptionsTypeOK'
    BY <1>1, <1>2, <1>4 DEF OptionsInv, OptionsTypeOK
  <2>2. Signed'
    BY <1>1, <1>4 DEF OptionsInv, Signed
  <2>3. Runs'
    BY <1>1, <1>4 DEF OptionsInv, Runs, Runner
  <2>4. ~disturbed => tasks = {t} /\ tasks' = {}
    BY <1>1, <1>4 DEF OptionsInv, Attended
  <2>5. Attended'
    BY <1>1, <1>4, <2>4 DEF OptionsInv, Attended, PreviewGoesWithDialog, Shown
  <2>6. Keyed'
    BY <1>1, <1>4 DEF OptionsInv, Keyed, PreferencesOpen, BrowserHasKey, Owns
  <2>7. Agreeing'
    BY <1>1, <1>4, <2>4 DEF OptionsInv, Agreeing
  <2> QED BY <2>1, <2>2, <2>3, <2>5, <2>6, <2>7 DEF OptionsInv
<1>5. CASE t.step = "ok" /\ Ends(t) /\ cookie' = [cookie EXCEPT !.style = t.prefs.style]
           /\ preview' = None /\ clear /\ UNCHANGED <<stored, vault, faults>>
  <2>1. cookie \in [style : Styles, connected : BOOLEAN]
    BY DEF OptionsInv, OptionsTypeOK
  <2>2. cookie' \in [style : Styles, connected : BOOLEAN] /\ cookie'.connected = cookie.connected /\ cookie'.style = t.prefs.style
    BY <1>1, <1>5, <2>1
  <2> QED BY <1>4, <1>5, <2>2 DEF Ends, clear, innerClose
<1>6. CASE t.step = "error" /\ Ends(t) /\ UNCHANGED <<local, dvars, faults>>
  <2>1. cookie \in [style : Styles, connected : BOOLEAN]
    BY DEF OptionsInv, OptionsTypeOK
  <2> QED BY <1>4, <1>6, <2>1 DEF Ends, local, dvars
<1> QED BY <1>3, <1>5, <1>6 DEF Saved

-----------------------------------------------------------------------------
(* The rotation. *)

\* A rotation ends and leaves the vault alone.
LEMMA RotationEnds ==
    ASSUME OptionsInv, NEW t \in tasks, t.kind = "rotate", tasks' = tasks \ {t}, running' = FALSE,
           UNCHANGED <<hostvars, server, session, local, late, saving, agreed>>,
           faults' \in Nat, minted' \in Nat, succeeded' \subseteq Nat
    PROVE  OptionsInv'
<1>1. UNCHANGED <<dialog, timer, opened, disturbed, cookie, preview, stored, vault>>
  BY DEF hostvars, local
<1>2. OptionsTypeOK'
  BY <1>1 DEF OptionsInv, OptionsTypeOK
<1>3. Signed'
  BY <1>1 DEF OptionsInv, Signed
<1>4. Runs'
  BY <1>1 DEF OptionsInv, Runs, Runner
<1>5. Attended'
  BY <1>1 DEF OptionsInv, Attended, PreviewGoesWithDialog, Shown
<1>6. Keyed'
  BY <1>1 DEF OptionsInv, Keyed, PreferencesOpen, BrowserHasKey, Owns
<1>7. Agreeing'
  BY <1>1 DEF OptionsInv, Agreeing
<1> QED BY <1>2, <1>3, <1>4, <1>5, <1>6, <1>7 DEF OptionsInv

LEMMA StepChange ==
    ASSUME OptionsInv, NEW t \in tasks, passwordRotation_change(t)
    PROVE  OptionsInv'
<1>1. /\ t.step = "prepared" /\ UNCHANGED <<hostvars, server, session, cookie, preview, late, saving, succeeded, agreed>>
      /\ UNCHANGED <<dialog, timer, opened, disturbed>>
  BY DEF passwordRotation_change, hostvars
<1>2. t.kind = "rotate" /\ IsTask(t) /\ t.rev \in Nat /\ t.rev <= server.rev
  BY <1>1, TypesTell, TaskParts DEF OptionsInv, Runs
<1>3. minted \in Nat /\ faults \in Nat /\ succeeded \subseteq Nat
  BY DEF OptionsInv, OptionsTypeOK
<1>4. ASSUME Ends(t), running' = FALSE, UNCHANGED <<stored, vault>>, minted' \in Nat, faults' \in Nat
      PROVE  OptionsInv'
  BY <1>1, <1>2, <1>3, <1>4, RotationEnds DEF Ends, local
<1>5. CASE Ends(t) /\ running' = FALSE /\ UNCHANGED <<stored, vault, minted, faults>>
  BY <1>3, <1>4, <1>5
<1>6. CASE minted' = minted + 1 /\ WriteFails /\ Ends(t) /\ running' = FALSE /\ UNCHANGED vault
  <2>1. minted' \in Nat /\ faults' \in Nat /\ UNCHANGED <<stored, vault>>
    BY <1>3, <1>6 DEF WriteFails, Fault
  <2> QED BY <1>4, <1>6, <2>1
<1> DEFINE p == [key |-> minted', rev |-> t.rev]
           n == [t EXCEPT !.step = "finalize", !.key = minted', !.prefs = None]
<1>7. CASE /\ minted' = minted + 1 /\ vault # None
           /\ StorageSets([active |-> vault.active, pending |-> p]) /\ vault' = [vault EXCEPT !.pending = p]
           /\ tasks' = (tasks \ {t}) \cup {n} /\ UNCHANGED running
  <2>1. minted' \in Nat /\ p \in Pending /\ p # None /\ p.key = minted' /\ p.rev = t.rev
    BY <1>2, <1>3, <1>7, NoneIsNothing DEF Pending
  <2> HIDE DEF p
  <2>2. vault \in Vault /\ vault.pending = None /\ cookie.connected /\ stored = vault
    BY <1>1, <1>2, <1>7, TypesTell DEF OptionsInv, Signed, Runs
  <2>3. /\ vault' \in Vault /\ vault'.active = vault.active /\ vault'.pending = p /\ stored' = vault' /\ vault' # None
        /\ faults' = faults
    <3>1. vault' = [active |-> vault.active, pending |-> p]
      BY <1>7, <2>2 DEF Vault
    <3>2. vault.active \in Nat
      BY <2>2 DEF Vault
    <3> QED BY <1>7, <2>1, <3>1, <3>2, NoneIsNothing DEF Vault, StorageSets
  <2>4. /\ IsTask(n) /\ n.kind = "rotate" /\ n.step = "finalize" /\ n.id = t.id /\ n.key = minted' /\ n.rev = t.rev
    <3> DEFINE steps == UNION {StepsOf(k) : k \in {"save", "login", "logout", "rotate"}}
               key == minted'
    <3>1. t \in [kind : {"save", "login", "logout", "rotate"}, step : steps, id : 0 .. MaxDialogs, key : Nat,
                 prefs : Prefs \cup {None}, rev : Nat]
      BY <1>2 DEF IsTask
    <3>2. "finalize" \in steps /\ "finalize" \in StepsOf("rotate") /\ key \in Nat
      BY <2>1 DEF StepsOf
    <3> HIDE DEF steps, key
    <3>3. LET m == [t EXCEPT !.step = "finalize", !.key = key, !.prefs = None]
          IN /\ m \in [kind : {"save", "login", "logout", "rotate"}, step : steps, id : 0 .. MaxDialogs, key : Nat,
                       prefs : Prefs \cup {None}, rev : Nat]
             /\ m.kind = t.kind /\ m.step = "finalize" /\ m.id = t.id /\ m.key = key /\ m.rev = t.rev
      BY <3>1, <3>2
    <3>4. /\ n \in [kind : {"save", "login", "logout", "rotate"}, step : steps, id : 0 .. MaxDialogs, key : Nat,
                    prefs : Prefs \cup {None}, rev : Nat]
          /\ n.kind = t.kind /\ n.step = "finalize" /\ n.id = t.id /\ n.key = minted' /\ n.rev = t.rev
      BY <3>3 DEF key
    <3> HIDE DEF n
    <3>5. IsTask(n)
      BY <1>2, <3>2, <3>4 DEF IsTask, steps
    <3> QED BY <1>2, <3>4, <3>5
  <2>5. tasks' = (tasks \ {t}) \cup {n} /\ running' = running
    BY <1>7
  <2> HIDE DEF n
  <2>6. OptionsTypeOK'
    BY <1>1, <1>3, <2>1, <2>3, <2>4, <2>5 DEF OptionsInv, OptionsTypeOK
  <2>7. \A u \in tasks \cup late : u.kind # "login"
    BY <2>2 DEF OptionsInv, Signed
  <2>8. Signed'
    BY <1>1, <2>2, <2>3, <2>4, <2>5, <2>7 DEF OptionsInv, Signed
  <2>9. \A u \in tasks : Runner(u) => u = t
    BY <1>2 DEF OptionsInv, Runs, Runner
  <2>10. \A u \in tasks' : u = n \/ (u \in tasks /\ ~Runner(u))
    BY <2>5, <2>9
  <2>11. Runs'
    <3>1. running
      BY <1>2 DEF OptionsInv, Runs, Runner
    <3>2. \A u \in tasks' \cup late' : u.rev <= server.rev
      BY <1>1, <1>2, <2>4, <2>10 DEF OptionsInv, Runs
    <3>3. \A u \in tasks' : u.kind = "rotate" => u = n
      BY <2>10 DEF Runner
    <3> QED BY <1>1, <1>2, <2>1, <2>3, <2>4, <2>5, <2>10, <3>1, <3>2, <3>3 DEF Runs, Runner
  <2>12. ~disturbed => \A u \in tasks' : u.kind # "save"
    BY <1>2, <2>4, <2>5 DEF OptionsInv, Attended
  <2>13. Attended'
    BY <1>1, <2>4, <2>5, <2>12 DEF OptionsInv, Attended, PreviewGoesWithDialog, Shown
  <2>14. Keyed'
    <3>1. SUFFICES ASSUME ~disturbed PROVE Keyed'
      BY <1>1 DEF Keyed
    <3>2. PreferencesOpen'
      BY <1>1, <3>1 DEF OptionsInv, Keyed, PreferencesOpen
    <3>3. SUFFICES ASSUME session = "current" PROVE Keyed'
      BY <1>1, <3>2 DEF Keyed
    <3>4. vault.active = server.key
      BY <2>2, <2>7, <3>1, <3>3 DEF OptionsInv, Keyed, BrowserHasKey
    <3>5. BrowserHasKey'
      BY <1>1, <2>3, <3>4 DEF BrowserHasKey
    <3>6. \A u \in tasks' \cup late' : u.kind # "login"
      BY <1>1, <2>4, <2>5, <2>7
    <3>7. \A u \in tasks' : u.kind = "rotate" => u = n
      BY <2>10 DEF Runner
    <3>8. \A u \in late' : u.kind = "rotate" /\ u.step = "finalize" => u.key = server.key \/ u.rev < server.rev
      BY <1>1, <2>2, <3>1, <3>3 DEF OptionsInv, Keyed
    <3> QED BY <1>1, <2>1, <2>3, <2>4, <2>12, <3>1, <3>2, <3>5, <3>6, <3>7, <3>8 DEF Keyed, Owns
  <2>15. Agreeing'
    BY <1>1, <1>2, <2>4, <2>5 DEF OptionsInv, Agreeing
  <2> QED BY <2>6, <2>8, <2>11, <2>13, <2>14, <2>15 DEF OptionsInv
<1> QED BY <1>5, <1>6, <1>7 DEF passwordRotation_change

LEMMA StepFinalize ==
    ASSUME OptionsInv, NEW t \in tasks, passwordRotation_finalizePending(t)
    PROVE  OptionsInv'
<1>1. /\ t.kind = "rotate" /\ running' = FALSE
      /\ UNCHANGED <<opened, disturbed, server, session, late, saving, minted, agreed>>
      /\ succeeded' = IF t.step = "ok" /\ vault' # vault THEN succeeded \cup {t.id} ELSE succeeded
  BY DEF passwordRotation_finalizePending
<1>2. IsTask(t) /\ t.id \in Nat /\ t.key \in Nat /\ MaxDialogs \in Nat /\ saving \subseteq Nat
  BY TypesTell, TaskParts DEF OptionsInv, OptionsTypeOK
<1>3. minted \in Nat /\ faults \in Nat /\ succeeded' \subseteq Nat
  BY <1>1, <1>2 DEF OptionsInv, OptionsTypeOK
<1>4. \A u \in tasks : Runner(u) => u = t
  BY <1>1 DEF OptionsInv, Runs, Runner
<1>5. ASSUME Ends(t), UNCHANGED <<local, dvars>>, faults' \in Nat
      PROVE  OptionsInv'
  BY <1>1, <1>3, <1>5, RotationEnds DEF Ends, dvars, hostvars
<1>6. CASE Ends(t) /\ UNCHANGED <<local, faults, dvars>>
  BY <1>3, <1>5, <1>6
<1>7. CASE t.step = "denied" /\ Leaves({t})
  <2>1. \A u \in tasks \ {t} : Runner(u) => running'
    BY <1>4
  <2>2. succeeded' = succeeded
    BY <1>1, <1>7
  <2>3. /\ {t} \in SUBSET tasks /\ disturbed' \in BOOLEAN
        /\ ~disturbed' => ~disturbed /\ \A u \in tasks \ {t} : u.kind # "save"
    BY <1>1, NothingElseSaved DEF OptionsInv, OptionsTypeOK
  <2>4. saving' \subseteq Nat /\ running' \in BOOLEAN
    BY <1>1, <1>2
  <2> QED BY <1>1, <1>7, <2>1, <2>2, <2>3, <2>4, StepLeaves
<1> DEFINE v == [active |-> IF t.step = "ok" THEN t.key ELSE vault.active, pending |-> None]
<1>8. CASE /\ t.step \in {"ok", "conflict"} /\ Owns(t) /\ Ends(t) /\ UNCHANGED <<cookie, preview, dvars>>
           /\ Replaces(v)
  <2>1. CASE WriteFails /\ UNCHANGED vault
    BY <1>3, <1>5, <1>8, <2>1 DEF WriteFails, Fault, local
  <2>2. CASE StorageSets(v) /\ vault' = v
    <3>1. /\ UNCHANGED <<dialog, timer, cookie, preview, faults>> /\ tasks' = tasks \ {t}
          /\ vault # None /\ vault.pending # None /\ vault.pending.key = t.key /\ stored' = v
      BY <1>8, <2>2 DEF dvars, Owns, Ends, StorageSets
    <3>2. vault \in Vault /\ cookie.connected /\ stored = vault /\ vault.active \in Nat
      BY <3>1, TypesTell DEF OptionsInv, Signed
    <3>3. v \in Vault /\ v # None
      BY <1>2, <3>2, NoneIsNothing DEF Vault
    <3>4. /\ v.pending = None /\ v.active = IF t.step = "ok" THEN t.key ELSE vault.active
          /\ vault' = v
      BY <2>2
    <3> HIDE DEF v
    <3>5. OptionsTypeOK'
      BY <1>1, <1>3, <3>1, <3>3, <3>4 DEF OptionsInv, OptionsTypeOK
    <3>6. \A u \in tasks \cup late : u.kind # "login"
      BY <3>2 DEF OptionsInv, Signed
    <3>7. Signed'
      BY <1>1, <3>1, <3>2, <3>3, <3>4, <3>6 DEF OptionsInv, Signed
    <3>8. \A u \in tasks' : ~Runner(u) /\ u.kind # "rotate"
      BY <1>4, <3>1 DEF Runner
    <3>9. Runs'
      BY <1>1, <3>1, <3>4, <3>8 DEF OptionsInv, Runs, Runner
    <3>10. ~disturbed => \A u \in tasks : u.kind # "save"
      BY <1>1 DEF OptionsInv, Attended
    <3>11. Attended'
      BY <1>1, <3>1, <3>10 DEF OptionsInv, Attended, PreviewGoesWithDialog, Shown
    <3>12. Keyed'
      <4>1. SUFFICES ASSUME ~disturbed PROVE Keyed'
        BY <1>1 DEF Keyed
      <4>2. PreferencesOpen'
        BY <1>1, <4>1 DEF OptionsInv, Keyed, PreferencesOpen
      <4>3. SUFFICES ASSUME session = "current" PROVE Keyed'
        BY <1>1, <4>2 DEF Keyed
      <4>4. /\ t.step = "ok" => t.key = server.key
            /\ t.step = "conflict" => t.key # server.key /\ vault.pending.rev < server.rev
        BY <1>1, <1>8, <3>2, <4>1, <4>3 DEF OptionsInv, Keyed
      <4>5. v.active = server.key
        <5>1. BrowserHasKey
          BY <4>1, <4>3 DEF OptionsInv, Keyed
        <5>2. CASE t.step = "ok"
          BY <3>4, <4>4, <5>2
        <5>3. CASE t.step = "conflict"
          BY <3>1, <3>2, <3>4, <3>6, <4>3, <4>4, <5>1, <5>3 DEF BrowserHasKey
        <5> QED BY <1>8, <5>2, <5>3
      <4>6. BrowserHasKey'
        BY <1>1, <3>1, <3>3, <4>5 DEF BrowserHasKey
      <4>7. \A u \in late' : u.kind = "rotate" /\ u.step = "finalize" => u.key = server.key \/ u.rev < server.rev
        <5>1. SUFFICES ASSUME NEW u \in late, u.kind = "rotate", u.step = "finalize"
                       PROVE  u.key = server.key \/ u.rev < server.rev
          BY <1>1
        <5>2. \/ u.key = vault.pending.key /\ u.rev = vault.pending.rev
              \/ u.key = server.key
              \/ u.rev < server.rev
          BY <3>2, <4>1, <4>3, <5>1 DEF OptionsInv, Keyed
        <5> QED BY <1>8, <3>1, <4>4, <5>2
      <4>8. \A u \in tasks' \cup late' : u.kind # "login"
        BY <1>1, <3>1, <3>6
      <4> QED BY <1>1, <3>1, <3>8, <3>10, <4>1, <4>2, <4>6, <4>7, <4>8 DEF Keyed
    <3>13. Agreeing'
      BY <1>1, <3>1 DEF OptionsInv, Agreeing
    <3> QED BY <3>5, <3>7, <3>9, <3>11, <3>12, <3>13 DEF OptionsInv
  <2> QED BY <1>8, <2>1, <2>2 DEF Replaces
<1> QED BY <1>6, <1>7, <1>8 DEF passwordRotation_finalizePending

-----------------------------------------------------------------------------
(* The page is loaded anew. *)

LEMMA StepInitialize ==
    ASSUME OptionsInv, initialize
    PROVE  OptionsInv'
<1> DEFINE n == [Task("rotate", "finalize", 0) EXCEPT !.key = stored.pending.key, !.rev = stored.pending.rev]
<1>1. /\ late' = late \cup {t \in tasks : t.step \in Asking}
      /\ dialog' = NoDialog /\ timer' = FALSE /\ preview' = None /\ saving' = {} /\ succeeded' = {}
      /\ agreed' = (agreed /\ tasks = {})
      /\ disturbed' = (disturbed \/ \E t \in tasks : t.kind = "save" /\ t.step \in Asking)
      /\ UNCHANGED <<opened, server, session, minted>>
  BY DEF initialize
<1>2. /\ \A t \in tasks \cup late : IsTask(t)
      /\ \A t \in late' : IsTask(t) /\ t.step \in Asking /\ (t \in late \/ t \in tasks)
  BY <1>1, TypesTell DEF OptionsInv
<1>3. agreed' \in BOOLEAN /\ disturbed' \in BOOLEAN
  BY <1>1 DEF OptionsInv, OptionsTypeOK
<1>4. ~disturbed' => ~disturbed /\ \A t \in late' : t.kind # "save"
  BY <1>1, <1>2 DEF OptionsInv, Attended
<1>5. \A t \in late' : t.rev <= server.rev
  BY <1>1 DEF OptionsInv, Runs
<1>6. ~Shown'
  BY <1>1 DEF Shown
<1>7. CASE /\ cookie.connected /\ vault' = stored /\ UNCHANGED <<cookie, stored, faults>>
           /\ running' = (stored # None /\ stored.pending # None)
           /\ tasks' = IF running' THEN {n} ELSE {}
  <2>1. vault # None /\ stored = vault /\ vault' = vault /\ \A t \in tasks \cup late : t.kind # "login"
    BY <1>7 DEF OptionsInv, Signed
  <2>2. running' \in BOOLEAN /\ (running' <=> vault.pending # None)
    BY <1>7, <2>1
  <2>3. ASSUME running'
        PROVE  /\ IsTask(n) /\ n.kind = "rotate" /\ n.step = "finalize"
               /\ n.key = vault.pending.key /\ n.rev = vault.pending.rev /\ n.rev <= server.rev
    <3>1. vault.pending.key \in Nat /\ vault.pending.rev \in Nat /\ vault.pending.rev <= server.rev
      BY <2>1, <2>2, <2>3, TypesTell DEF OptionsInv, Runs
    <3>2. n = [kind |-> "rotate", step |-> "finalize", id |-> 0, key |-> vault.pending.key,
               prefs |-> None, rev |-> vault.pending.rev]
      <4>1. ASSUME NEW blank \in [kind : {"rotate"}, step : {"finalize"}, id : Nat, key : Nat, prefs : {None}, rev : Nat],
                   NEW key \in Nat, NEW rev \in Nat
            PROVE  LET m == [blank EXCEPT !.key = key, !.rev = rev]
                   IN /\ m \in [kind : {"rotate"}, step : {"finalize"}, id : Nat, key : Nat, prefs : {None}, rev : Nat]
                      /\ m.id = blank.id /\ m.key = key /\ m.rev = rev
        OBVIOUS
      <4>2. Task("rotate", "finalize", 0) \in [kind : {"rotate"}, step : {"finalize"}, id : Nat, key : Nat, prefs : {None}, rev : Nat]
        BY DEF Task
      <4>3. stored.pending.key \in Nat /\ stored.pending.rev \in Nat
        BY <2>1, <3>1
      <4>4. /\ n \in [kind : {"rotate"}, step : {"finalize"}, id : Nat, key : Nat, prefs : {None}, rev : Nat]
            /\ n.id = Task("rotate", "finalize", 0).id /\ n.key = stored.pending.key /\ n.rev = stored.pending.rev
        BY <4>1, <4>2, <4>3, Zenon
      <4>5. Task("rotate", "finalize", 0).id = 0
        BY DEF Task
      <4> HIDE DEF n
      <4> QED BY <2>1, <4>4, <4>5
    <3>3. 0 \in 0 .. MaxDialogs
      BY TypesTell DEF OptionsInv
    <3>4. IsTask(n)
      BY <3>1, <3>2, <3>3, NewTask DEF StepsOf
    <3> QED BY <3>1, <3>2, <3>4
  <2> HIDE DEF n
  <2>4. \A t \in tasks' : t = n /\ running'
    BY <1>7
  <2>5. OptionsTypeOK'
    BY <1>1, <1>2, <1>3, <1>7, <2>2, <2>3, <2>4 DEF OptionsInv, OptionsTypeOK
  <2>6. \A t \in tasks' \cup late' : t.kind # "login"
    BY <1>2, <2>1, <2>3, <2>4
  <2>7. Signed'
    BY <1>1, <1>7, <2>1, <2>6 DEF Signed
  <2>8. Runs'
    BY <1>1, <1>5, <2>1, <2>2, <2>3, <2>4 DEF OptionsInv, Runs
  <2>9. Attended'
    BY <1>1, <1>4, <1>6, <2>3, <2>4 DEF Attended, PreviewGoesWithDialog
  <2>10. Keyed'
    <3>1. SUFFICES ASSUME ~disturbed' PROVE Keyed'
      BY DEF Keyed
    <3>2. PreferencesOpen'
      BY <1>1, <1>4, <3>1 DEF OptionsInv, Keyed, PreferencesOpen
    <3>3. SUFFICES ASSUME session' = "current" PROVE Keyed'
      BY <3>2 DEF Keyed
    <3>4. BrowserHasKey'
      BY <1>1, <1>4, <1>7, <2>1, <3>1, <3>3 DEF OptionsInv, Keyed, BrowserHasKey
    <3>5. \A t \in tasks' \cup late' : t.kind = "rotate" /\ t.step = "finalize" =>
            \/ vault.pending # None /\ t.key = vault.pending.key /\ t.rev = vault.pending.rev
            \/ t.key = server.key
            \/ t.rev < server.rev
      BY <1>1, <1>2, <1>4, <1>7, <2>2, <2>3, <2>4, <3>1, <3>3 DEF OptionsInv, Keyed
    <3> QED BY <1>1, <2>1, <2>3, <2>4, <2>6, <3>1, <3>2, <3>4, <3>5 DEF Keyed
  <2>11. Agreeing'
    BY <1>1, <1>4, <1>7, <2>3, <2>4 DEF OptionsInv, Agreeing
  <2> QED BY <2>5, <2>7, <2>8, <2>9, <2>10, <2>11 DEF OptionsInv
<1>8. CASE /\ ~cookie.connected
           /\ cookie' = Reset(cookie) /\ vault' = None /\ running' = FALSE /\ tasks' = {}
           /\ StorageSets(None) \/ (stored # None /\ WriteFails)
  <2>1. cookie'.connected = FALSE /\ cookie' \in [style : Styles, connected : BOOLEAN]
    <3>1. cookie.style \in [lang : Langs, hue : Hues]
      BY TypesTell DEF Styles, OptionsInv
    <3>2. [cookie.style EXCEPT !.hue = DefaultHue] \in Styles
      BY <3>1, OptionsAssumption DEF Styles
    <3> QED BY <1>8, <3>2 DEF Reset
  <2>2. stored' \in Vault \cup {None} /\ faults' \in Nat
    BY <1>8 DEF OptionsInv, OptionsTypeOK, StorageSets, WriteFails, Fault
  <2>3. OptionsTypeOK'
    BY <1>1, <1>2, <1>3, <1>8, <2>1, <2>2 DEF OptionsInv, OptionsTypeOK
  <2>4. Signed'
    <3>1. ASSUME NEW t \in late', t.kind = "login"
          PROVE  \A u \in late' : ~Rotating(u)
      <4>1. CASE t \in late
        BY <1>2, <3>1, <4>1 DEF OptionsInv, Signed
      <4>2. CASE t \in tasks
        BY <1>2, <3>1, <4>2 DEF OptionsInv, Signed
      <4> QED BY <1>2, <3>1, <4>1, <4>2
    <3> QED BY <1>1, <1>8, <2>1, <3>1 DEF Signed
  <2>5. Runs'
    BY <1>1, <1>5, <1>8 DEF Runs
  <2>6. Attended'
    BY <1>1, <1>4, <1>6, <1>8 DEF Attended, PreviewGoesWithDialog
  <2>7. Keyed'
    BY <1>1, <1>2, <1>4, <1>8, <2>1 DEF OptionsInv, Keyed, PreferencesOpen, BrowserHasKey
  <2>8. Agreeing'
    BY <1>8, <2>1 DEF Agreeing
  <2> QED BY <2>3, <2>4, <2>5, <2>6, <2>7, <2>8 DEF OptionsInv
<1> QED BY <1>7, <1>8 DEF initialize

-----------------------------------------------------------------------------
(* The invariant. *)

LEMMA AtFirst == OptionsInit => OptionsInv
<1> SUFFICES ASSUME OptionsInit PROVE OptionsInv
  OBVIOUS
<1>1. /\ dialog = NoDialog /\ timer = FALSE /\ opened = 0 /\ disturbed = FALSE
      /\ server = [key |-> 1, rev |-> 0, prefs |-> None] /\ session = "none"
      /\ preview = None /\ stored = None /\ vault = None /\ tasks = {} /\ late = {}
      /\ running = FALSE /\ saving = {} /\ succeeded = {} /\ minted = 1 /\ faults = 0 /\ agreed = FALSE
  BY DEF OptionsInit, DialogInit
<1>2. cookie \in [style : Styles, connected : BOOLEAN] /\ cookie.connected = FALSE
  <2>1. PICK l \in Langs : cookie = [style |-> [lang |-> l, hue |-> DefaultHue], connected |-> FALSE]
    BY DEF OptionsInit
  <2>2. [lang |-> l, hue |-> DefaultHue] \in Styles
    BY OptionsAssumption DEF Styles
  <2> QED BY <2>1, <2>2
<1>3. OptionsTypeOK
  <2>1. 0 \in 0 .. MaxDialogs
    BY DialogAssumption
  <2>2. server \in [key : Nat, rev : Nat, prefs : Prefs \cup {None}]
    BY <1>1
  <2> QED BY <1>1, <1>2, <2>1, <2>2 DEF OptionsTypeOK
<1>4. Signed /\ Runs /\ Agreeing
  BY <1>1, <1>2 DEF Signed, Runs, Agreeing
<1>5. Attended
  BY <1>1 DEF Attended, PreviewGoesWithDialog, Shown
<1>6. Keyed
  BY <1>1 DEF Keyed, PreferencesOpen
<1> QED BY <1>3, <1>4, <1>5, <1>6 DEF OptionsInv

LEMMA EachStep ==
    ASSUME OptionsInv, [OptionsNext]_ovars
    PROVE  OptionsInv'
<1>1. CASE UNCHANGED ovars
  <2>1. UNCHANGED <<dialog, timer, opened, disturbed, server, session, cookie, preview, stored, vault, tasks, late,
                    running, saving, succeeded, minted, faults, agreed>>
    BY <1>1 DEF ovars, hostvars, local, flags
  <2>2. OptionsTypeOK'
    BY <2>1 DEF OptionsInv, OptionsTypeOK
  <2>3. Signed' /\ Runs'
    BY <2>1 DEF OptionsInv, Signed, Runs
  <2>4. Attended'
    BY <2>1 DEF OptionsInv, Attended, PreviewGoesWithDialog, Shown
  <2>5. Keyed'
    BY <2>1 DEF OptionsInv, Keyed, PreferencesOpen, BrowserHasKey, Owns
  <2>6. Agreeing'
    BY <2>1 DEF OptionsInv, Agreeing
  <2> QED BY <2>2, <2>3, <2>4, <2>5, <2>6 DEF OptionsInv
<1>2. CASE \E t \in tasks \cup late : Serve(t)
  BY <1>2, StepServe
<1>3. ASSUME NEW t \in tasks, login_apply(t)
      PROVE  OptionsInv'
  BY <1>3, StepLoginApply
<1>4. ASSUME NEW t \in tasks, SignedOut(t)
      PROVE  OptionsInv'
  BY <1>4, StepSignedOut
<1>5. ASSUME NEW t \in tasks, Saved(t)
      PROVE  OptionsInv'
  BY <1>5, StepSaved
<1>6. ASSUME NEW t \in tasks, passwordRotation_change(t)
      PROVE  OptionsInv'
  BY <1>6, StepChange
<1>7. ASSUME NEW t \in tasks, passwordRotation_finalizePending(t)
      PROVE  OptionsInv'
  BY <1>7, StepFinalize
<1>8. CASE login_get
  BY <1>8, StepLoginGet
<1>9. CASE SignOut \/ pendingLogout
  BY <1>9, StepSignOut
<1>10. CASE openFn \/ OverOptions \/ OptionsPreferences \/ OptionsClose \/ OptionsClosed
  BY <1>10, StepDialog
<1>11. CASE SessionEnds \/ (\E s \in Styles : OtherSets(s)) \/ OtherRotates
  BY <1>11, StepOutside
<1>12. CASE preferencesPreview_commit
  BY <1>12, StepCommit
<1>13. CASE submit
  BY <1>13, StepSubmit
<1>14. CASE initialize
  BY <1>14, StepInitialize
<1>15. CASE authenticationRequired
  BY <1>15, StepRefused
<1> QED BY <1>1, <1>2, <1>3, <1>4, <1>5, <1>6, <1>7, <1>8, <1>9, <1>10, <1>11, <1>12, <1>13, <1>14, <1>15
        DEF OptionsNext

\* What is stored, what is on its way and what the page has in memory stay in order
\* through every interleaving of the page, the server and the user's other browser.
THEOREM OptionsInvariant == OptionsSpec => []OptionsInv
<1>1. OptionsInit => OptionsInv
  BY AtFirst
<1>2. OptionsInv /\ [OptionsNext]_ovars => OptionsInv'
  BY EachStep
<1> QED BY <1>1, <1>2, PTL DEF OptionsSpec

\* Dialogs, vaults, requests and answers have their shapes.
THEOREM OptionsTypes == OptionsSpec => []OptionsTypeOK
<1>1. OptionsInv => OptionsTypeOK
  BY DEF OptionsInv
<1> QED BY <1>1, OptionsInvariant, PTL

-----------------------------------------------------------------------------
(* The properties. *)

\* With nothing on its way, a signed-in page shows the style the account has, as
\* far as this page can know (users_data.rs, the preferences of the account).
THEOREM ShownAgrees == OptionsSpec => []ShownIsStored
<1>1. OptionsInv => ShownIsStored
  <2> SUFFICES ASSUME OptionsInv, cookie.connected, agreed, tasks = {}, ~disturbed
               PROVE  /\ server.prefs # None /\ server.prefs.style = cookie.style
                      /\ Shown \/ Drawn = cookie.style
    BY DEF ShownIsStored
  <2>1. server.prefs # None /\ server.prefs.style = cookie.style
    BY DEF OptionsInv, Agreeing
  <2>2. Shown \/ Drawn = cookie.style
    BY DEF OptionsInv, Attended, PreviewGoesWithDialog, Drawn
  <2> QED BY <2>1, <2>2
<1> QED BY <1>1, OptionsInvariant, PTL

\* The preview begins with the options and ends with them, however they end: closed,
\* saved, refused, signed out of or loaded anew.
THEOREM PreviewEnds == OptionsSpec => []PreviewGoesWithDialog
<1>1. OptionsInv => PreviewGoesWithDialog
  BY DEF OptionsInv, Attended, PreviewGoesWithDialog
<1> QED BY <1>1, OptionsInvariant, PTL

\* The preferences stay sealed under the key of the account, and a browser whose
\* session is good has that key stored, in force or pending, whatever answer is lost
\* and whatever write to storage fails.
THEOREM KeysAgree == OptionsSpec => []KeysFit
<1>1. OptionsInv => KeysFit
  <2> SUFFICES ASSUME OptionsInv, ~disturbed PROVE PreferencesOpen /\ BrowserHasKey
    BY DEF KeysFit
  <2>1. PreferencesOpen
    BY DEF OptionsInv, Keyed
  <2>2. BrowserHasKey
    BY DEF OptionsInv, Keyed, BrowserHasKey
  <2> QED BY <2>1, <2>2
<1> QED BY <1>1, OptionsInvariant, PTL

=============================================================================
