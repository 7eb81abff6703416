----------------------------- MODULE OptionsMenu -----------------------------
(***************************************************************************)
(* The preferences of an account and the options dialog that changes them: *)
(* the cookie and the preview a page shows, the copy sealed in the account, *)
(* the vault whose key seals it, and the password rotation started in the  *)
(* same dialog.  One page of one browser, its reloads, storage that fails  *)
(* to write, answers that are lost, and another browser of the same user.  *)
(***************************************************************************)
EXTENDS DialogHost, FiniteSets

CONSTANTS None, Langs, Hues, DefaultHue, MaxKeys, MaxFaults, MaxRevision

ASSUME OptionsAssumption ==
    MaxKeys \in Nat \ {0} /\ MaxFaults \in Nat /\ MaxRevision \in Nat /\ DefaultHue \in Hues /\ Langs # {}

VARIABLES
    server,      \* the account: its key, its revision (the digest of contents that are
                 \* sealed anew each time), and its preferences sealed under a key
    session,     \* what the session of the cookie is to the account
    cookie,      \* UserPreferences: style and connected
    preview,     \* the style of PreferencesPreview
    stored,      \* the vault in local storage, and
    vault,       \* its copy in ClientCryptoStorage: active key, pending rotation
    tasks,       \* the futures of the page, each with the request it waits for
    late,        \* requests on their way of futures that are gone
    running,     \* passwordRotationRunning
    saving,      \* the dialogs whose preferencesSaving is set
    succeeded,   \* the dialogs whose passwordRotationSucceeded is set
    minted,      \* the keys used so far
    faults,      \* answers and storage writes that failed so far
    agreed       \* the account's style was last changed by an exchange this page knows of

Styles == [lang : Langs, hue : Hues]
Prefs == [key : Nat, style : Styles]
Pending == [key : Nat, rev : Nat]
Vault == [active : Nat, pending : Pending \cup {None}]
OptionsDialog ==
    [id : 1 .. MaxDialogs, kind : {"options", "other"}, event : {None}, state : {None}, closing : BOOLEAN]

ASSUME NoneIsNothing ==
    /\ None \notin Styles \cup Prefs /\ None \notin Pending /\ None \notin Vault
    /\ NoDialog \notin OptionsDialog

local == <<cookie, preview, stored, vault>>
flags == <<running, saving, succeeded>>
ovars == <<hostvars, server, session, local, tasks, late, flags, minted, faults, agreed>>

Sealed(key, style) == [key |-> key, style |-> style]

Task(kind, step, id) ==
    [kind |-> kind, step |-> step, id |-> id, key |-> 0, prefs |-> None, rev |-> 0]
\* The account with other preferences, and sealed under another key.
Revised(prefs) == [server EXCEPT !.prefs = prefs, !.rev = @ + 1]
Rekeyed(key) ==
    [key |-> key, rev |-> server.rev + 1,
     prefs |-> IF server.prefs = None THEN None ELSE Sealed(key, server.prefs.style)]
Asking == {"sent", "get", "set", "prepare", "finalize"}
Ends(t) == tasks' = tasks \ {t}

Fault == faults < MaxFaults /\ faults' = faults + 1

\* browser_write, browser_remove: storage may refuse.
StorageSets(v) == stored' = v /\ UNCHANGED faults
WriteFails == Fault /\ UNCHANGED stored

Shown == dialog # NoDialog /\ dialog.kind = "options"

\* lang_get, primaryHue_get: what the page is drawn with.
Drawn == IF preview # None THEN preview ELSE cookie.style

(***************************************************************************)
(* The server                                                              *)
(***************************************************************************)
\* A future takes the answer; that of a future that is gone is dropped.
Answered(t, step, prefs) ==
    IF t \in tasks
    THEN tasks' = (tasks \ {t}) \cup {[t EXCEPT !.step = step, !.prefs = prefs, !.rev = server.rev]} /\ UNCHANGED late
    ELSE late' = late \ {t} /\ UNCHANGED tasks

\* The session is behind the account, or there is none: it is flushed.
Refuse(t) ==
    /\ session # "current" /\ session' = "none"
    /\ Answered(t, "denied", t.prefs) /\ UNCHANGED <<server, faults, agreed>>

\* An error of the server or of the network, before anything is done.
Miss(t) == Fault /\ Answered(t, "error", t.prefs) /\ UNCHANGED <<server, session, agreed>>

accountPreferences_set(t) ==
    /\ t.step \in {"sent", "set"} /\ t.kind \in {"save", "login"} /\ session = "current"
    /\ server' = Revised(t.prefs)
    /\ \/ Answered(t, "ok", t.prefs) /\ agreed' = (t \in tasks) /\ UNCHANGED faults
       \/ Fault /\ Answered(t, "error", t.prefs) /\ agreed' = FALSE
    /\ UNCHANGED session

\* What login_apply makes of the answer: the account's style, a first copy of this browser's, or
\* this browser's and a warning.
accountPreferences_get(t) ==
    /\ t.step = "get" /\ session = "current"
    /\ IF server.prefs = None THEN Answered(t, "set", t.prefs) /\ UNCHANGED agreed
       ELSE IF server.prefs.key = t.key THEN Answered(t, "ok", server.prefs) /\ agreed' = (t \in tasks)
       ELSE Answered(t, "error", t.prefs) /\ agreed' = FALSE
    /\ UNCHANGED <<server, session, faults>>

passwordRotation_prepare(t) ==
    /\ t.step = "prepare" /\ session = "current"
    /\ Answered(t, "prepared", server.prefs)
    /\ UNCHANGED <<server, session, faults, agreed>>

\* Applied once, if nothing has changed since it was prepared; the preferences are sealed anew.
passwordRotation_finalize(t) ==
    /\ t.step = "finalize" /\ session = "current"
    /\ \/ server.key = t.key /\ Answered(t, "ok", t.prefs) /\ UNCHANGED <<server, faults>>
       \/ /\ server.key # t.key /\ server.rev # t.rev
          /\ Answered(t, "conflict", t.prefs) /\ UNCHANGED <<server, faults>>
       \/ /\ server.key # t.key /\ server.rev = t.rev
          /\ server' = Rekeyed(t.key)
          /\ (Answered(t, "ok", t.prefs) /\ UNCHANGED faults) \/ (Fault /\ Answered(t, "error", t.prefs))
    /\ UNCHANGED <<session, agreed>>

user_logout(t) ==
    /\ t.kind = "logout" /\ t.step = "sent"
    /\ \/ session' = "none" /\ UNCHANGED faults
       \/ Fault /\ UNCHANGED session
    /\ Answered(t, "ok", t.prefs) /\ UNCHANGED <<server, agreed>>

Serve(t) ==
    /\ t \in tasks \cup late /\ t.step \in Asking
    /\ \/ t.kind # "logout" /\ (Refuse(t) \/ Miss(t))
       \/ accountPreferences_set(t) \/ accountPreferences_get(t)
       \/ passwordRotation_prepare(t) \/ passwordRotation_finalize(t) \/ user_logout(t)
    /\ UNCHANGED <<hostvars, local, flags, minted>>

SessionEnds ==
    /\ session # "none" /\ session' = "none"
    /\ UNCHANGED <<hostvars, server, local, tasks, late, flags, minted, faults, agreed>>

OtherSets(style) ==
    /\ server.rev < MaxRevision
    /\ server' = Revised(Sealed(server.key, style)) /\ agreed' = FALSE
    /\ UNCHANGED <<hostvars, session, local, tasks, late, flags, minted, faults>>

OtherRotates ==
    /\ minted < MaxKeys /\ minted' = minted + 1
    /\ server.prefs # None => server.prefs.key = server.key
    /\ server' = Rekeyed(minted')
    /\ session' = IF session = "current" THEN "behind" ELSE session
    /\ UNCHANGED <<hostvars, local, tasks, late, flags, faults, agreed>>

(***************************************************************************)
(* The state of the browser                                                *)
(***************************************************************************)
Reset(c) == [style |-> [c.style EXCEPT !.hue = DefaultHue], connected |-> FALSE]

\* A faulty variant: the preview outlives the sign-out.
KeepsPreview ==
    /\ vault' = None /\ cookie' = Reset(cookie) /\ UNCHANGED preview
    /\ StorageSets(None) \/ WriteFails

local_clear ==
    /\ vault' = None /\ cookie' = Reset(cookie) /\ preview' = None
    /\ StorageSets(None) \/ WriteFails

\* The page of the account is left: its dialog goes, and its effect, which finds that nobody is
\* signed in, asks the server to sign out.
Leaves(gone) ==
    /\ local_clear /\ clear
    /\ tasks' = (tasks \ gone) \cup (IF cookie.connected THEN {Task("logout", "sent", 0)} ELSE {})

optionsCanClose(d) ==
    d.kind = "options" => d.id \notin saving /\ ~running /\ (vault = None \/ vault.pending = None)

(* ---- signing in and out ---- *)
\* The session id is cycled: what is on its way under the former one is refused.
login_get ==
    /\ ~cookie.connected /\ ~\E t \in tasks : t.kind = "login"
    /\ session' = "current" /\ late' = {}
    /\ tasks' = {IF t.step \notin Asking THEN t ELSE [t EXCEPT !.step = IF t.kind = "logout" THEN "ok" ELSE "denied"] : t \in tasks}
                \cup {[Task("login", "get", 0) EXCEPT !.key = server.key, !.prefs = Sealed(server.key, cookie.style)]}
    /\ agreed' = FALSE
    /\ UNCHANGED <<hostvars, server, local, flags, minted, faults>>

login_apply(t) ==
    /\ t \in tasks /\ t.kind = "login"
    /\ \/ /\ t.step \in {"ok", "error"} /\ Ends(t)
          /\ StorageSets([active |-> t.key, pending |-> None])
          /\ vault' = [active |-> t.key, pending |-> None]
          /\ cookie' = [style |-> t.prefs.style, connected |-> TRUE]
       \/ /\ t.step \in {"ok", "error", "denied"} /\ UNCHANGED <<vault, cookie>>
          /\ tasks' = (tasks \ {t}) \cup {Task("logout", "sent", 0)}
          /\ IF t.step = "denied" THEN UNCHANGED <<stored, faults>> ELSE WriteFails
    /\ UNCHANGED <<hostvars, server, session, preview, late, flags, minted, agreed>>

SignOut ==
    /\ cookie.connected /\ dialog = NoDialog
    /\ tasks' = tasks \cup {Task("logout", "sent", 0)}
    /\ UNCHANGED <<hostvars, server, session, local, late, flags, minted, faults, agreed>>

\* The way out of a rotation whose outcome stays unknown.
pendingLogout ==
    /\ Shown /\ ~running /\ vault # None /\ vault.pending # None /\ dialog.id \notin succeeded
    /\ running' = TRUE /\ tasks' = tasks \cup {Task("logout", "sent", dialog.id)}
    /\ UNCHANGED <<hostvars, server, session, local, late, saving, succeeded, minted, faults, agreed>>

SignedOut(t) ==
    /\ t \in tasks /\ t.kind = "logout" /\ t.step = "ok" /\ Leaves({t})
    /\ running' = (running /\ t.id = 0)
    /\ UNCHANGED <<opened, disturbed, server, session, late, saving, succeeded, minted, agreed>>

\* A request of a module was refused, one asked before the modules were suspended included; a page
\* that a sign-out has closed asks nothing more.  An answer to a save comes to whoever signs in next.
authenticationRequired ==
    /\ cookie.connected /\ session # "current" /\ \A t \in tasks : t.kind = "logout" => t.id # 0
    /\ session' = "none" /\ Leaves({})
    /\ disturbed' = (disturbed \/ \E t \in tasks : t.kind = "save")
    /\ UNCHANGED <<opened, server, late, flags, minted, agreed>>

(* ---- the options ---- *)
preferencesPreview_begin == preview' = cookie.style

openFn ==
    /\ cookie.connected /\ dialog = NoDialog
    /\ Opens(NewDialog("options", None, None)) /\ preferencesPreview_begin
    /\ disturbed' = (disturbed \/ timer \/ \E t \in tasks : t.kind = "logout")
    /\ UNCHANGED <<server, session, cookie, stored, vault, tasks, late, flags, minted, faults, agreed>>

\* A dialog that an answer opens, over the options or over the page, and that can be closed.
OverOptions ==
    /\ cookie.connected /\ Intrudes(NewDialog("other", None, None))
    /\ UNCHANGED <<server, session, local, tasks, late, flags, minted, faults, agreed>>

preferencesPreview_set(style) == preview # None /\ preview' = style

\* The list of languages and the wheel of hues, by pointer or by keys; not during a save.
OptionsPreferences ==
    /\ Shown /\ dialog.id \notin saving
    /\ \E style \in Styles : preferencesPreview_set(style)
    /\ UNCHANGED <<hostvars, server, session, cookie, stored, vault, tasks, late, flags, minted, faults, agreed>>

preferencesPreview_commit ==
    /\ Shown /\ Responds(optionsCanClose(dialog)) /\ preview # None /\ vault # None
    /\ saving' = saving \cup {dialog.id}
    /\ tasks' = tasks \cup {[Task("save", "sent", dialog.id) EXCEPT !.prefs = Sealed(vault.active, preview)]}
    /\ UNCHANGED <<hostvars, server, session, local, late, running, succeeded, minted, faults, agreed>>

\* A faulty variant: the cookie takes the style whatever became of the request.
SavedAnyway(t) ==
    /\ t \in tasks /\ t.kind = "save" /\ Ends(t) /\ saving' = saving \ {t.id}
    /\ t.step \in {"ok", "error"} /\ cookie' = [cookie EXCEPT !.style = t.prefs.style]
    /\ preview' = None /\ clear /\ UNCHANGED <<stored, vault, faults>>
    /\ UNCHANGED <<opened, disturbed, server, session, late, running, succeeded, minted, agreed>>

Saved(t) ==
    /\ t \in tasks /\ t.kind = "save" /\ saving' = saving \ {t.id}
    /\ \/ /\ t.step = "ok" /\ Ends(t) /\ cookie' = [cookie EXCEPT !.style = t.prefs.style]
          /\ preview' = None /\ clear /\ UNCHANGED <<stored, vault, faults>>
       \/ t.step = "denied" /\ Leaves({t})
       \/ t.step = "error" /\ Ends(t) /\ UNCHANGED <<local, dvars, faults>>
    /\ UNCHANGED <<opened, disturbed, server, session, late, running, succeeded, minted, agreed>>

OptionsClose ==
    /\ dialog # NoDialog /\ Responds(optionsCanClose(dialog)) /\ innerAnimateClose
    /\ preview' = IF Shown THEN None ELSE preview
    /\ UNCHANGED <<opened, disturbed, server, session, cookie, stored, vault, tasks, late, flags, minted, faults, agreed>>

OptionsClosed ==
    /\ TimerFires
    /\ UNCHANGED <<opened, disturbed, server, session, local, tasks, late, flags, minted, faults, agreed>>

(* ---- the rotation ---- *)
Resume(id) == [Task("rotate", "finalize", id) EXCEPT !.key = vault.pending.key, !.rev = vault.pending.rev]

\* A faulty variant: a save under way is not looked at.
SubmitWhileSaving ==
    /\ Shown /\ ~running /\ dialog.id \notin succeeded /\ vault # None
    /\ running' = TRUE
    /\ tasks' = tasks \cup {IF vault.pending = None THEN Task("rotate", "prepare", dialog.id) ELSE Resume(dialog.id)}
    /\ UNCHANGED <<hostvars, server, session, local, late, saving, succeeded, minted, faults, agreed>>

submit ==
    /\ Shown /\ ~running /\ dialog.id \notin saving \cup succeeded /\ vault # None
    /\ running' = TRUE
    /\ tasks' = tasks \cup {IF vault.pending = None THEN Task("rotate", "prepare", dialog.id) ELSE Resume(dialog.id)}
    /\ UNCHANGED <<hostvars, server, session, local, late, saving, succeeded, minted, faults, agreed>>

\* The new key is stored before the request that makes it the account's is sent; without it, with a
\* wrong password or contents that do not open, there is no request.
passwordRotation_change(t) ==
    /\ t \in tasks /\ t.step = "prepared"
    /\ \/ /\ minted < MaxKeys /\ vault # None
          /\ t.prefs # None => t.prefs.key = vault.active
          /\ minted' = minted + 1
          /\ LET p == [key |-> minted', rev |-> t.rev] IN
             \/ /\ StorageSets([active |-> vault.active, pending |-> p]) /\ vault' = [vault EXCEPT !.pending = p]
                /\ tasks' = (tasks \ {t}) \cup {[t EXCEPT !.step = "finalize", !.key = minted', !.prefs = None]}
                /\ UNCHANGED running
             \/ WriteFails /\ Ends(t) /\ running' = FALSE /\ UNCHANGED vault
       \/ Ends(t) /\ running' = FALSE /\ UNCHANGED <<stored, vault, minted, faults>>
    /\ UNCHANGED <<hostvars, server, session, cookie, preview, late, saving, succeeded, agreed>>

Owns(t) == vault # None /\ vault.pending # None /\ vault.pending.key = t.key

\* Replaces the vault, in storage and then in memory; or neither.
Replaces(v) ==
    \/ StorageSets(v) /\ vault' = v
    \/ WriteFails /\ UNCHANGED vault

\* A faulty variant: an answer that tells nothing ends the rotation.
DroppedOnError(t) ==
    /\ t \in tasks /\ t.kind = "rotate" /\ running' = FALSE
    /\ \/ t.step \in {"ok", "conflict", "error"} /\ Owns(t) /\ Ends(t) /\ UNCHANGED <<cookie, preview, dvars>>
          /\ Replaces([active |-> IF t.step = "ok" THEN t.key ELSE vault.active, pending |-> None])
       \/ t.step = "denied" /\ Leaves({t})
    /\ succeeded' = IF t.step = "ok" /\ vault' # vault THEN succeeded \cup {t.id} ELSE succeeded
    /\ UNCHANGED <<opened, disturbed, server, session, late, saving, minted, agreed>>

passwordRotation_finalizePending(t) ==
    /\ t \in tasks /\ t.kind = "rotate" /\ running' = FALSE
    /\ \/ /\ t.step \in {"ok", "conflict"} /\ Owns(t) /\ Ends(t) /\ UNCHANGED <<cookie, preview, dvars>>
          /\ Replaces([active |-> IF t.step = "ok" THEN t.key ELSE vault.active, pending |-> None])
       \/ t.step \in {"ok", "conflict"} /\ ~Owns(t) /\ Ends(t) /\ UNCHANGED <<local, faults, dvars>>
       \/ t.step = "error" /\ Ends(t) /\ UNCHANGED <<local, faults, dvars>>
       \/ t.step = "denied" /\ Leaves({t})
    /\ succeeded' = IF t.step = "ok" /\ vault' # vault THEN succeeded \cup {t.id} ELSE succeeded
    /\ UNCHANGED <<opened, disturbed, server, session, late, saving, minted, agreed>>

\* The page is loaded anew: its futures are gone, a pending rotation is resumed, and what a
\* browser that is not signed in still stores is cleared.
initialize ==
    /\ late' = late \cup {t \in tasks : t.step \in Asking}
    /\ dialog' = NoDialog /\ timer' = FALSE /\ preview' = None /\ saving' = {} /\ succeeded' = {}
    /\ agreed' = (agreed /\ tasks = {})
    /\ disturbed' = (disturbed \/ \E t \in tasks : t.kind = "save" /\ t.step \in Asking)
    /\ IF cookie.connected
       THEN /\ vault' = stored /\ UNCHANGED <<cookie, stored, faults>>
            /\ running' = (stored # None /\ stored.pending # None)
            /\ tasks' = IF running' THEN {[Task("rotate", "finalize", 0) EXCEPT !.key = stored.pending.key, !.rev = stored.pending.rev]}
                        ELSE {}
       ELSE /\ cookie' = Reset(cookie) /\ vault' = None /\ running' = FALSE /\ tasks' = {}
            /\ StorageSets(None) \/ (stored # None /\ WriteFails)
    /\ UNCHANGED <<opened, server, session, minted>>

OptionsInit ==
    /\ DialogInit
    /\ server = [key |-> 1, rev |-> 0, prefs |-> None] /\ session = "none"
    /\ cookie \in {[style |-> [lang |-> l, hue |-> DefaultHue], connected |-> FALSE] : l \in Langs}
    /\ preview = None /\ stored = None /\ vault = None /\ tasks = {} /\ late = {}
    /\ running = FALSE /\ saving = {} /\ succeeded = {} /\ minted = 1 /\ faults = 0 /\ agreed = FALSE

OptionsNext ==
    \/ \E t \in tasks \cup late : Serve(t)
    \/ \E t \in tasks :
         \/ login_apply(t) \/ SignedOut(t) \/ Saved(t)
         \/ passwordRotation_change(t) \/ passwordRotation_finalizePending(t)
    \/ login_get \/ SignOut \/ pendingLogout \/ authenticationRequired \/ openFn \/ OverOptions
    \/ OptionsPreferences \/ (\E s \in Styles : OtherSets(s))
    \/ preferencesPreview_commit \/ OptionsClose \/ OptionsClosed \/ submit
    \/ initialize \/ SessionEnds \/ OtherRotates

OptionsSpec == OptionsInit /\ [][OptionsNext]_ovars

(***************************************************************************)
(* Types                                                                   *)
(***************************************************************************)
StepsOf(kind) ==
    CASE kind = "save"   -> {"sent", "ok", "error", "denied"}
      [] kind = "login"  -> {"get", "set", "ok", "error", "denied"}
      [] kind = "logout" -> {"sent", "ok"}
      [] kind = "rotate" -> {"prepare", "prepared", "finalize", "ok", "conflict", "error", "denied"}

\* Preferences go with what saves or reads them.
IsTask(t) ==
    /\ t \in [kind : {"save", "login", "logout", "rotate"}, step : UNION {StepsOf(k) : k \in {"save", "login", "logout", "rotate"}},
              id : 0 .. MaxDialogs, key : Nat, prefs : Prefs \cup {None}, rev : Nat]
    /\ t.step \in StepsOf(t.kind)
    /\ t.kind \in {"save", "login"} => t.prefs \in Prefs

OptionsTypeOK ==
    /\ dialog # NoDialog => dialog \in OptionsDialog
    /\ timer \in BOOLEAN /\ opened \in 0 .. MaxDialogs /\ disturbed \in BOOLEAN
    /\ server \in [key : Nat, rev : Nat, prefs : Prefs \cup {None}]
    /\ session \in {"current", "behind", "none"}
    /\ cookie \in [style : Styles, connected : BOOLEAN] /\ preview \in Styles \cup {None}
    /\ stored \in Vault \cup {None} /\ vault \in Vault \cup {None}
    /\ \A t \in tasks : IsTask(t)
    /\ \A t \in late : IsTask(t) /\ t.step \in Asking
    /\ running \in BOOLEAN /\ saving \subseteq Nat /\ succeeded \subseteq Nat
    /\ minted \in Nat /\ faults \in Nat /\ agreed \in BOOLEAN

(***************************************************************************)
(* Properties                                                              *)
(***************************************************************************)
\* What a signed-in page shows outside the options is what the account has, unless another browser
\* or a request whose answer was lost changed it since.
ShownIsStored ==
    (cookie.connected /\ agreed /\ tasks = {} /\ ~disturbed) =>
        /\ server.prefs # None /\ server.prefs.style = cookie.style
        /\ Shown \/ Drawn = cookie.style

\* The preview lives exactly as long as the options can be used: no page keeps showing a style
\* nobody saved, and no dialog is left whose inputs do nothing.
PreviewGoesWithDialog ==
    ~disturbed => ((preview # None) <=> (Shown /\ ~dialog.closing))

\* The preferences of the account open with its key,
PreferencesOpen == server.prefs # None => server.prefs.key = server.key
\* and a browser whose session is good has that key, in force or pending.
BrowserHasKey ==
    (cookie.connected /\ session = "current" /\ ~\E t \in tasks : t.kind = "login") =>
        stored # None /\ (stored.active = server.key \/ (stored.pending # None /\ stored.pending.key = server.key))
\* Neither is lost to storage that fails to write, to lost answers or to reloads.
KeysFit == ~disturbed => PreferencesOpen /\ BrowserHasKey
===============================================================================
