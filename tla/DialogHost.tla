------------------------------ MODULE DialogHost ------------------------------
(***************************************************************************)
(* The one place for dialogs of a page: the dialog shown, and the timer of *)
(* the animation that closes it.  Opening a dialog replaces the one shown, *)
(* whose close action never runs; closing starts the timer, and the timer  *)
(* takes down whatever dialog is shown when it fires.                      *)
(***************************************************************************)
EXTENDS Naturals

CONSTANTS NoDialog, MaxDialogs

ASSUME DialogAssumption == MaxDialogs \in Nat

VARIABLES dialog,     \* DialogManager.dialog
          timer,      \* the closing animation runs
          opened,     \* dialogs opened so far
          disturbed   \* a dialog came up by itself over another or over the animation, or on a page
                      \* that was being left, or a page was left during a save

dvars == <<dialog, timer>>
hostvars == <<dialog, timer, opened, disturbed>>

DialogInit == dialog = NoDialog /\ timer = FALSE /\ opened = 0 /\ disturbed = FALSE

open(d) == dialog' = d /\ UNCHANGED timer

NewDialog(kind, event, state) ==
    [id |-> opened + 1, kind |-> kind, event |-> event, state |-> state, closing |-> FALSE]

Opens(d) == opened < MaxDialogs /\ opened' = opened + 1 /\ open(d)

\* A dialog opened by an answer, the content of a mail, over whatever is shown; or by the user.
Intrudes(d) == Opens(d) /\ disturbed' = (disturbed \/ dialog # NoDialog \/ timer)

innerClose == dialog' = NoDialog
clear == innerClose /\ UNCHANGED timer

\* The buttons, the backdrop and Escape do nothing while the animation runs.
Responds(canClose) == dialog # NoDialog /\ ~timer /\ canClose

innerAnimateClose == dialog' = [dialog EXCEPT !.closing = TRUE] /\ timer' = TRUE

TimerFires == timer /\ timer' = FALSE /\ innerClose
===============================================================================
