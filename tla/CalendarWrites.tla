---------------------------- MODULE CalendarWrites ----------------------------
(***************************************************************************)
(* What the calendar writes: the dialogs that create an event, show one    *)
(* and confirm its deletion, the operations they start, and one resource   *)
(* of the CalDAV server which other clients edit as well.                  *)
(*                                                                         *)
(* The resource has a version, its etag, and the dates its event is on: a  *)
(* single event, or a series whose dates may be overridden one by one.  An *)
(* operation is a few requests.  A request may be carried out or not when  *)
(* it is aborted after twenty seconds, and even be carried out afterwards. *)
(***************************************************************************)
EXTENDS DialogHost, FiniteSets

CONSTANTS Dates, Contents, MaxVersion, MaxLost

ASSUME WritesAssumption == MaxVersion \in Nat /\ MaxLost \in Nat /\ Dates # {}

NoEtag == 0

\* What other clients make of the resource.
ASSUME ContentsAssumption ==
    \A c \in Contents : c.kind \in {"gone", "single", "series"} /\ c.overridden \subseteq c.dates /\ c.dates \subseteq Dates

VARIABLES
    resource,    \* what the server holds: version, kind, dates, overridden dates
    created,     \* the events the server was asked for by each create dialog
    grid,        \* the resource as the last refresh read it, with its etag
    ops,         \* the operations under way
    pending,     \* the dialogs whose pending signal is set
    lost,        \* the create dialogs that took an attempt for failed without knowing
    suspended,   \* the holder's network is suspended
    reported,    \* the server gives the etag of an event in a report
    exposed      \* the server lets the browser read the ETag header

wvars == <<dialog, timer, resource, created, grid, ops, pending, lost, opened, suspended, reported,
           exposed, disturbed>>

Deleted == [kind |-> "gone", dates |-> {}, overridden |-> {}]
\* The server's next version of the resource.
Written(content) ==
    [version |-> resource.version + 1, kind |-> content.kind, dates |-> content.dates,
     overridden |-> content.overridden]

Resource == [version : Nat, kind : {"gone", "single", "series"}, dates : SUBSET Dates,
             overridden : SUBSET Dates]
Event == [etag : Nat, date : Dates]
Writes == {"create", "delete_series", "delete_occurrence"}

EventDialog == [id : 1 .. MaxDialogs, kind : {"create", "details", "confirm", "other"},
                event : Event, closing : BOOLEAN,
                state : {"form", "shown", "Loading", "Series", "Single", "Error",
                         "delete_series", "delete_occurrence"}]
Operations == [kind : Writes \cup {"recurrence"}, id : 1 .. MaxDialogs, attempt : Nat,
               event : Event, read : Resource \cup {Deleted},
               step : {"asked", "read", "late", "done", "failed", "over",
                       "Series", "Single", "Error"}]

WritesTypeOK ==
    /\ dialog # NoDialog => dialog \in EventDialog
    /\ timer \in BOOLEAN /\ opened \in 0 .. MaxDialogs /\ disturbed \in BOOLEAN
    /\ resource \in Resource /\ grid \in Resource
    /\ created \in [1 .. MaxDialogs -> Nat] /\ lost \in [1 .. MaxDialogs -> Nat]
    /\ ops \subseteq Operations /\ pending \subseteq 1 .. MaxDialogs
    /\ suspended \in BOOLEAN /\ reported \in BOOLEAN /\ exposed \in BOOLEAN

NoEvent == [etag |-> NoEtag, date |-> CHOOSE d \in Dates : TRUE]

\* A faulty variant: what is pending is not looked at.
AlwaysClosable == dialog # NoDialog

canClose == dialog # NoDialog /\ dialog.id \notin pending

\* An operation is told from earlier ones of its dialog, which may still be on their way.
Operation(kind) ==
    [kind |-> kind, id |-> dialog.id, attempt |-> lost[dialog.id], event |-> dialog.event,
     step |-> "asked", read |-> Deleted]

(* ---- the dialogs ---- *)
calendarCreate_open ==
    /\ dialog = NoDialog /\ ~suspended
    /\ Opens(NewDialog("create", NoEvent, "form"))
    /\ UNCHANGED <<resource, created, grid, ops, pending, lost, suspended, reported, exposed, disturbed>>

\* An event of a series is not always told as such: then the resource is read to find out.
calendarEventDetails_open(date, recurrent) ==
    /\ dialog = NoDialog /\ ~suspended
    /\ date \in grid.dates
    /\ recurrent => grid.kind = "series"
    /\ LET event == [etag |-> IF reported THEN grid.version ELSE NoEtag, date |-> date]
           d == NewDialog("details", event, IF recurrent THEN "Series" ELSE "Loading")
       IN /\ Opens(d)
          /\ ops' = IF recurrent THEN ops
                    ELSE ops \cup {[kind |-> "recurrence", id |-> d.id, attempt |-> 0,
                                    event |-> event, step |-> "asked", read |-> Deleted]}
    /\ UNCHANGED <<resource, created, grid, pending, lost, suspended, reported, exposed, disturbed>>

\* The buttons of the details: one event, or an occurrence or the whole of a series.
Scopes(state) ==
    CASE state = "Single" -> {"delete_series"}
      [] state = "Series" -> {"delete_series", "delete_occurrence"}
      [] OTHER -> {}

calendarDeleteConfirmation_open(scope) ==
    /\ dialog # NoDialog /\ dialog.kind = "details" /\ scope \in Scopes(dialog.state)
    /\ Opens(NewDialog("confirm", dialog.event, scope))
    /\ UNCHANGED <<resource, created, grid, ops, pending, lost, suspended, reported, exposed, disturbed>>

\* Any other dialog.
OtherOpen ==
    /\ ~suspended /\ Intrudes(NewDialog("other", NoEvent, "shown"))
    /\ UNCHANGED <<resource, created, grid, ops, pending, lost, suspended, reported, exposed>>

\* The create button, the delete button: the dialog stays until its operation succeeds.
Validate ==
    /\ Responds(canClose) /\ dialog.kind \in {"create", "confirm"} /\ lost[dialog.id] < MaxLost
    /\ pending' = pending \cup {dialog.id}
    /\ ops' = ops \cup {Operation(IF dialog.kind = "create" THEN "create" ELSE dialog.state)}
    /\ UNCHANGED <<dialog, timer, resource, created, grid, lost, opened, suspended, reported, exposed, disturbed>>

\* The close button, the backdrop, Escape; the options cannot be closed during a rotation.
Close ==
    /\ Responds(canClose) /\ ~suspended
    /\ innerAnimateClose
    /\ UNCHANGED <<resource, created, grid, ops, pending, lost, opened, suspended, reported, exposed, disturbed>>

Closed ==
    /\ TimerFires
    /\ UNCHANGED <<resource, created, grid, ops, pending, lost, opened, suspended, reported, exposed, disturbed>>

(* ---- the requests of an operation ---- *)
Moves(op, step) == ops' = (ops \ {op}) \cup {[op EXCEPT !.step = step]}

\* PUT of a new resource under a fresh name, which no other can have taken.
event_create(op) ==
    /\ op.kind = "create" /\ op.step \in {"asked", "late"}
    /\ \/ created' = [created EXCEPT ![op.id] = @ + 1] /\ Moves(op, IF op.step = "late" THEN "over" ELSE "done")
       \/ op.step = "asked" /\ Moves(op, "failed") /\ UNCHANGED created
    /\ UNCHANGED resource

\* DELETE of the version that was shown.
event_delete_series(op) ==
    /\ op.kind = "delete_series" /\ op.step \in {"asked", "late"}
    /\ IF op.event.etag # NoEtag /\ resource.kind # "gone" /\ op.event.etag = resource.version
       THEN /\ resource' = Written(Deleted)
            /\ Moves(op, IF op.step = "late" THEN "over" ELSE "done")
       ELSE Moves(op, IF op.step = "late" THEN "over" ELSE "failed") /\ UNCHANGED resource
    /\ UNCHANGED created

\* GET of the resource as it is now.
occurrence_read(op) ==
    /\ op.kind = "delete_occurrence" /\ op.step = "asked"
    /\ IF resource.kind = "series" /\ (exposed \/ op.event.etag # NoEtag)
       THEN ops' = (ops \ {op}) \cup {[op EXCEPT !.step = "read", !.read = resource]}
       ELSE Moves(op, "failed")
    /\ UNCHANGED <<resource, created>>

\* The date is excluded from the series; a component that overrides it stays in the resource.
exclude_occurrence(read, date) ==
    [kind |-> "series", dates |-> read.dates \ ({date} \ read.overridden), overridden |-> read.overridden]

\* A faulty variant: the condition of the PUT is left out.
AnyEtag(op) == resource.version

\* The etag of the answer, or the one that was shown when the browser may not read it.
etag_get(op) == IF exposed THEN op.read.version ELSE op.event.etag

event_delete_occurrence(op) ==
    /\ op.kind = "delete_occurrence" /\ op.step \in {"read", "late"}
    /\ IF etag_get(op) = resource.version
       THEN /\ resource' = Written(exclude_occurrence(op.read, op.event.date))
            /\ Moves(op, IF op.step = "late" THEN "over" ELSE "done")
       ELSE Moves(op, IF op.step = "late" THEN "over" ELSE "failed") /\ UNCHANGED resource
    /\ UNCHANGED created

event_recurrence_get(op) ==
    /\ op.kind = "recurrence" /\ op.step = "asked"
    /\ \/ resource.kind = "series" /\ Moves(op, "Series")
       \/ resource.kind = "single" /\ Moves(op, "Single")
       \/ Moves(op, "Error")
    /\ UNCHANGED <<resource, created>>

Request(op) ==
    /\ op \in ops
    /\ event_create(op) \/ event_delete_series(op) \/ occurrence_read(op)
       \/ event_delete_occurrence(op) \/ event_recurrence_get(op)
    /\ resource'.version <= MaxVersion
    /\ UNCHANGED <<dialog, timer, grid, pending, lost, opened, suspended, reported, exposed, disturbed>>

\* The dialog is told of a result: only if it is still the one shown.
Tells(op, state) == dialog' = IF dialog # NoDialog /\ dialog.id = op.id THEN [dialog EXCEPT !.state = state] ELSE dialog

calendarEventRecurrence_resolve(op) ==
    /\ op \in ops /\ op.kind = "recurrence" /\ op.step \in {"Series", "Single", "Error"}
    /\ ops' = ops \ {op}
    /\ IF suspended THEN UNCHANGED dialog ELSE Tells(op, op.step)
    /\ UNCHANGED <<timer, resource, created, grid, pending, lost, opened, suspended, reported, exposed, disturbed>>

\* A faulty variant: pending is reset by a success only.
PendingAfterFailure(op, succeeded, rest) ==
    /\ ops' = (ops \ {op}) \cup rest
    /\ pending' = IF succeeded THEN pending \ {op.id} ELSE pending
    /\ IF succeeded /\ ~suspended THEN clear ELSE UNCHANGED dvars
    /\ UNCHANGED <<resource, created, grid, opened, suspended, reported, exposed, disturbed>>

\* The end of a creation or a deletion.  `rest` is what the server may still do with a request
\* that was given up.  A suspended network drops the end, after pending is reset for a deletion only.
Finish(op, succeeded, rest) ==
    /\ ops' = (ops \ {op}) \cup rest
    /\ pending' = IF suspended /\ op.kind = "create" THEN pending ELSE pending \ {op.id}
    /\ IF succeeded /\ ~suspended THEN clear ELSE UNCHANGED dvars
    /\ UNCHANGED <<resource, created, grid, opened, suspended, reported, exposed, disturbed>>

Answer(op) ==
    /\ op \in ops /\ op.kind \in Writes /\ op.step \in {"done", "failed"}
    /\ Finish(op, op.step = "done", {})
    /\ UNCHANGED lost

\* Twenty seconds: the request may not have arrived yet, or its answer not come back.
Abort(op) ==
    /\ op \in ops /\ op.kind \in Writes /\ op.step \in {"asked", "read", "done"}
    /\ \E rest \in {{}} \cup (IF op.step = "read" \/ (op.step = "asked" /\ op.kind # "delete_occurrence")
                              THEN {{[op EXCEPT !.step = "late"]}} ELSE {}) :
         /\ Finish(op, FALSE, rest)
         /\ lost' = IF op.kind = "create" /\ (op.step = "done" \/ rest # {})
                    THEN [lost EXCEPT ![op.id] = @ + 1] ELSE lost

Over(op) ==
    /\ op \in ops /\ op.step = "over" /\ ops' = ops \ {op}
    /\ UNCHANGED <<dialog, timer, resource, created, grid, pending, lost, opened, suspended, reported, exposed, disturbed>>

(* ---- around the dialogs ---- *)
OtherClient(content) ==
    /\ resource.version < MaxVersion /\ resource' = Written(content)
    /\ UNCHANGED <<dialog, timer, created, grid, ops, pending, lost, opened, suspended, reported, exposed, disturbed>>

\* The grid is only looked at between two dialogs, so it is only refreshed there.
GridRefresh ==
    /\ dialog = NoDialog /\ grid # resource /\ ~suspended /\ grid' = resource
    /\ UNCHANGED <<dialog, timer, resource, created, ops, pending, lost, opened, suspended, reported, exposed, disturbed>>

\* A password rotation is started and ended in the options, which takes longer than an animation.
Suspension ==
    /\ dialog # NoDialog /\ dialog.kind = "other" /\ ~timer
    /\ suspended' = ~suspended
    /\ UNCHANGED <<dialog, timer, resource, created, grid, ops, pending, lost, opened, reported, exposed, disturbed>>

WritesInit ==
    /\ DialogInit
    /\ resource \in {[version |-> 1, kind |-> c.kind, dates |-> c.dates, overridden |-> c.overridden] : c \in Contents}
    /\ created = [id \in 1 .. MaxDialogs |-> 0] /\ lost = created
    /\ grid = resource /\ ops = {} /\ pending = {}
    /\ suspended = FALSE /\ reported \in BOOLEAN /\ exposed \in BOOLEAN

WritesNext ==
    \/ calendarCreate_open \/ OtherOpen \/ Validate \/ Close \/ Closed
    \/ \E d \in Dates, r \in BOOLEAN : calendarEventDetails_open(d, r)
    \/ \E s \in {"delete_series", "delete_occurrence"} : calendarDeleteConfirmation_open(s)
    \/ \E op \in ops : Request(op) \/ calendarEventRecurrence_resolve(op) \/ Answer(op) \/ Abort(op) \/ Over(op)
    \/ \E c \in Contents : OtherClient(c)
    \/ GridRefresh \/ Suspension

WritesSpec == WritesInit /\ [][WritesNext]_wvars

(***************************************************************************)
(* Properties                                                              *)
(***************************************************************************)
\* What the user did not mean to delete stays: a whole resource is only deleted in the version that
\* was shown, and an occurrence is taken out of the newest version, whatever other clients wrote
\* meanwhile, and nothing else with it.  An overridden occurrence is not even taken out
\* (icalendar_codec.rs:334 only excludes the date).
OthersEditsSurvive ==
    [][\A op \in ops : resource' # resource /\ op \notin ops' /\ op.kind \in Writes =>
         IF op.kind = "delete_series" THEN resource.version = op.event.etag
         ELSE /\ resource'.dates = resource.dates \ ({op.event.date} \ resource.overridden)
              /\ resource'.overridden = resource.overridden]_wvars

\* A dialog that cannot be closed or validated has an operation under way that will release it.
PendingIsUnderWay ==
    (dialog # NoDialog /\ ~canClose) =>
        \E op \in ops : op.id = dialog.id /\ op.kind \in Writes /\ op.step \notin {"late", "over"}

\* One create dialog makes one event, but for the attempts it took for failed without knowing.
CreatedOnce == \A id \in 1 .. MaxDialogs : created[id] <= 1 + lost[id]
===============================================================================
