---------------------------- MODULE Calendar_proofs ----------------------------
(***************************************************************************)
(* Proofs about the three parts of the calendar module.  CalendarWrites,   *)
(* first, for any dates and contents, and any number of dialogs, versions  *)
(* and lost attempts.  CalendarRefresh, after it, for any calendar of      *)
(* months and years, any servers, collections, events and countries, and   *)
(* any number of edits and overlapping refreshes.  DavMultistatus, last,   *)
(* for any properties, limits and lengths of a document.                   *)
(***************************************************************************)
EXTENDS CalendarWrites, CalendarRefresh, DavMultistatus, Integers, FiniteSetTheorems, SequenceTheorems, TLAPS

-----------------------------------------------------------------------------
(* CalendarWrites: the inductive invariant. *)

Active(op) == op.kind \in Writes /\ op.step \in {"asked", "read", "done", "failed"}

\* Dialogs are numbered as they are opened; the network is only suspended under
\* the options; and the operations of a dialog are those its kind starts.
HostFits ==
    /\ dialog # NoDialog => dialog.id \in 1 .. opened
    /\ suspended => dialog # NoDialog /\ dialog.kind = "other" /\ ~timer
    /\ pending \subseteq 1 .. opened
    /\ \A op \in ops : op.id \in 1 .. opened
    /\ dialog # NoDialog /\ dialog.kind = "confirm" => dialog.state \in Writes \ {"create"}
    /\ \A op \in ops : dialog # NoDialog /\ dialog.id = op.id =>
         /\ op.kind = "create" <=> dialog.kind = "create"
         /\ op.kind = "recurrence" <=> dialog.kind = "details"

\* A dialog writes one thing at a time, and is pending meanwhile.
OneEach ==
    /\ IsFiniteSet(ops)
    /\ \A op \in ops : op.kind \in Writes => Active(op) \/ op.step \in {"late", "over"}
    /\ \A op \in ops : op.step = "read" => op.kind = "delete_occurrence"
    /\ \A op \in ops : Active(op) => op.id \in pending
    /\ \A op, other \in ops : Active(op) /\ Active(other) /\ op.id = other.id => op = other

\* A version tells the content, and what was read for an occurrence is no older
\* than what was shown.
Versions ==
    /\ grid.version <= resource.version
    /\ dialog # NoDialog => dialog.event.etag <= resource.version
    /\ \A op \in ops : op.event.etag <= resource.version
    /\ \A op \in ops : op.kind = "delete_occurrence" /\ op.step \in {"read", "late"} =>
         /\ op.read \in Resource
         /\ op.event.etag <= op.read.version /\ op.read.version <= resource.version
         /\ op.read.version = resource.version => op.read = resource

\* The attempts of a create dialog that may still be carried out unseen.
IsLate(op) == op.kind = "create" /\ op.step = "late"
LateOps(id) == {op \in ops : IsLate(op) /\ op.id = id}
Late(id) == Cardinality(LateOps(id))

\* The attempts that are lost make up for the events made, and one attempt more
\* only while the dialog may not be validated again.
MayAsk(id) ==
    \/ opened < id
    \/ dialog # NoDialog /\ dialog.kind = "create" /\ dialog.id = id /\ id \notin pending
    \/ \E op \in ops : op.kind = "create" /\ op.id = id /\ op.step \in {"asked", "failed"}

Attempts ==
    \A id \in 1 .. MaxDialogs :
      /\ created[id] + Late(id) <= lost[id] + 1
      /\ MayAsk(id) => created[id] + Late(id) <= lost[id]

WritesInv == WritesTypeOK /\ HostFits /\ OneEach /\ Versions /\ PendingIsUnderWay /\ Attempts

-----------------------------------------------------------------------------
(* Operations. *)

LEMMA OperationParts ==
    ASSUME WritesInv, NEW op \in ops
    PROVE  /\ op \in Operations /\ op.id \in 1 .. MaxDialogs /\ op.id \in Nat
           /\ op.kind \in Writes \cup {"recurrence"} /\ op.event \in Event
           /\ op.event.etag \in Nat /\ op.event.date \in Dates
BY DEF WritesInv, WritesTypeOK, Operations, Event

LEMMA VersionParts ==
    ASSUME WritesInv
    PROVE  /\ resource.version \in Nat /\ grid.version \in Nat /\ MaxDialogs \in Nat /\ opened \in Nat
           /\ dialog # NoDialog => /\ dialog \in EventDialog /\ dialog.id \in 1 .. MaxDialogs
                                   /\ dialog.event \in Event /\ dialog.event.etag \in Nat
BY DialogAssumption DEF WritesInv, WritesTypeOK, Resource, EventDialog, Event

LEMMA LateParts ==
    ASSUME WritesInv, NEW id \in 1 .. MaxDialogs
    PROVE  /\ IsFiniteSet(LateOps(id)) /\ Late(id) \in Nat
           /\ created[id] \in Nat /\ lost[id] \in Nat
<1>1. IsFiniteSet(LateOps(id))
  <2>1. LateOps(id) \in SUBSET ops
    BY DEF LateOps
  <2> QED BY <2>1, FS_Subset DEF WritesInv, OneEach
<1>2. Late(id) \in Nat
  BY <1>1, FS_CardinalityType DEF Late
<1> QED BY <1>1, <1>2 DEF WritesInv, WritesTypeOK

\* No late attempt comes or goes.
LEMMA LateStays ==
    ASSUME \A op \in ops : IsLate(op) => op \in ops',
           \A op \in ops' : IsLate(op) => op \in ops
    PROVE  \A id : Late(id)' = Late(id)
<1>1. \A id : LateOps(id)' = LateOps(id)
  BY DEF LateOps, IsLate
<1> QED BY <1>1 DEF Late

LEMMA AttemptsStay ==
    ASSUME WritesInv, UNCHANGED <<created, lost>>,
           \A op \in ops : IsLate(op) => op \in ops',
           \A op \in ops' : IsLate(op) => op \in ops,
           \A id \in 1 .. MaxDialogs : MayAsk(id)' => MayAsk(id)
    PROVE  Attempts'
<1>1. \A id : Late(id)' = Late(id)
  BY LateStays
<1> QED BY <1>1 DEF WritesInv, Attempts

-----------------------------------------------------------------------------
(* Steps that start no writing operation and end none. *)

\* The dialog shown is still the same one.
SameDialog ==
    dialog' # NoDialog =>
      /\ dialog # NoDialog /\ dialog'.id = dialog.id /\ dialog'.kind = dialog.kind
      /\ dialog'.event = dialog.event
      /\ dialog.kind = "confirm" => dialog'.state = dialog.state

\* The resource stays, or another version replaces it.
Advances == resource' = resource \/ resource'.version = resource.version + 1

LEMMA VersionsStay ==
    ASSUME WritesInv, WritesTypeOK', Advances, grid' \in {grid, resource}, SameDialog, ops' \subseteq ops
    PROVE  Versions'
<1>1. /\ resource.version \in Nat /\ resource'.version \in Nat /\ resource.version <= resource'.version
      /\ grid.version <= resource.version /\ grid.version \in Nat
      /\ resource' = resource \/ resource.version < resource'.version
  BY VersionParts DEF WritesInv, WritesTypeOK, Versions, Advances, Resource
<1>2. grid'.version <= resource'.version
  BY <1>1
<1>3. dialog' # NoDialog => dialog'.event.etag <= resource'.version
  BY <1>1, VersionParts DEF SameDialog, WritesInv, Versions
<1>4. \A op \in ops' : op.event.etag <= resource'.version
  BY <1>1, OperationParts DEF WritesInv, Versions
<1>5. ASSUME NEW op \in ops', op.kind = "delete_occurrence", op.step \in {"read", "late"}
      PROVE  /\ op.read \in Resource
             /\ op.event.etag <= op.read.version /\ op.read.version <= resource'.version
             /\ op.read.version = resource'.version => op.read = resource'
  <2>1. /\ op.read \in Resource
        /\ op.event.etag <= op.read.version /\ op.read.version <= resource.version
        /\ op.read.version = resource.version => op.read = resource
    BY <1>5 DEF WritesInv, Versions
  <2>2. op.read.version \in Nat
    BY <2>1 DEF Resource
  <2> QED BY <1>1, <2>1, <2>2
<1> QED BY <1>2, <1>3, <1>4, <1>5 DEF Versions

LEMMA Frame ==
    ASSUME WritesInv, WritesTypeOK', Advances, grid' \in {grid, resource}, SameDialog,
           UNCHANGED <<pending, created, lost, opened>>,
           ops' \subseteq ops,
           \A op \in ops \ ops' : ~Active(op) /\ ~IsLate(op),
           suspended' => dialog' # NoDialog /\ dialog'.kind = "other" /\ ~timer'
    PROVE  WritesInv'
<1>1. Versions'
  BY VersionsStay
<1>2. HostFits'
  BY DEF WritesInv, HostFits, SameDialog
<1>3. OneEach'
  BY FS_Subset DEF WritesInv, OneEach, Active
<1>4. PendingIsUnderWay'
  <2>1. SUFFICES ASSUME dialog' # NoDialog, dialog'.id \in pending'
                 PROVE  \E op \in ops' : op.id = dialog'.id /\ op.kind \in Writes /\ op.step \notin {"late", "over"}
    BY DEF PendingIsUnderWay, canClose
  <2>2. dialog # NoDialog /\ dialog.id = dialog'.id /\ dialog.id \in pending
    BY <2>1 DEF SameDialog
  <2>3. PICK op \in ops : op.id = dialog.id /\ op.kind \in Writes /\ op.step \notin {"late", "over"}
    BY <2>2 DEF WritesInv, PendingIsUnderWay, canClose
  <2>4. Active(op)
    BY <2>3 DEF WritesInv, OneEach
  <2> QED BY <2>2, <2>3, <2>4
<1>5. Attempts'
  <2>1. \A id \in 1 .. MaxDialogs : MayAsk(id)' => MayAsk(id)
    BY DEF MayAsk, SameDialog
  <2> QED BY <2>1, AttemptsStay
<1> QED BY <1>1, <1>2, <1>3, <1>4, <1>5 DEF WritesInv

LEMMA StepClose ==
    ASSUME WritesInv, Close \/ Closed
    PROVE  WritesInv'
<1>1. UNCHANGED <<resource, created, grid, ops, pending, lost, opened, suspended, reported, exposed, disturbed>>
  BY DEF Close, Closed
<1>2. CASE Close
  <2>1. dialog # NoDialog /\ ~suspended /\ timer' = TRUE /\ dialog' = [dialog EXCEPT !.closing = TRUE]
    BY <1>2 DEF Close, Responds, innerAnimateClose
  <2>2. /\ dialog' \in EventDialog /\ dialog'.id = dialog.id /\ dialog'.kind = dialog.kind
        /\ dialog'.event = dialog.event /\ dialog'.state = dialog.state
    BY <2>1, VersionParts DEF EventDialog
  <2>3. SameDialog
    BY <2>1, <2>2 DEF SameDialog
  <2>4. WritesTypeOK'
    BY <1>1, <2>1, <2>2 DEF WritesInv, WritesTypeOK
  <2> QED BY <1>1, <2>1, <2>3, <2>4, Frame DEF Advances
<1>3. CASE Closed
  <2>1. timer /\ timer' = FALSE /\ dialog' = NoDialog
    BY <1>3 DEF Closed, TimerFires, innerClose
  <2>2. ~suspended
    BY <2>1 DEF WritesInv, HostFits
  <2>3. SameDialog
    BY <2>1 DEF SameDialog
  <2>4. WritesTypeOK'
    BY <1>1, <2>1 DEF WritesInv, WritesTypeOK
  <2> QED BY <1>1, <2>1, <2>2, <2>3, <2>4, Frame DEF Advances
<1> QED BY <1>2, <1>3

LEMMA StepResolve ==
    ASSUME WritesInv, NEW op \in ops, calendarEventRecurrence_resolve(op) \/ Over(op)
    PROVE  WritesInv'
<1>1. /\ ops' = ops \ {op}
      /\ UNCHANGED <<timer, resource, created, grid, pending, lost, opened, suspended, reported, exposed, disturbed>>
  BY DEF calendarEventRecurrence_resolve, Over
<1>2. ~Active(op) /\ ~IsLate(op)
  BY DEF calendarEventRecurrence_resolve, Over, Active, IsLate, Writes
<1>3. \/ dialog' = dialog
      \/ /\ dialog # NoDialog /\ dialog.id = op.id /\ op.kind = "recurrence"
         /\ \E state \in {"Series", "Single", "Error"} : dialog' = [dialog EXCEPT !.state = state]
  BY DEF calendarEventRecurrence_resolve, Over, Tells
<1>4. /\ dialog' # NoDialog => dialog' \in EventDialog
      /\ SameDialog /\ (suspended => dialog' # NoDialog /\ dialog'.kind = "other")
  <2>1. CASE dialog' = dialog
    BY <2>1, VersionParts DEF SameDialog, WritesInv, HostFits
  <2>2. CASE /\ dialog # NoDialog /\ dialog.id = op.id /\ op.kind = "recurrence"
             /\ \E state \in {"Series", "Single", "Error"} : dialog' = [dialog EXCEPT !.state = state]
    <3>1. dialog \in EventDialog /\ dialog.kind = "details" /\ ~suspended
      BY <2>2, VersionParts DEF WritesInv, HostFits
    <3>2. /\ dialog' \in EventDialog /\ dialog'.id = dialog.id /\ dialog'.kind = dialog.kind
          /\ dialog'.event = dialog.event
      BY <2>2, <3>1 DEF EventDialog
    <3> QED BY <2>2, <3>1, <3>2 DEF SameDialog
  <2> QED BY <1>3, <2>1, <2>2
<1>5. WritesTypeOK'
  BY <1>1, <1>4 DEF WritesInv, WritesTypeOK
<1>6. suspended' => dialog' # NoDialog /\ dialog'.kind = "other" /\ ~timer'
  BY <1>1, <1>4 DEF WritesInv, HostFits
<1> QED BY <1>1, <1>2, <1>4, <1>5, <1>6, Frame DEF Advances

LEMMA StepAround ==
    ASSUME WritesInv, GridRefresh \/ Suspension \/ \E c \in Contents : OtherClient(c)
    PROVE  WritesInv'
<1>1. /\ UNCHANGED <<dialog, timer, created, ops, pending, lost, opened, reported, exposed, disturbed>>
      /\ grid' \in {grid, resource} /\ suspended' \in BOOLEAN
      /\ suspended' => dialog # NoDialog /\ dialog.kind = "other" /\ ~timer
  <2>1. CASE GridRefresh
    BY <2>1 DEF GridRefresh, WritesInv, WritesTypeOK
  <2>2. CASE Suspension
    BY <2>2 DEF Suspension, WritesInv, WritesTypeOK
  <2>3. CASE \E c \in Contents : OtherClient(c)
    BY <2>3 DEF OtherClient, WritesInv, WritesTypeOK, HostFits
  <2> QED BY <2>1, <2>2, <2>3
<1>2. resource' = resource \/ \E c \in Contents : resource' = Written(c)
  BY DEF GridRefresh, Suspension, OtherClient
<1>3. resource' \in Resource /\ Advances
  BY <1>2, VersionParts, ContentsAssumption DEF Written, Resource, Advances, WritesInv, WritesTypeOK
<1>4. WritesTypeOK'
  BY <1>1, <1>3 DEF WritesInv, WritesTypeOK
<1>5. SameDialog
  BY <1>1 DEF SameDialog
<1> QED BY <1>1, <1>3, <1>4, <1>5, Frame

-----------------------------------------------------------------------------
(* Steps that open a dialog. *)

\* The reading that the details of an event may start.
Reads(new) ==
    /\ new \in Operations /\ new.kind = "recurrence" /\ new.id = opened + 1 /\ new.step = "asked"
    /\ new.event.etag <= resource.version

LEMMA Opened ==
    ASSUME WritesInv, dialog' \in EventDialog, dialog'.id = opened + 1, opened < MaxDialogs,
           opened' = opened + 1, ~suspended, timer' = timer, disturbed' \in BOOLEAN,
           UNCHANGED <<resource, created, grid, pending, lost, suspended, reported, exposed>>,
           dialog'.event.etag <= resource.version,
           dialog'.kind = "confirm" => dialog'.state \in Writes \ {"create"},
           ops' = ops \/ (\E new : Reads(new) /\ ops' = ops \cup {new} /\ dialog'.kind = "details")
    PROVE  WritesInv'
<1>1. \A op \in ops' : op \in ops \/ (Reads(op) /\ dialog'.kind = "details")
  OBVIOUS
<1>2. opened \in Nat /\ MaxDialogs \in Nat /\ opened + 1 \in 1 .. MaxDialogs /\ opened + 1 \notin 1 .. opened
  BY VersionParts
<1>3. \A op \in ops' : Active(op) \/ IsLate(op) => op \in ops
  BY <1>1 DEF Reads, Active, IsLate, Writes
<1>4. ops \subseteq ops'
  OBVIOUS
<1>5. WritesTypeOK'
  <2>1. ops' \subseteq Operations
    BY <1>1 DEF Reads, WritesInv, WritesTypeOK
  <2> QED BY <1>2, <2>1 DEF WritesInv, WritesTypeOK
<1>6. HostFits'
  <2>1. \A op \in ops : op.id \in 1 .. opened
    BY DEF WritesInv, HostFits
  <2>2. pending' \subseteq 1 .. opened'
    BY <1>2 DEF WritesInv, HostFits
  <2>3. \A op \in ops' : op.id \in 1 .. opened'
    BY <1>1, <1>2, <2>1 DEF Reads
  <2>4. ASSUME NEW op \in ops', dialog'.id = op.id
        PROVE  /\ op.kind = "create" <=> dialog'.kind = "create"
               /\ op.kind = "recurrence" <=> dialog'.kind = "details"
    BY <1>1, <1>2, <2>1, <2>4 DEF Reads
  <2> QED BY <1>2, <2>2, <2>3, <2>4 DEF HostFits
<1>7. OneEach'
  <2>1. IsFiniteSet(ops')
    BY FS_AddElement DEF WritesInv, OneEach
  <2>2. \A op \in ops' : op.kind \in Writes \/ op.step = "read" => op \in ops
    BY <1>1 DEF Reads, Writes
  <2> QED BY <2>1, <2>2 DEF WritesInv, OneEach, Active
<1>8. Versions'
  <2>1. \A op \in ops' : op.event.etag <= resource.version
    BY <1>1 DEF Reads, WritesInv, Versions
  <2>2. \A op \in ops' : op.kind = "delete_occurrence" => op \in ops
    BY <1>1 DEF Reads
  <2> QED BY <2>1, <2>2 DEF WritesInv, Versions
<1>9. PendingIsUnderWay'
  BY <1>2 DEF WritesInv, HostFits, PendingIsUnderWay, canClose
<1>10. Attempts'
  <2>1. ASSUME NEW id \in 1 .. MaxDialogs, MayAsk(id)' PROVE MayAsk(id)
    <3>1. CASE opened' < id
      BY <1>2, <3>1 DEF MayAsk
    <3>2. CASE dialog'.id = id
      BY <1>2, <3>2 DEF MayAsk
    <3>3. CASE \E op \in ops' : op.kind = "create" /\ op.id = id /\ op.step \in {"asked", "failed"}
      BY <1>1, <3>3 DEF MayAsk, Reads
    <3> QED BY <2>1, <3>1, <3>2, <3>3 DEF MayAsk
  <2> QED BY <1>3, <1>4, <2>1, AttemptsStay
<1> QED BY <1>5, <1>6, <1>7, <1>8, <1>9, <1>10 DEF WritesInv

LEMMA StepOpen ==
    ASSUME WritesInv,
           \/ calendarCreate_open \/ OtherOpen
           \/ \E d \in Dates, r \in BOOLEAN : calendarEventDetails_open(d, r)
           \/ \E s \in {"delete_series", "delete_occurrence"} : calendarDeleteConfirmation_open(s)
    PROVE  WritesInv'
<1>1. /\ opened \in Nat /\ resource.version \in Nat /\ grid.version \in Nat /\ grid.version <= resource.version
      /\ opened < MaxDialogs => opened + 1 \in 1 .. MaxDialogs
      /\ disturbed \in BOOLEAN
  BY VersionParts DEF WritesInv, Versions, WritesTypeOK
<1>2. NoEvent \in Event /\ NoEvent.etag <= resource.version
  BY <1>1, WritesAssumption DEF NoEvent, Event, NoEtag
<1>3. ASSUME NEW kind \in {"create", "details", "confirm", "other"}, NEW event \in Event,
             NEW state \in {"form", "shown", "Loading", "Series", "Single", "Error",
                            "delete_series", "delete_occurrence"}, opened < MaxDialogs
      PROVE  LET d == NewDialog(kind, event, state)
             IN /\ d \in EventDialog /\ d.id = opened + 1 /\ d.kind = kind /\ d.event = event /\ d.state = state
  BY <1>1, <1>3 DEF NewDialog, EventDialog
<1>4. CASE calendarCreate_open
  <2>1. dialog' = NewDialog("create", NoEvent, "form") /\ opened < MaxDialogs
    BY <1>4 DEF calendarCreate_open, Opens, open
  <2> QED BY <1>1, <1>2, <1>3, <1>4, <2>1, Opened DEF calendarCreate_open, Opens, open
<1>5. CASE OtherOpen
  <2>1. dialog' = NewDialog("other", NoEvent, "shown") /\ opened < MaxDialogs /\ disturbed' \in BOOLEAN
    BY <1>5 DEF OtherOpen, Intrudes, Opens, open, WritesInv, WritesTypeOK
  <2> QED BY <1>1, <1>2, <1>3, <1>5, <2>1, Opened DEF OtherOpen, Intrudes, Opens, open
<1>6. ASSUME NEW d \in Dates, NEW r \in BOOLEAN, calendarEventDetails_open(d, r)
      PROVE  WritesInv'
  <2> DEFINE event == [etag |-> IF reported THEN grid.version ELSE NoEtag, date |-> d]
             new == [kind |-> "recurrence", id |-> opened + 1, attempt |-> 0,
                     event |-> event, step |-> "asked", read |-> Deleted]
  <2>1. /\ dialog' = NewDialog("details", event, IF r THEN "Series" ELSE "Loading")
        /\ opened < MaxDialogs /\ opened' = opened + 1 /\ timer' = timer /\ ~suspended
        /\ ops' = IF r THEN ops ELSE ops \cup {new}
        /\ UNCHANGED <<resource, created, grid, pending, lost, suspended, reported, exposed, disturbed>>
    BY <1>6 DEF calendarEventDetails_open, Opens, open, NewDialog
  <2>2. event \in Event /\ event.etag <= resource.version
    BY <1>1 DEF Event, NoEtag
  <2>3. Reads(new)
    BY <1>1, <2>1, <2>2 DEF Reads, Operations
  <2> HIDE DEF event, new
  <2>4. /\ dialog' \in EventDialog /\ dialog'.id = opened + 1 /\ dialog'.kind = "details"
        /\ dialog'.event = event
    BY <1>3, <2>1, <2>2
  <2> QED BY <1>1, <2>1, <2>2, <2>3, <2>4, Opened
<1>7. ASSUME NEW s \in {"delete_series", "delete_occurrence"}, calendarDeleteConfirmation_open(s)
      PROVE  WritesInv'
  <2>1. /\ dialog' = NewDialog("confirm", dialog.event, s)
        /\ opened < MaxDialogs /\ opened' = opened + 1 /\ timer' = timer
        /\ dialog # NoDialog /\ dialog.kind = "details"
        /\ UNCHANGED <<resource, created, grid, ops, pending, lost, suspended, reported, exposed, disturbed>>
    BY <1>7 DEF calendarDeleteConfirmation_open, Opens, open
  <2>2. dialog.event \in Event /\ dialog.event.etag <= resource.version /\ ~suspended
    BY <2>1, VersionParts DEF WritesInv, Versions, HostFits
  <2>3. /\ dialog' \in EventDialog /\ dialog'.id = opened + 1 /\ dialog'.kind = "confirm"
        /\ dialog'.event = dialog.event /\ dialog'.state = s
    BY <1>3, <2>1, <2>2
  <2>4. s \in Writes \ {"create"}
    BY DEF Writes
  <2> QED BY <1>1, <2>1, <2>2, <2>3, <2>4, Opened
<1> QED BY <1>4, <1>5, <1>6, <1>7

-----------------------------------------------------------------------------
(* Steps of the operations that write. *)

\* What another operation of the same dialog would have to be.
LEMMA OnlyOne ==
    ASSUME WritesInv, NEW op \in ops, Active(op)
    PROVE  \A other \in ops \ {op} : Active(other) => other.id # op.id
BY DEF WritesInv, OneEach

LEMMA StepValidate ==
    ASSUME WritesInv, Validate
    PROVE  WritesInv'
<1> DEFINE new == Operation(IF dialog.kind = "create" THEN "create" ELSE dialog.state)
<1>1. /\ dialog # NoDialog /\ dialog.id \notin pending /\ dialog.kind \in {"create", "confirm"}
      /\ pending' = pending \cup {dialog.id} /\ ops' = ops \cup {new}
      /\ UNCHANGED <<dialog, timer, resource, created, grid, lost, opened, suspended, reported, exposed, disturbed>>
  BY DEF Validate, Responds, canClose
<1>2. dialog \in EventDialog /\ dialog.id \in 1 .. MaxDialogs /\ dialog.id \in 1 .. opened /\ lost[dialog.id] \in Nat
  BY <1>1, VersionParts, LateParts DEF WritesInv, HostFits
<1>3. /\ new \in Operations /\ new.id = dialog.id /\ new.event = dialog.event /\ new.step = "asked"
      /\ new.kind \in Writes
      /\ new.kind = "create" <=> dialog.kind = "create"
  <2>1. (IF dialog.kind = "create" THEN "create" ELSE dialog.state) \in Writes
    BY <1>1 DEF WritesInv, HostFits, Writes
  <2>2. (IF dialog.kind = "create" THEN "create" ELSE dialog.state) = "create" <=> dialog.kind = "create"
    BY <1>1 DEF WritesInv, HostFits
  <2> QED BY <1>1, <1>2, <2>1, <2>2 DEF Operation, Operations, EventDialog
<1> HIDE DEF new
<1>4. WritesTypeOK'
  BY <1>1, <1>2, <1>3 DEF WritesInv, WritesTypeOK
<1>5. HostFits'
  <2>1. pending' \subseteq 1 .. opened'
    BY <1>1, <1>2 DEF WritesInv, HostFits
  <2>2. \A op \in ops' : op.id \in 1 .. opened'
    BY <1>1, <1>2, <1>3 DEF WritesInv, HostFits
  <2>3. ASSUME NEW op \in ops', dialog'.id = op.id
        PROVE  /\ op.kind = "create" <=> dialog'.kind = "create"
               /\ op.kind = "recurrence" <=> dialog'.kind = "details"
    <3>1. CASE op \in ops
      BY <1>1, <2>3, <3>1 DEF WritesInv, HostFits
    <3>2. CASE op = new
      BY <1>1, <1>3, <3>2 DEF Writes
    <3> QED BY <1>1, <3>1, <3>2
  <2>4. /\ dialog' # NoDialog => dialog'.id \in 1 .. opened'
        /\ suspended' => dialog' # NoDialog /\ dialog'.kind = "other" /\ ~timer'
        /\ dialog' # NoDialog /\ dialog'.kind = "confirm" => dialog'.state \in Writes \ {"create"}
    BY <1>1 DEF WritesInv, HostFits
  <2> QED BY <2>1, <2>2, <2>3, <2>4 DEF HostFits
<1>6. OneEach'
  <2>1. IsFiniteSet(ops')
    BY <1>1, FS_AddElement DEF WritesInv, OneEach
  <2>2. Active(new) /\ \A op \in ops : Active(op) => op.id # new.id
    BY <1>1, <1>3 DEF Active, WritesInv, OneEach
  <2>3. \A op \in ops' : /\ op.kind \in Writes => Active(op) \/ op.step \in {"late", "over"}
                         /\ op.step = "read" => op.kind = "delete_occurrence"
    BY <1>1, <1>3, <2>2 DEF WritesInv, OneEach
  <2>4. \A op \in ops' : Active(op) => op.id \in pending'
    BY <1>1, <1>3 DEF WritesInv, OneEach
  <2>5. \A op, other \in ops' : Active(op) /\ Active(other) /\ op.id = other.id => op = other
    BY <1>1, <2>2 DEF WritesInv, OneEach
  <2> QED BY <2>1, <2>3, <2>4, <2>5 DEF OneEach, Active
<1>7. Versions'
  <2>1. \A op \in ops' : op.event.etag <= resource.version
    BY <1>1, <1>3 DEF WritesInv, Versions
  <2>2. \A op \in ops' : op.step \in {"read", "late"} => op \in ops
    BY <1>1, <1>3
  <2> QED BY <1>1, <2>1, <2>2 DEF WritesInv, Versions
<1>8. PendingIsUnderWay'
  BY <1>1, <1>3 DEF PendingIsUnderWay
<1>9. Attempts'
  <2>1. \A op \in ops' : IsLate(op) => op \in ops
    BY <1>1, <1>3 DEF IsLate
  <2>2. ASSUME NEW id \in 1 .. MaxDialogs, MayAsk(id)' PROVE MayAsk(id)
    <3>1. CASE \E op \in ops' : op.kind = "create" /\ op.id = id /\ op.step \in {"asked", "failed"}
      BY <1>1, <1>3, <3>1 DEF MayAsk
    <3> QED BY <1>1, <2>2, <3>1 DEF MayAsk
  <2> QED BY <1>1, <2>1, <2>2, AttemptsStay
<1> QED BY <1>4, <1>5, <1>6, <1>7, <1>8, <1>9 DEF WritesInv

\* A request moves its operation on, which stays under way unless it was late.
Follows(new, op) ==
    /\ new \in Operations /\ new.kind = op.kind /\ new.id = op.id /\ new.event = op.event
    /\ Active(new) <=> Active(op)
    /\ op.kind \in Writes => Active(new) \/ new.step \in {"late", "over"}
    /\ new.step = "read" => new.kind = "delete_occurrence"
    /\ ~IsLate(new)

LEMMA Moved ==
    ASSUME WritesInv, NEW op \in ops, NEW new, Follows(new, op), ops' = (ops \ {op}) \cup {new},
           Advances, resource' \in Resource, created' \in [1 .. MaxDialogs -> Nat],
           UNCHANGED <<dialog, timer, grid, pending, lost, opened, suspended, reported, exposed, disturbed>>,
           new.kind = "delete_occurrence" /\ new.step \in {"read", "late"} =>
             new.read = resource /\ resource' = resource,
           Attempts'
    PROVE  WritesInv'
<1>1. /\ resource.version \in Nat /\ resource'.version \in Nat /\ resource.version <= resource'.version
      /\ grid.version \in Nat /\ op.event.etag \in Nat /\ op.event.etag <= resource.version
      /\ resource' = resource \/ resource.version < resource'.version
  BY VersionParts, OperationParts DEF Advances, Resource, WritesInv, Versions
<1>2. WritesTypeOK'
  BY DEF Follows, WritesInv, WritesTypeOK
<1>3. HostFits'
  <2>1. \A o \in ops' : o.id \in 1 .. opened'
    BY DEF Follows, WritesInv, HostFits
  <2>2. ASSUME NEW o \in ops', dialog' # NoDialog, dialog'.id = o.id
        PROVE  /\ o.kind = "create" <=> dialog'.kind = "create"
               /\ o.kind = "recurrence" <=> dialog'.kind = "details"
    <3>1. CASE o = new
      BY <2>2, <3>1 DEF Follows, WritesInv, HostFits
    <3>2. CASE o \in ops
      BY <2>2, <3>2 DEF WritesInv, HostFits
    <3> QED BY <3>1, <3>2
  <2>3. /\ dialog' # NoDialog => dialog'.id \in 1 .. opened'
        /\ suspended' => dialog' # NoDialog /\ dialog'.kind = "other" /\ ~timer'
        /\ pending' \subseteq 1 .. opened'
        /\ dialog' # NoDialog /\ dialog'.kind = "confirm" => dialog'.state \in Writes \ {"create"}
    BY DEF WritesInv, HostFits
  <2> QED BY <2>1, <2>2, <2>3 DEF HostFits
<1>4. OneEach'
  <2>1. IsFiniteSet(ops')
    BY FS_AddElement, FS_RemoveElement DEF WritesInv, OneEach
  <2>2. Active(new) => Active(op) /\ new.id = op.id /\ \A o \in ops \ {op} : Active(o) => o.id # new.id
    BY OnlyOne DEF Follows
  <2>3. \A o \in ops' : o \in ops \ {op} \/ o = new
    OBVIOUS
  <2>4. \A o \in ops' : /\ o.kind \in Writes => Active(o) \/ o.step \in {"late", "over"}
                        /\ o.step = "read" => o.kind = "delete_occurrence"
    BY <2>3 DEF WritesInv, OneEach, Follows
  <2>5. \A o \in ops' : Active(o) => o.id \in pending'
    BY <2>2, <2>3 DEF WritesInv, OneEach
  <2>6. \A o, other \in ops' : Active(o) /\ Active(other) /\ o.id = other.id => o = other
    BY <2>2, <2>3 DEF WritesInv, OneEach
  <2> QED BY <2>1, <2>4, <2>5, <2>6 DEF OneEach, Active
<1>5. Versions'
  <2>1. grid'.version <= resource'.version
    BY <1>1 DEF WritesInv, Versions
  <2>2. dialog' # NoDialog => dialog'.event.etag <= resource'.version
    BY <1>1, VersionParts DEF WritesInv, Versions
  <2>3. \A o \in ops' : o.event.etag <= resource'.version
    BY <1>1, OperationParts DEF WritesInv, Versions, Follows
  <2>4. ASSUME NEW o \in ops', o.kind = "delete_occurrence", o.step \in {"read", "late"}
        PROVE  /\ o.read \in Resource
               /\ o.event.etag <= o.read.version /\ o.read.version <= resource'.version
               /\ o.read.version = resource'.version => o.read = resource'
    <3>1. CASE o = new
      BY <1>1, <2>3, <2>4, <3>1
    <3>2. CASE o \in ops
      <4>1. /\ o.read \in Resource
            /\ o.event.etag <= o.read.version /\ o.read.version <= resource.version
            /\ o.read.version = resource.version => o.read = resource
        BY <2>4, <3>2 DEF WritesInv, Versions
      <4>2. o.read.version \in Nat
        BY <4>1 DEF Resource
      <4> QED BY <1>1, <4>1, <4>2
    <3> QED BY <3>1, <3>2
  <2> QED BY <2>1, <2>2, <2>3, <2>4 DEF Versions
<1>6. PendingIsUnderWay'
  <2>1. SUFFICES ASSUME dialog # NoDialog, dialog.id \in pending
                 PROVE  \E o \in ops' : o.id = dialog.id /\ o.kind \in Writes /\ o.step \notin {"late", "over"}
    BY DEF PendingIsUnderWay, canClose
  <2>2. PICK o \in ops : o.id = dialog.id /\ o.kind \in Writes /\ o.step \notin {"late", "over"}
    BY <2>1 DEF WritesInv, PendingIsUnderWay, canClose
  <2>3. Active(o)
    BY <2>2 DEF WritesInv, OneEach
  <2>4. CASE o = op
    BY <2>2, <2>3, <2>4 DEF Follows, Active
  <2>5. CASE o # op
    BY <2>2, <2>5
  <2> QED BY <2>4, <2>5
<1> QED BY <1>2, <1>3, <1>4, <1>5, <1>6 DEF WritesInv

\* A request that asks for no new event leaves the attempts as they are.
LEMMA NoneMade ==
    ASSUME WritesInv, NEW op \in ops, NEW new, Follows(new, op), ops' = (ops \ {op}) \cup {new},
           UNCHANGED <<dialog, pending, created, lost, opened>>, ~IsLate(op),
           op.kind = "create" => op.step = "asked"
    PROVE  Attempts'
<1>1. /\ \A o \in ops : IsLate(o) => o \in ops'
      /\ \A o \in ops' : IsLate(o) => o \in ops
  BY DEF Follows
<1>2. ASSUME NEW id \in 1 .. MaxDialogs, MayAsk(id)' PROVE MayAsk(id)
  <2>1. CASE \E o \in ops' : o.kind = "create" /\ o.id = id /\ o.step \in {"asked", "failed"}
    <3>1. PICK o \in ops' : o.kind = "create" /\ o.id = id /\ o.step \in {"asked", "failed"}
      BY <2>1
    <3>2. CASE o = new
      BY <3>1, <3>2 DEF Follows, MayAsk
    <3>3. CASE o \in ops
      BY <3>1, <3>3 DEF MayAsk
    <3> QED BY <3>2, <3>3
  <2> QED BY <1>2, <2>1 DEF MayAsk
<1> QED BY <1>1, <1>2, AttemptsStay

\* An event is made for an attempt that is still under way ...
LEMMA OneMade ==
    ASSUME WritesInv, NEW op \in ops, NEW new, Follows(new, op), ops' = (ops \ {op}) \cup {new},
           UNCHANGED <<dialog, pending, lost, opened>>,
           op.kind = "create", op.step = "asked", new.step = "done",
           created' = [created EXCEPT ![op.id] = @ + 1]
    PROVE  Attempts'
<1>1. \A id : Late(id)' = Late(id)
  <2>1. /\ \A o \in ops : IsLate(o) => o \in ops'
        /\ \A o \in ops' : IsLate(o) => o \in ops
    BY DEF Follows, IsLate
  <2> QED BY <2>1, LateStays
<1>2. op.id \in 1 .. MaxDialogs /\ op.id \in 1 .. opened /\ op.id \in Nat /\ opened \in Nat /\ op.id \in pending /\ Active(op)
  BY OperationParts, VersionParts DEF WritesInv, HostFits, OneEach, Active, Writes
<1>3. MayAsk(op.id)
  BY DEF MayAsk
<1>4. ~MayAsk(op.id)'
  <2>1. ASSUME NEW o \in ops', o.kind = "create", o.id = op.id, o.step \in {"asked", "failed"}
        PROVE  FALSE
    <3>1. o \in ops \ {op} /\ Active(o)
      BY <2>1 DEF Active, Writes
    <3> QED BY <1>2, <2>1, <3>1, OnlyOne
  <2> QED BY <1>2, <2>1 DEF MayAsk
<1>5. ASSUME NEW id \in 1 .. MaxDialogs, id # op.id, MayAsk(id)' PROVE MayAsk(id)
  BY <1>5 DEF MayAsk, Follows
<1>6. ASSUME NEW id \in 1 .. MaxDialogs
      PROVE  /\ created'[id] + Late(id)' <= lost'[id] + 1
             /\ MayAsk(id)' => created'[id] + Late(id)' <= lost'[id]
  <2>1. /\ created[id] + Late(id) <= lost[id] + 1
        /\ MayAsk(id) => created[id] + Late(id) <= lost[id]
    BY DEF WritesInv, Attempts
  <2>2. created[id] \in Nat /\ lost[id] \in Nat /\ Late(id) \in Nat
    BY LateParts
  <2>3. created'[id] = IF id = op.id THEN created[id] + 1 ELSE created[id]
    BY <1>2 DEF WritesInv, WritesTypeOK
  <2> QED BY <1>1, <1>3, <1>4, <1>5, <2>1, <2>2, <2>3
<1> QED BY <1>6 DEF Attempts

\* ... or for one that was given up.
LEMMA LateMade ==
    ASSUME WritesInv, NEW op \in ops, NEW new, Follows(new, op), ops' = (ops \ {op}) \cup {new},
           UNCHANGED <<dialog, pending, lost, opened>>,
           op.kind = "create", op.step = "late", new.step = "over",
           created' = [created EXCEPT ![op.id] = @ + 1]
    PROVE  Attempts'
<1>1. op.id \in 1 .. MaxDialogs
  BY OperationParts
<1>2. Late(op.id) = Late(op.id)' + 1 /\ Late(op.id)' \in Nat
  <2>1. LateOps(op.id)' = LateOps(op.id) \ {op} /\ op \in LateOps(op.id)
    BY DEF LateOps, IsLate
  <2>2. IsFiniteSet(LateOps(op.id)) /\ IsFiniteSet(LateOps(op.id) \ {op})
    BY <1>1, LateParts, FS_RemoveElement
  <2>3. Cardinality(LateOps(op.id) \ {op}) = Cardinality(LateOps(op.id)) - 1
    BY <2>1, <2>2, FS_RemoveElement
  <2>4. Cardinality(LateOps(op.id)) \in Nat /\ Cardinality(LateOps(op.id) \ {op}) \in Nat
    BY <2>2, FS_CardinalityType
  <2> QED BY <2>1, <2>3, <2>4 DEF Late
<1>3. ASSUME NEW id \in 1 .. MaxDialogs, id # op.id PROVE Late(id)' = Late(id)
  <2>1. LateOps(id)' = LateOps(id)
    BY <1>3 DEF LateOps, Follows
  <2> QED BY <2>1 DEF Late
<1>4. ASSUME NEW id \in 1 .. MaxDialogs, MayAsk(id)' PROVE MayAsk(id)
  BY <1>4 DEF MayAsk
<1>5. ASSUME NEW id \in 1 .. MaxDialogs
      PROVE  created'[id] + Late(id)' = created[id] + Late(id)
  <2>1. created[id] \in Nat /\ Late(id) \in Nat
    BY LateParts
  <2>2. created'[id] = IF id = op.id THEN created[id] + 1 ELSE created[id]
    BY <1>1 DEF WritesInv, WritesTypeOK
  <2> QED BY <1>2, <1>3, <2>1, <2>2
<1> QED BY <1>4, <1>5 DEF WritesInv, Attempts

LEMMA WrittenNext ==
    ASSUME WritesInv, NEW content, content.kind \in {"gone", "single", "series"},
           content.dates \subseteq Dates, content.overridden \subseteq Dates,
           resource' = Written(content)
    PROVE  resource' \in Resource /\ Advances
BY VersionParts DEF Written, Resource, Advances

LEMMA StepRequest ==
    ASSUME WritesInv, NEW op \in ops, Request(op)
    PROVE  WritesInv'
<1>1. UNCHANGED <<dialog, timer, grid, pending, lost, opened, suspended, reported, exposed, disturbed>>
  BY DEF Request
<1>2. resource \in Resource /\ created \in [1 .. MaxDialogs -> Nat] /\ op \in Operations
  BY OperationParts DEF WritesInv, WritesTypeOK
<1>3. ASSUME NEW step \in {"done", "failed"}, Active(op), Moves(op, step)
      PROVE  LET new == [op EXCEPT !.step = step]
             IN ops' = (ops \ {op}) \cup {new} /\ Follows(new, op) /\ new.step = step
  <2> DEFINE new == [op EXCEPT !.step = step]
  <2>1. /\ new \in Operations /\ new.kind = op.kind /\ new.id = op.id
        /\ new.event = op.event /\ new.step = step
    BY <1>2 DEF Operations
  <2>2. ops' = (ops \ {op}) \cup {new}
    BY <1>3 DEF Moves
  <2> HIDE DEF new
  <2>3. Follows(new, op)
    BY <1>3, <2>1 DEF Follows, Active, IsLate
  <2> QED BY <2>1, <2>2, <2>3 DEF new
<1>4. ASSUME op.kind \in Writes, op.step = "late", Moves(op, "over")
      PROVE  LET new == [op EXCEPT !.step = "over"]
             IN ops' = (ops \ {op}) \cup {new} /\ Follows(new, op) /\ new.step = "over"
  <2> DEFINE new == [op EXCEPT !.step = "over"]
  <2>1. /\ new \in Operations /\ new.kind = op.kind /\ new.id = op.id
        /\ new.event = op.event /\ new.step = "over"
    BY <1>2 DEF Operations
  <2>2. ops' = (ops \ {op}) \cup {new}
    BY <1>4 DEF Moves
  <2> HIDE DEF new
  <2>3. Follows(new, op)
    BY <1>4, <2>1 DEF Follows, Active, IsLate
  <2> QED BY <2>1, <2>2, <2>3 DEF new
<1>5. CASE event_create(op)
  <2>1. op.kind = "create" /\ op.kind \in Writes /\ resource' = resource /\ Advances
    BY <1>5 DEF event_create, Writes, Advances
  <2>2. CASE op.step = "asked" /\ Moves(op, "done") /\ created' = [created EXCEPT ![op.id] = @ + 1]
    <3> DEFINE new == [op EXCEPT !.step = "done"]
    <3>1. ops' = (ops \ {op}) \cup {new} /\ Follows(new, op) /\ new.step = "done"
      BY <1>3, <2>1, <2>2 DEF Active
    <3>2. created' \in [1 .. MaxDialogs -> Nat]
      BY <1>2, <2>2, OperationParts
    <3> HIDE DEF new
    <3>3. Attempts'
      BY <1>1, <2>1, <2>2, <3>1, OneMade
    <3> QED BY <1>1, <1>2, <2>1, <3>1, <3>2, <3>3, Moved
  <2>3. CASE op.step = "late" /\ Moves(op, "over") /\ created' = [created EXCEPT ![op.id] = @ + 1]
    <3> DEFINE new == [op EXCEPT !.step = "over"]
    <3>1. ops' = (ops \ {op}) \cup {new} /\ Follows(new, op) /\ new.step = "over"
      BY <1>4, <2>1, <2>3
    <3>2. created' \in [1 .. MaxDialogs -> Nat]
      BY <1>2, <2>3, OperationParts
    <3> HIDE DEF new
    <3>3. Attempts'
      BY <1>1, <2>1, <2>3, <3>1, LateMade
    <3> QED BY <1>1, <1>2, <2>1, <3>1, <3>2, <3>3, Moved
  <2>4. CASE op.step = "asked" /\ Moves(op, "failed") /\ UNCHANGED created
    <3> DEFINE new == [op EXCEPT !.step = "failed"]
    <3>1. ops' = (ops \ {op}) \cup {new} /\ Follows(new, op) /\ new.step = "failed"
      BY <1>3, <2>1, <2>4 DEF Active
    <3> HIDE DEF new
    <3>2. Attempts'
      BY <1>1, <2>1, <2>4, <3>1, NoneMade DEF IsLate
    <3> QED BY <1>1, <1>2, <2>1, <2>4, <3>1, <3>2, Moved
  <2> QED BY <1>5, <2>2, <2>3, <2>4 DEF event_create
<1>6. ASSUME op.kind \in {"delete_series", "delete_occurrence"}, UNCHANGED created,
             resource' \in Resource, Advances,
             \/ Active(op) /\ (Moves(op, "done") \/ Moves(op, "failed"))
             \/ op.step = "late" /\ Moves(op, "over")
      PROVE  WritesInv'
  <2>1. op.kind \in Writes /\ op.kind # "create" /\ ~IsLate(op)
    BY <1>6 DEF Writes, IsLate
  <2>2. PICK new : /\ ops' = (ops \ {op}) \cup {new} /\ Follows(new, op)
                   /\ new.step \in {"done", "failed", "over"}
    BY <1>3, <1>4, <1>6, <2>1
  <2>3. Attempts'
    BY <1>1, <1>6, <2>1, <2>2, NoneMade
  <2> QED BY <1>1, <1>2, <1>6, <2>2, <2>3, Moved
<1>7. CASE event_delete_series(op)
  <2>1. resource' \in Resource /\ Advances
    <3>1. CASE resource' = Written(Deleted)
      BY <3>1, WrittenNext DEF Deleted
    <3>2. CASE resource' = resource
      BY <1>2, <3>2 DEF Advances
    <3> QED BY <1>7, <3>1, <3>2 DEF event_delete_series
  <2>2. \/ op.step = "asked" /\ (Moves(op, "done") \/ Moves(op, "failed"))
        \/ op.step = "late" /\ Moves(op, "over")
    BY <1>7 DEF event_delete_series
  <2> QED BY <1>6, <1>7, <2>1, <2>2 DEF event_delete_series, Active, Writes
<1>8. CASE event_delete_occurrence(op)
  <2>1. resource' \in Resource /\ Advances
    <3>1. CASE resource' = Written(exclude_occurrence(op.read, op.event.date))
      <4>1. op.read \in Resource
        BY <1>8 DEF event_delete_occurrence, WritesInv, Versions
      <4> DEFINE content == exclude_occurrence(op.read, op.event.date)
      <4>2. /\ content.kind = "series" /\ content.dates \subseteq Dates
            /\ content.overridden \subseteq Dates
        BY <4>1 DEF exclude_occurrence, Resource
      <4> HIDE DEF content
      <4>3. resource' = Written(content)
        BY <3>1 DEF content
      <4> QED BY <4>2, <4>3, WrittenNext
    <3>2. CASE resource' = resource
      BY <1>2, <3>2 DEF Advances
    <3> QED BY <1>8, <3>1, <3>2 DEF event_delete_occurrence
  <2>2. \/ op.step = "read" /\ (Moves(op, "done") \/ Moves(op, "failed"))
        \/ op.step = "late" /\ Moves(op, "over")
    BY <1>8 DEF event_delete_occurrence
  <2> QED BY <1>6, <1>8, <2>1, <2>2 DEF event_delete_occurrence, Active, Writes
<1>9. CASE occurrence_read(op)
  <2>1. op.kind = "delete_occurrence" /\ op.step = "asked" /\ UNCHANGED <<resource, created>> /\ Active(op)
    BY <1>9 DEF occurrence_read, Active, Writes
  <2>2. CASE Moves(op, "failed")
    BY <1>2, <1>6, <2>1, <2>2 DEF Advances
  <2>3. CASE ops' = (ops \ {op}) \cup {[op EXCEPT !.step = "read", !.read = resource]}
    <3> DEFINE new == [op EXCEPT !.step = "read", !.read = resource]
    <3>1. /\ new \in Operations /\ new.kind = op.kind /\ new.id = op.id /\ new.event = op.event
          /\ new.step = "read" /\ new.read = resource
      BY <1>2 DEF Operations
    <3>2. Follows(new, op)
      BY <2>1, <3>1 DEF Follows, Active, IsLate
    <3>3. ops' = (ops \ {op}) \cup {new}
      BY <2>3
    <3> HIDE DEF new
    <3>4. Attempts'
      BY <1>1, <2>1, <3>2, <3>3, NoneMade DEF IsLate
    <3> QED BY <1>1, <1>2, <2>1, <3>1, <3>2, <3>3, <3>4, Moved DEF Advances
  <2> QED BY <1>9, <2>2, <2>3 DEF occurrence_read
<1>10. CASE event_recurrence_get(op)
  <2>1. op.kind = "recurrence" /\ op.kind \notin Writes /\ UNCHANGED <<resource, created>>
    BY <1>10 DEF event_recurrence_get, Writes
  <2>2. PICK step \in {"Series", "Single", "Error"} : Moves(op, step)
    BY <1>10 DEF event_recurrence_get
  <2> DEFINE new == [op EXCEPT !.step = step]
  <2>3. /\ new \in Operations /\ new.kind = op.kind /\ new.id = op.id
        /\ new.event = op.event /\ new.step = step
    BY <1>2 DEF Operations
  <2>4. ops' = (ops \ {op}) \cup {new}
    BY <2>2 DEF Moves
  <2> HIDE DEF new
  <2>5. Follows(new, op)
    BY <2>1, <2>3 DEF Follows, Active, IsLate
  <2>6. Attempts'
    BY <1>1, <2>1, <2>4, <2>5, NoneMade DEF IsLate
  <2> QED BY <1>1, <1>2, <2>1, <2>3, <2>4, <2>5, <2>6, Moved DEF Advances
<1> QED BY <1>5, <1>7, <1>8, <1>9, <1>10 DEF Request

\* What is left of an operation that was given up.
Rests(rest, op) ==
    \/ rest = {}
    \/ /\ rest = {[op EXCEPT !.step = "late"]} /\ op.step \in {"asked", "read"}
       /\ op.kind = "delete_occurrence" => op.step = "read"

LEMMA Finished ==
    ASSUME WritesInv, NEW op \in ops, Active(op), NEW rest, Rests(rest, op),
           NEW succeeded \in BOOLEAN, Finish(op, succeeded, rest),
           lost' \in [1 .. MaxDialogs -> Nat], Attempts'
    PROVE  WritesInv'
<1>1. /\ ops' = (ops \ {op}) \cup rest
      /\ UNCHANGED <<resource, created, grid, opened, suspended, reported, exposed, disturbed>>
      /\ pending' \in {pending, pending \ {op.id}} /\ timer' = timer
      /\ dialog' = dialog \/ (dialog' = NoDialog /\ ~suspended)
      /\ pending' = pending => (suspended /\ op.kind = "create") \/ op.id \notin pending
  BY DEF Finish, clear, innerClose, dvars
<1>2. op.kind \in Writes /\ op \in Operations /\ op.id \in pending /\ op.step \in {"asked", "read", "done", "failed"}
  BY OperationParts DEF WritesInv, OneEach, Active
<1>3. ASSUME NEW o \in rest
      PROVE  /\ o \in Operations /\ o.kind = op.kind /\ o.id = op.id /\ o.event = op.event
             /\ o.read = op.read /\ o.step = "late"
             /\ op.kind = "delete_occurrence" => op.step = "read"
  <2>1. o = [op EXCEPT !.step = "late"] /\ (op.kind = "delete_occurrence" => op.step = "read")
    BY DEF Rests
  <2> QED BY <1>2, <2>1 DEF Operations
<1>4. \A o \in ops' : (o \in ops /\ o # op) \/ o \in rest
  BY <1>1
<1>5. \A o \in rest : ~Active(o)
  BY <1>3 DEF Active
<1>6. WritesTypeOK'
  <2>1. ops' \subseteq Operations
    BY <1>3, <1>4 DEF WritesInv, WritesTypeOK
  <2>2. pending' \subseteq 1 .. MaxDialogs /\ timer' \in BOOLEAN
    BY <1>1 DEF WritesInv, WritesTypeOK
  <2> QED BY <1>1, <2>1, <2>2 DEF WritesInv, WritesTypeOK
<1>7. HostFits'
  <2>1. \A o \in ops' : o.id \in 1 .. opened'
    BY <1>1, <1>3, <1>4 DEF WritesInv, HostFits
  <2>2. ASSUME NEW o \in ops', dialog' # NoDialog, dialog'.id = o.id
        PROVE  /\ o.kind = "create" <=> dialog'.kind = "create"
               /\ o.kind = "recurrence" <=> dialog'.kind = "details"
    <3>1. dialog' = dialog
      BY <1>1, <2>2
    <3>2. PICK known \in ops : known.kind = o.kind /\ known.id = o.id
      BY <1>3, <1>4
    <3> QED BY <2>2, <3>1, <3>2 DEF WritesInv, HostFits
  <2>3. /\ dialog' # NoDialog => dialog'.id \in 1 .. opened'
        /\ suspended' => dialog' # NoDialog /\ dialog'.kind = "other" /\ ~timer'
        /\ pending' \subseteq 1 .. opened'
        /\ dialog' # NoDialog /\ dialog'.kind = "confirm" => dialog'.state \in Writes \ {"create"}
    BY <1>1 DEF WritesInv, HostFits
  <2> QED BY <2>1, <2>2, <2>3 DEF HostFits
<1>8. OneEach'
  <2>1. IsFiniteSet(ops')
    <3>1. IsFiniteSet(ops \ {op})
      BY FS_RemoveElement DEF WritesInv, OneEach
    <3>2. rest = {} \/ \E late : rest = {late}
      BY DEF Rests
    <3>3. CASE rest = {}
      <4>1. ops' = ops \ {op}
        BY <1>1, <3>3
      <4> QED BY <3>1, <4>1
    <3>4. CASE \E late : rest = {late}
      <4>1. PICK late : ops' = (ops \ {op}) \cup {late}
        BY <1>1, <3>4
      <4> QED BY <3>1, <4>1, FS_AddElement
    <3> QED BY <3>2, <3>3, <3>4
  <2>2. \A o \in ops' : /\ o.kind \in Writes => Active(o) \/ o.step \in {"late", "over"}
                        /\ o.step = "read" => o.kind = "delete_occurrence"
    BY <1>3, <1>4 DEF WritesInv, OneEach
  <2>3. \A o \in ops' : Active(o) => o \in ops \ {op} /\ o.id # op.id
    BY <1>4, <1>5, OnlyOne
  <2>4. \A o \in ops' : Active(o) => o.id \in pending'
    BY <1>1, <2>3 DEF WritesInv, OneEach
  <2>5. \A o, other \in ops' : Active(o) /\ Active(other) /\ o.id = other.id => o = other
    BY <2>3 DEF WritesInv, OneEach
  <2> QED BY <2>1, <2>2, <2>4, <2>5 DEF OneEach, Active
<1>9. Versions'
  <2>1. \A o \in ops' : o.event.etag <= resource.version
    BY <1>3, <1>4 DEF WritesInv, Versions
  <2>2. dialog' # NoDialog => dialog'.event.etag <= resource.version
    BY <1>1 DEF WritesInv, Versions
  <2>3. ASSUME NEW o \in ops', o.kind = "delete_occurrence", o.step \in {"read", "late"}
        PROVE  /\ o.read \in Resource
               /\ o.event.etag <= o.read.version /\ o.read.version <= resource.version
               /\ o.read.version = resource.version => o.read = resource
    <3>1. CASE o \in ops
      BY <2>3, <3>1 DEF WritesInv, Versions
    <3>2. CASE o \in rest
      BY <1>3, <2>3, <3>2 DEF WritesInv, Versions
    <3> QED BY <1>4, <3>1, <3>2
  <2> QED BY <1>1, <2>1, <2>2, <2>3 DEF WritesInv, Versions
<1>10. PendingIsUnderWay'
  <2>1. SUFFICES ASSUME dialog' # NoDialog, dialog'.id \in pending'
                 PROVE  \E o \in ops' : o.id = dialog'.id /\ o.kind \in Writes /\ o.step \notin {"late", "over"}
    BY DEF PendingIsUnderWay, canClose
  <2>2. dialog' = dialog /\ dialog.id \in pending
    BY <1>1, <2>1
  <2>3. PICK o \in ops : o.id = dialog.id /\ o.kind \in Writes /\ o.step \notin {"late", "over"}
    BY <2>1, <2>2 DEF WritesInv, PendingIsUnderWay, canClose
  <2>4. dialog.id # op.id
    <3>1. CASE pending' = pending \ {op.id}
      BY <2>1, <2>2, <3>1
    <3>2. CASE suspended /\ op.kind = "create"
      BY <2>1, <2>2, <3>2 DEF WritesInv, HostFits
    <3> QED BY <1>1, <1>2, <3>1, <3>2
  <2> QED BY <1>1, <2>2, <2>3, <2>4
<1> QED BY <1>6, <1>7, <1>8, <1>9, <1>10 DEF WritesInv

\* Nothing asks for an event on behalf of a dialog whose creation has just succeeded.
LEMMA NoneAsks ==
    ASSUME WritesInv, NEW op \in ops, Active(op), op.kind = "create", op.step = "done",
           Finish(op, TRUE, {}), opened' = opened
    PROVE  ~MayAsk(op.id)'
<1>1. op.id \in pending /\ op.id \in 1 .. opened /\ opened \in Nat /\ op.id \in Nat
  BY OperationParts, VersionParts DEF WritesInv, OneEach, HostFits
<1>2. ~(opened' < op.id)
  BY <1>1
<1>3. ASSUME NEW o \in ops', o.kind = "create", o.id = op.id, o.step \in {"asked", "failed"}
      PROVE  FALSE
  <2>1. o \in ops \ {op} /\ Active(o)
    BY <1>3 DEF Finish, Active, Writes
  <2> QED BY <1>3, <2>1, OnlyOne
<1>4. ~(dialog' # NoDialog /\ dialog'.id = op.id /\ dialog'.kind = "create")
  BY DEF Finish, clear, innerClose, dvars, WritesInv, HostFits
<1> QED BY <1>2, <1>3, <1>4 DEF MayAsk

\* An end that leaves nothing behind does not disturb the attempts of the other dialogs.
LEMMA AsksOfOthers ==
    ASSUME WritesInv, NEW op \in ops, Active(op), NEW rest, Rests(rest, op),
           NEW succeeded \in BOOLEAN, Finish(op, succeeded, rest),
           NEW id \in 1 .. MaxDialogs, MayAsk(id)', id # op.id \/ op.kind # "create"
    PROVE  MayAsk(id)
<1>1. /\ ops' = (ops \ {op}) \cup rest /\ opened' = opened
      /\ dialog' = dialog \/ dialog' = NoDialog
      /\ pending \ {op.id} \subseteq pending'
  BY DEF Finish, clear, innerClose, dvars
<1>2. \A o \in rest : o.step = "late"
  BY OperationParts DEF Rests, Operations
<1>3. CASE opened' < id
  BY <1>1, <1>3 DEF MayAsk
<1>4. CASE \E o \in ops' : o.kind = "create" /\ o.id = id /\ o.step \in {"asked", "failed"}
  BY <1>1, <1>2, <1>4 DEF MayAsk
<1>5. CASE dialog' # NoDialog /\ dialog'.kind = "create" /\ dialog'.id = id /\ id \notin pending'
  <2>1. dialog' = dialog
    BY <1>1, <1>5
  <2>2. id # op.id
    BY <1>5, <2>1 DEF WritesInv, HostFits
  <2> QED BY <1>1, <1>5, <2>1, <2>2 DEF MayAsk
<1> QED BY <1>3, <1>4, <1>5 DEF MayAsk

LEMMA StepAnswer ==
    ASSUME WritesInv, NEW op \in ops, Answer(op)
    PROVE  WritesInv'
<1>1. /\ Active(op) /\ Finish(op, op.step = "done", {}) /\ lost' = lost /\ Rests({}, op)
      /\ op.step \in {"done", "failed"} /\ created' = created /\ opened' = opened
  BY DEF Answer, Active, Finish, Rests
<1>2. \A id : Late(id)' = Late(id)
  <2>1. /\ \A o \in ops : IsLate(o) => o \in ops'
        /\ \A o \in ops' : IsLate(o) => o \in ops
    BY <1>1 DEF Finish, IsLate
  <2> QED BY <2>1, LateStays
<1>3. ASSUME NEW id \in 1 .. MaxDialogs, MayAsk(id)' PROVE MayAsk(id)
  <2>1. CASE id # op.id \/ op.kind # "create"
    BY <1>1, <1>3, <2>1, AsksOfOthers
  <2>2. CASE id = op.id /\ op.kind = "create" /\ op.step = "done"
    BY <1>1, <1>3, <2>2, NoneAsks
  <2>3. CASE id = op.id /\ op.kind = "create" /\ op.step = "failed"
    BY <2>3 DEF MayAsk
  <2> QED BY <1>1, <2>1, <2>2, <2>3
<1>4. Attempts'
  BY <1>1, <1>2, <1>3 DEF WritesInv, Attempts
<1>5. lost' \in [1 .. MaxDialogs -> Nat]
  BY <1>1 DEF WritesInv, WritesTypeOK
<1> QED BY <1>1, <1>4, <1>5, Finished

LEMMA StepAbort ==
    ASSUME WritesInv, NEW op \in ops, Abort(op)
    PROVE  WritesInv'
<1> DEFINE late == [op EXCEPT !.step = "late"]
<1>1. PICK rest : /\ rest = {} \/ (/\ rest = {late} /\ op.step \in {"asked", "read"}
                                   /\ op.kind = "delete_occurrence" => op.step = "read")
                  /\ Finish(op, FALSE, rest)
                  /\ lost' = IF op.kind = "create" /\ (op.step = "done" \/ rest # {})
                             THEN [lost EXCEPT ![op.id] = @ + 1] ELSE lost
  BY DEF Abort
<1>2. /\ Active(op) /\ Rests(rest, op) /\ op.step \in {"asked", "read", "done"} /\ created' = created
      /\ ops' = (ops \ {op}) \cup rest
      /\ op.step = "read" => op.kind = "delete_occurrence"
  BY <1>1 DEF Abort, Active, Rests, Finish, WritesInv, OneEach
<1>3. op.id \in 1 .. MaxDialogs /\ late.id = op.id /\ late.kind = op.kind /\ late.step = "late"
  BY OperationParts DEF Operations
<1> HIDE DEF late
<1>4. ~IsLate(op)
  BY <1>2 DEF IsLate
<1>5. ASSUME NEW id \in 1 .. MaxDialogs
      PROVE  /\ Late(id)' \in Nat
             /\ Late(id)' = Late(id) \/ (Late(id)' = Late(id) + 1 /\ id = op.id /\ op.kind = "create" /\ rest # {})
  <2>1. IsFiniteSet(LateOps(id)) /\ Late(id) \in Nat
    BY LateParts
  <2>2. CASE rest = {late} /\ op.kind = "create" /\ id = op.id
    <3>1. LateOps(id)' = LateOps(id) \cup {late}
      BY <1>2, <1>3, <1>4, <2>2 DEF LateOps, IsLate
    <3>2. Late(id)' = Late(id) \/ Late(id)' = Late(id) + 1
      BY <2>1, <3>1, FS_AddElement DEF Late
    <3> QED BY <1>1, <1>3, <2>1, <2>2, <3>2
  <2>3. CASE rest = {} \/ op.kind # "create" \/ id # op.id
    <3>1. LateOps(id)' = LateOps(id)
      BY <1>1, <1>2, <1>3, <1>4, <2>3 DEF LateOps, IsLate
    <3> QED BY <2>1, <3>1 DEF Late
  <2> QED BY <1>1, <2>2, <2>3
<1>6. lost' \in [1 .. MaxDialogs -> Nat]
  BY <1>1, <1>3 DEF WritesInv, WritesTypeOK
<1>7. ASSUME NEW id \in 1 .. MaxDialogs
      PROVE  /\ created'[id] + Late(id)' <= lost'[id] + 1
             /\ MayAsk(id)' => created'[id] + Late(id)' <= lost'[id]
  <2>1. /\ created[id] + Late(id) <= lost[id] + 1
        /\ MayAsk(id) => created[id] + Late(id) <= lost[id]
    BY DEF WritesInv, Attempts
  <2>2. created[id] \in Nat /\ lost[id] \in Nat /\ Late(id) \in Nat
    BY LateParts
  <2>3. CASE id # op.id \/ op.kind # "create"
    <3>1. MayAsk(id)' => MayAsk(id)
      BY <1>1, <1>2, <2>3, AsksOfOthers
    <3>2. lost'[id] = lost[id] /\ Late(id)' = Late(id)
      BY <1>1, <1>3, <1>5, <2>3 DEF WritesInv, WritesTypeOK
    <3> QED BY <1>2, <2>1, <3>1, <3>2
  <2>4. CASE id = op.id /\ op.kind = "create" /\ op.step = "done"
    <3>1. rest = {}
      BY <1>1, <2>4
    <3>2. lost'[id] = lost[id] + 1 /\ Late(id)' = Late(id)
      BY <1>1, <1>3, <1>5, <2>4, <3>1 DEF WritesInv, WritesTypeOK
    <3> QED BY <1>2, <2>1, <2>2, <3>2
  <2>5. CASE id = op.id /\ op.kind = "create" /\ op.step = "asked"
    <3>1. MayAsk(id)
      BY <2>5 DEF MayAsk
    <3>2. CASE rest = {}
      <4>1. lost'[id] = lost[id] /\ Late(id)' = Late(id)
        BY <1>1, <1>5, <2>5, <3>2
      <4> QED BY <1>2, <2>1, <2>2, <3>1, <4>1
    <3>3. CASE rest # {}
      <4>1. lost'[id] = lost[id] + 1
        BY <1>1, <1>3, <2>5, <3>3 DEF WritesInv, WritesTypeOK
      <4> QED BY <1>2, <1>5, <2>1, <2>2, <3>1, <4>1
    <3> QED BY <3>2, <3>3
  <2> QED BY <1>2, <2>3, <2>4, <2>5
<1>8. Attempts'
  BY <1>7 DEF Attempts
<1> QED BY <1>1, <1>2, <1>6, <1>8, Finished

-----------------------------------------------------------------------------
(* The theorems. *)

LEMMA AtFirst == WritesInit => WritesInv
<1> SUFFICES ASSUME WritesInit PROVE WritesInv
  OBVIOUS
<1>1. /\ dialog = NoDialog /\ timer = FALSE /\ opened = 0 /\ disturbed = FALSE
      /\ ops = {} /\ pending = {} /\ suspended = FALSE /\ grid = resource
      /\ created = [id \in 1 .. MaxDialogs |-> 0] /\ lost = [id \in 1 .. MaxDialogs |-> 0]
      /\ reported \in BOOLEAN /\ exposed \in BOOLEAN
  BY DEF WritesInit, DialogInit
<1>2. resource \in Resource /\ resource.version = 1
  BY ContentsAssumption DEF WritesInit, Resource
<1>3. WritesTypeOK
  <2>1. opened \in 0 .. MaxDialogs
    BY <1>1, DialogAssumption
  <2>2. created \in [1 .. MaxDialogs -> Nat] /\ lost \in [1 .. MaxDialogs -> Nat]
    BY <1>1
  <2> QED BY <1>1, <1>2, <2>1, <2>2 DEF WritesTypeOK
<1>4. HostFits
  BY <1>1 DEF HostFits
<1>5. OneEach
  BY <1>1, FS_EmptySet DEF OneEach
<1>6. Versions
  BY <1>1, <1>2 DEF Versions
<1>7. PendingIsUnderWay
  BY <1>1 DEF PendingIsUnderWay
<1>8. Attempts
  <2>1. \A id : LateOps(id) = {}
    BY <1>1 DEF LateOps
  <2>2. \A id : Late(id) = 0
    BY <2>1, FS_EmptySet DEF Late
  <2> QED BY <1>1, <2>2 DEF Attempts
<1> QED BY <1>3, <1>4, <1>5, <1>6, <1>7, <1>8 DEF WritesInv

LEMMA EachStep ==
    ASSUME WritesInv, [WritesNext]_wvars
    PROVE  WritesInv'
<1>1. CASE UNCHANGED wvars
  <2>1. WritesTypeOK' /\ SameDialog
    BY <1>1 DEF wvars, WritesInv, WritesTypeOK, SameDialog
  <2>2. suspended' => dialog' # NoDialog /\ dialog'.kind = "other" /\ ~timer'
    BY <1>1 DEF wvars, WritesInv, HostFits
  <2> QED BY <1>1, <2>1, <2>2, Frame DEF wvars, Advances
<1>2. CASE WritesNext
  BY <1>2, StepOpen, StepValidate, StepClose, StepRequest, StepResolve, StepAnswer, StepAbort, StepAround
     DEF WritesNext
<1> QED BY <1>1, <1>2

\* The dialogs and their operations, the versions and the attempts keep together.
THEOREM WritesInvariant == WritesSpec => []WritesInv
<1>1. WritesInv /\ [WritesNext]_wvars => WritesInv'
  BY EachStep
<1> QED BY <1>1, AtFirst, PTL DEF WritesSpec

\* The variables of what the calendar writes keep their types.
THEOREM WritesTypes == WritesSpec => []WritesTypeOK
<1>1. WritesInv => WritesTypeOK
  BY DEF WritesInv
<1> QED BY <1>1, WritesInvariant, PTL

\* A dialog that can be neither closed nor validated (calendar/view.rs:1008,
\* dialog.rs:250) has an operation under way that will release it.
THEOREM PendingEnds == WritesSpec => []PendingIsUnderWay
<1>1. WritesInv => PendingIsUnderWay
  BY DEF WritesInv
<1> QED BY <1>1, WritesInvariant, PTL

\* One create dialog makes one event, and one more for each attempt it took for
\* failed without knowing (calendar/caldav.rs:539, the twenty seconds at :605).
THEOREM EventsAreCounted == WritesSpec => []CreatedOnce
<1>1. WritesInv => CreatedOnce
  <2> SUFFICES ASSUME WritesInv, NEW id \in 1 .. MaxDialogs PROVE created[id] <= 1 + lost[id]
    BY DEF CreatedOnce
  <2>1. created[id] + Late(id) <= lost[id] + 1
    BY DEF WritesInv, Attempts
  <2>2. created[id] \in Nat /\ lost[id] \in Nat /\ Late(id) \in Nat
    BY LateParts
  <2> QED BY <2>1, <2>2
<1> QED BY <1>1, WritesInvariant, PTL

\* A request that changes the resource and ends an operation.
LEMMA EditKept ==
    ASSUME WritesInv, NEW step \in ops, Request(step), NEW op \in ops,
           resource' # resource, op \notin ops', op.kind \in Writes
    PROVE  IF op.kind = "delete_series" THEN resource.version = op.event.etag
           ELSE /\ resource'.dates = resource.dates \ ({op.event.date} \ resource.overridden)
                /\ resource'.overridden = resource.overridden
<1>1. CASE event_delete_series(step)
  BY <1>1 DEF event_delete_series, Moves
<1>2. CASE event_delete_occurrence(step)
  <2>1. /\ step = op /\ op.kind = "delete_occurrence" /\ op.step \in {"read", "late"}
        /\ etag_get(op) = resource.version
        /\ resource' = Written(exclude_occurrence(op.read, op.event.date))
    BY <1>2 DEF event_delete_occurrence, Moves
  <2>2. /\ op.read \in Resource /\ op.read.version \in Nat
        /\ op.event.etag <= op.read.version /\ op.read.version <= resource.version
        /\ op.read.version = resource.version => op.read = resource
    BY <2>1 DEF WritesInv, Versions, Resource
  <2>3. op.read = resource
    BY <2>1, <2>2, OperationParts, VersionParts DEF etag_get
  <2> QED BY <2>1, <2>3 DEF Written, exclude_occurrence
<1> QED BY <1>1, <1>2 DEF Request, event_create, occurrence_read, event_recurrence_get

\* The calendar deletes the version of the event that was shown, and takes an
\* occurrence out of the newest version, whatever other clients wrote meanwhile
\* (the conditions of the DELETE and the PUT, calendar/caldav.rs:562 and :570).
THEOREM EditsSurvive == WritesSpec => OthersEditsSurvive
<1>1. WritesInv /\ [WritesNext]_wvars =>
        [\A op \in ops : resource' # resource /\ op \notin ops' /\ op.kind \in Writes =>
           IF op.kind = "delete_series" THEN resource.version = op.event.etag
           ELSE /\ resource'.dates = resource.dates \ ({op.event.date} \ resource.overridden)
                /\ resource'.overridden = resource.overridden]_wvars
  <2> SUFFICES ASSUME WritesInv, WritesNext, NEW op \in ops,
                      resource' # resource, op \notin ops', op.kind \in Writes
               PROVE  IF op.kind = "delete_series" THEN resource.version = op.event.etag
                      ELSE /\ resource'.dates = resource.dates \ ({op.event.date} \ resource.overridden)
                           /\ resource'.overridden = resource.overridden
    OBVIOUS
  <2>1. \/ \E step \in ops : Request(step)
        \/ resource' = resource
        \/ ops' = ops
    BY DEF WritesNext, calendarCreate_open, OtherOpen, Validate, Close, Closed, calendarEventDetails_open,
           calendarDeleteConfirmation_open, calendarEventRecurrence_resolve, Answer, Abort, Finish, Over,
           OtherClient, GridRefresh, Suspension
  <2> QED BY <2>1, EditKept
<1> QED BY <1>1, WritesInvariant, PTL DEF WritesSpec, OthersEditsSurvive

-----------------------------------------------------------------------------
(* CalendarRefresh: the inductive invariant. *)

\* The grids of the views: whole, at most six weeks and a day, and of known years.
Grids == {p \in [start : Int, end : Int] :
            p.start < p.end /\ p.end - p.start <= 43 /\ FirstDate - 37 <= p.start}

Runtime ==
    [anchor : Anchors, period : Grids \cup {NoPeriod}, events : SUBSET EventIds,
     load : {"Idle", "Loading", "Ready", "ConfigurationRequired", "Error"},
     partial : Nat, rejected : Nat, holidays : SUBSET Int, country : Named \cup {NoCountry},
     holidayLoading : BOOLEAN, holidayError : BOOLEAN, stale : BOOLEAN,
     discovered : SUBSET Collections, discovering : BOOLEAN, generation : Nat]

IsRefresh(t) ==
    t \in [id : {t.id}, generation : Nat, identity : Identities, cols : SUBSET Collections,
           period : Grids, country : Named \cup {NoCountry}, todo : SUBSET Collections,
           events : SUBSET EventIds, read : SUBSET EventIds, answered : SUBSET Collections,
           failed : Nat, rejected : Nat, phase : {"events", "holidays"},
           years : SUBSET YearStarts, days : SUBSET Int]

\* The events the server is asked for.
Within(es, p) == {e \in es : InRange(EventOf[e], query_start_utc(p), query_end_utc(p))}

\* A refresh holds the readable events of what the collections had when they were read, and
\* counts those that failed and the events it could not read.
Gathers(t) ==
    /\ t.todo \subseteq t.cols /\ t.answered \subseteq t.cols \ t.todo
    /\ t.failed = Cardinality(t.cols \ (t.todo \cup t.answered))
    /\ t.events = Readable(Within(t.read, t.period))
    /\ Within(t.read, t.period) # t.events => t.rejected > 0
    /\ \A c \in t.cols : OwnerOf[c] = t.identity

\* It has the holidays of the years it has been through.
YearsRead(t) ==
    /\ t.phase = "holidays" => t.country \in Named
    /\ t.years # {} /\ t.years \subseteq HolidayYears(t.period)
    /\ t.days = {d \in Days(t.period) :
                   \E y \in HolidayYears(t.period) \ t.years : d \in HolidaysOf[t.country, y]}

RefreshesFit == \A t \in refreshes : IsRefresh(t) /\ Gathers(t) /\ YearsRead(t)

\* Whoever has the newest generation is alone with it, was asked for what is shown, and has not
\* given its events yet while it reads them.
Current ==
    ~reused =>
        /\ \A t \in refreshes : t.generation <= runtime.generation
        /\ \A t, u \in refreshes : t.generation = u.generation => t = u
        /\ \A t \in refreshes : t.generation = runtime.generation =>
             /\ t.period = runtime.period /\ t.country = runtime.country
             /\ t.phase = "events" => runtime.load # "Ready"
             /\ t.phase = "events" /\ ~editMode => t.identity = config.identity /\ t.cols = config.cols

\* What is shown as ready is what its refresh had gathered.
ReadyIsGathered ==
    (runtime.load = "Ready" /\ ~reused) =>
        /\ truth.period = runtime.period /\ runtime.period \in Grids
        /\ ~editMode => truth.identity = config.identity /\ truth.cols = config.cols
        /\ truth.read \subseteq EventIds
        /\ runtime.events = Readable(Within(truth.read, runtime.period))
        /\ Within(truth.read, runtime.period) # runtime.events => runtime.rejected > 0
        /\ runtime.partial = Cardinality(truth.cols \ truth.answered)
        /\ \A c \in truth.cols : OwnerOf[c] = truth.identity

RefreshTypes ==
    /\ config \in Config /\ runtime \in Runtime
    /\ server \in [Collections -> SUBSET EventIds]
    /\ editMode \in BOOLEAN /\ reused \in BOOLEAN

RefreshInv ==
    RefreshTypes /\ RefreshesFit /\ Current /\ ReadyIsGathered /\ HolidaysAreComplete

-----------------------------------------------------------------------------
(* Dates. *)

\* A set of numbers with a lower bound has a least one: the least difference.
LEMMA NatHasLeast ==
  ASSUME NEW T, T \subseteq Nat, T # {}
  PROVE  \E x \in T : \A y \in T : x <= y
<1>1. IsWellFoundedOn(OpToRel(<, Nat), Nat)
  BY NatLessThanWellFounded
<1>2. PICK x \in T : \A y \in T : ~(<<y, x>> \in OpToRel(<, Nat))
  BY <1>1, WFMin, Zenon
<1>3. \A y \in T : ~(y < x)
  BY <1>2 DEF OpToRel
<1> QED BY <1>3

\* The last date of a set that is not after d.
LEMMA LastBefore ==
  ASSUME NEW S, S \subseteq Int, NEW d \in Int, \E y \in S : y <= d
  PROVE  LET last == Max({y \in S : y <= d})
         IN last \in S /\ last <= d /\ \A y \in S : y <= d => y <= last
<1> DEFINE T == {n \in Nat : d - n \in S}
           A == {y \in S : y <= d}
<1>1. T # {}
  <2>1. PICK y \in S : y <= d
    OBVIOUS
  <2>2. d - y \in Nat /\ d - (d - y) = y
    BY <2>1
  <2> QED BY <2>1, <2>2
<1>2. PICK n \in T : \A k \in T : n <= k
  BY <1>1, NatHasLeast
<1>3. d - n \in A
  BY <1>2
<1>4. \A y \in A : y <= d - n
  <2> TAKE y \in A
  <2>1. d - y \in T
    <3>1. d - y \in Nat /\ d - (d - y) = y
      OBVIOUS
    <3> QED BY <3>1
  <2> QED BY <1>2, <2>1
<1>5. \E x \in A : \A y \in A : x >= y
  BY <1>3, <1>4
<1>6. Max(A) \in A /\ \A y \in A : Max(A) >= y
  BY <1>5 DEF Max
<1> QED BY <1>6

\* The first date of a set that is after d.
LEMMA FirstAfter ==
  ASSUME NEW S, S \subseteq Int, NEW d \in Int, \E y \in S : y > d
  PROVE  LET first == Min({y \in S : y > d})
         IN first \in S /\ first > d /\ \A y \in S : y > d => first <= y
<1> DEFINE T == {n \in Nat : n > 0 /\ d + n \in S}
           A == {y \in S : y > d}
<1>1. T # {}
  <2>1. PICK y \in S : y > d
    OBVIOUS
  <2>2. y - d \in Nat /\ y - d > 0 /\ d + (y - d) = y
    BY <2>1
  <2> QED BY <2>1, <2>2
<1>2. PICK n \in T : \A k \in T : n <= k
  BY <1>1, NatHasLeast
<1>3. d + n \in A
  BY <1>2
<1>4. \A y \in A : d + n <= y
  <2> TAKE y \in A
  <2>1. y - d \in T
    <3>1. y - d \in Nat /\ y - d > 0 /\ d + (y - d) = y
      OBVIOUS
    <3> QED BY <3>1
  <2> QED BY <1>2, <2>1
<1>5. \E x \in A : \A y \in A : x =< y
  BY <1>3, <1>4
<1>6. Min(A) \in A /\ \A y \in A : Min(A) =< y
  BY <1>5 DEF Min
<1> QED BY <1>6

\* The views that can be opened show grids.
LEMMA GridOfAnchor ==
  ASSUME NEW a \in Anchors, NEW mode \in Modes
  PROVE  from_anchor(a, mode) \in Grids
<1>1. a \in Int /\ FirstDate \in Int /\ FirstDate <= a
  BY DatesAssumption DEF Anchors
<1>2. CASE mode = "week"
  BY <1>1, <1>2 DEF from_anchor, Grids, Weekday
<1>3. CASE mode # "week"
  <2>1. PICK m, n \in MonthStarts : m <= a /\ a < n /\ n - m <= 31
    BY DatesAssumption
  <2>2. MonthOf(a) \in Int /\ MonthOf(a) <= a /\ m <= MonthOf(a)
    BY <1>1, <2>1, LastBefore, DatesAssumption DEF MonthOf
  <2>3. MonthAfter(a) \in Int /\ MonthAfter(a) > a /\ MonthAfter(a) <= n
    BY <1>1, <2>1, FirstAfter, DatesAssumption DEF MonthAfter
  <2>4. m \in Int /\ n \in Int
    BY DatesAssumption
  <2> QED BY <1>1, <1>3, <2>1, <2>2, <2>3, <2>4 DEF from_anchor, Grids, Weekday
<1> QED BY <1>2, <1>3

\* The year of a day of a grid.
LEMMA YearOfDay ==
  ASSUME NEW p \in Grids, NEW d \in Days(p)
  PROVE  /\ d \in Int /\ p.start <= d /\ d <= p.end - 1
         /\ YearOf(d) \in YearStarts /\ YearOf(d) <= d
         /\ \A y \in YearStarts : y <= d => y <= YearOf(d)
<1>1. d \in Int /\ p.start <= d /\ d <= p.end - 1
  BY DEF Days, Grids
<1>2. \E y \in YearStarts : y <= d
  BY <1>1, DatesAssumption DEF Grids
<1> QED BY <1>1, <1>2, LastBefore, DatesAssumption DEF YearOf

\* A grid lies in the years of its first and of its last day.
LEMMA TwoYears ==
  ASSUME NEW p \in Grids
  PROVE  /\ HolidayYears(p) \subseteq YearStarts /\ HolidayYears(p) # {}
         /\ \A d \in Days(p) : YearOf(d) \in HolidayYears(p)
<1>1. p.start \in Days(p) /\ p.end - 1 \in Days(p) /\ p.start \in Int /\ p.end \in Int
  BY DEF Days, Grids
<1> DEFINE a == YearOf(p.start)
           b == YearOf(p.end - 1)
<1>2. a \in YearStarts /\ a <= p.start /\ \A y \in YearStarts : y <= p.start => y <= a
  BY <1>1, YearOfDay
<1>3. b \in YearStarts /\ b <= p.end - 1 /\ \A y \in YearStarts : y <= p.end - 1 => y <= b
  BY <1>1, YearOfDay
<1>4. ASSUME NEW d \in Days(p)
      PROVE  YearOf(d) \in {a, b}
  <2> DEFINE c == YearOf(d)
  <2>1. c \in YearStarts /\ c <= d /\ d \in Int /\ p.start <= d /\ d <= p.end - 1
        /\ \A y \in YearStarts : y <= d => y <= c
    BY YearOfDay
  <2> HIDE DEF a, b, c
  <2>2. a \in Int /\ b \in Int /\ c \in Int
    BY <1>2, <1>3, <2>1, DatesAssumption
  <2>3. a <= c /\ c <= b
    BY <1>1, <1>2, <1>3, <2>1, <2>2
  <2>4. a < c => p.start < c
    BY <1>1, <1>2, <2>1, <2>2
  <2>5. c < b => b - c >= 365
    BY <1>3, <2>1, DatesAssumption
  <2>6. c = a \/ c = b
    BY <1>1, <1>3, <2>2, <2>3, <2>4, <2>5 DEF Grids
  <2> QED BY <2>6 DEF c
<1> QED BY <1>2, <1>3, <1>4 DEF HolidayYears

\* The holidays of both years are those of every day.
LEMMA HolidaysOfGrid ==
  ASSUME NEW p \in Grids, NEW k \in Named
  PROVE  {d \in Days(p) : \E y \in HolidayYears(p) : d \in HolidaysOf[k, y]}
           = {d \in Days(p) : d \in HolidaysOf[k, YearOf(d)]}
<1>1. \A d \in Days(p), y \in HolidayYears(p) : d \in HolidaysOf[k, y] => YearOf(d) = y
  BY TwoYears, RefreshAssumption
<1> QED BY <1>1, TwoYears

\* An event drawn on a day of a grid is one the server was asked for.
LEMMA DrawnIsAsked ==
  ASSUME NEW p \in Grids, NEW date \in Days(p), NEW offset \in Offsets,
         NEW event \in CalendarEvent, event.from <= event.to, event_overlapsLocalDate(event, date, offset)
  PROVE  InRange(event, query_start_utc(p), query_end_utc(p))
<1>1. date \in Int /\ p.start \in Int /\ p.end \in Int /\ p.start <= date /\ date <= p.end - 1
  BY DEF Days, Grids
<1>2. offset \in -1 .. 1
  BY RefreshAssumption
<1>3. event.from \in Int /\ event.to \in Int
  BY DEF CalendarEvent
<1>4. CASE event.allDay
  BY <1>1, <1>3, <1>4 DEF event_overlapsLocalDate, InRange, query_start_utc, query_end_utc, HalfDays
<1>5. CASE ~event.allDay
  BY <1>1, <1>2, <1>3, <1>5
     DEF event_overlapsLocalDate, LocalDate, InRange, query_start_utc, query_end_utc, HalfDays
<1>6. event.allDay \/ ~event.allDay
  OBVIOUS
<1> QED BY <1>4, <1>5, <1>6

-----------------------------------------------------------------------------
(* The operators of the runtime. *)

LEMMA ConfigFields ==
  ASSUME NEW c \in Config
  PROVE  /\ c.identity \in Identities /\ c.cols \subseteq Collections /\ c.mode \in Modes
         /\ holidayCountry_get(c) \in Named \cup {NoCountry}
         /\ ready_validate(c) => \A col \in c.cols : OwnerOf[col] = c.identity
  BY DEF Config, holidayCountry_get, ready_validate, Named

\* Turning to a period leaves a runtime, of the same generation.
LEMMA PeriodSet ==
  ASSUME NEW r \in Runtime, NEW anchor \in Anchors, NEW mode \in Modes
  PROVE  /\ period_set(r, anchor, mode) \in Runtime
         /\ period_set(r, anchor, mode).generation = r.generation
<1>1. from_anchor(anchor, mode) \in Grids
  BY GridOfAnchor
<1> QED BY <1>1 DEF period_set, Cleared, Runtime

\* So does a module without a configuration, and a refresh, which takes the next generation.
LEMMA ConfigurationRequired ==
  ASSUME NEW r \in Runtime
  PROVE  LET next == refresh_configurationRequired(r)
         IN /\ next \in Runtime /\ next.generation = r.generation + 1
            /\ next.load = "ConfigurationRequired" /\ next.country = NoCountry
<1>1. Cleared(r) \in Runtime /\ Cleared(r).generation = r.generation /\ Cleared(r).country = NoCountry
  BY DEF Cleared, Runtime
<1>2. ASSUME NEW n \in Nat
      PROVE  LET next == [Cleared(r) EXCEPT !.generation = n, !.load = "ConfigurationRequired"]
             IN /\ next \in Runtime /\ next.generation = n
                /\ next.load = "ConfigurationRequired" /\ next.country = NoCountry
  BY <1>1 DEF Runtime
<1>3. r.generation + 1 \in Nat
  BY DEF Runtime
<1>4. refresh_configurationRequired(r)
        = [Cleared(r) EXCEPT !.generation = r.generation + 1, !.load = "ConfigurationRequired"]
  BY <1>1 DEF refresh_configurationRequired
<1> QED BY <1>2, <1>3, <1>4

Begun(r, period, country, given) ==
    refresh_start(r, r.anchor, period, country, given # NoCountry)

LEMMA RefreshStart ==
  ASSUME NEW r \in Runtime, NEW period \in Grids, NEW country \in Named \cup {NoCountry},
         NEW given
  PROVE  LET next == Begun(r, period, country, given)
         IN /\ next \in Runtime /\ next.generation = r.generation + 1
            /\ next.load = "Loading" /\ next.period = period /\ next.country = country
            /\ next.holidayLoading = (country # NoCountry)
<1> DEFINE started(n, stale, loading, error, days) ==
             [r EXCEPT !.generation = n, !.anchor = r.anchor, !.period = period,
                       !.stale = stale, !.load = "Loading", !.partial = 0, !.rejected = 0,
                       !.holidays = days, !.country = country,
                       !.holidayLoading = loading, !.holidayError = error]
           days == IF r.country # country THEN {} ELSE r.holidays
<1>1. ASSUME NEW stale \in BOOLEAN, NEW loading \in BOOLEAN, NEW error \in BOOLEAN,
             NEW n \in Nat, NEW some \in SUBSET Int
      PROVE  LET next == started(n, stale, loading, error, some)
             IN /\ next \in Runtime /\ next.generation = n
                /\ next.load = "Loading" /\ next.period = period /\ next.country = country
                /\ next.holidayLoading = loading
  <2> DEFINE next == started(n, stale, loading, error, some)
             begun == [r EXCEPT !.generation = n, !.anchor = r.anchor, !.period = period,
                                !.load = "Loading", !.partial = 0, !.rejected = 0]
             dated == [begun EXCEPT !.stale = stale, !.holidays = some, !.country = country]
  <2>1. begun \in Runtime /\ begun.generation = n /\ begun.load = "Loading" /\ begun.period = period
    BY DEF Runtime
  <2>2. next = [dated EXCEPT !.holidayLoading = loading, !.holidayError = error]
    BY DEF Runtime
  <2> HIDE DEF begun, started
  <2>3. dated \in Runtime /\ dated.generation = n /\ dated.load = "Loading"
        /\ dated.period = period /\ dated.country = country
    BY <2>1 DEF Runtime
  <2> HIDE DEF dated
  <2>4. next \in Runtime /\ next.generation = n /\ next.load = "Loading"
        /\ next.period = period /\ next.country = country /\ next.holidayLoading = loading
    BY <2>2, <2>3 DEF Runtime
  <2> QED BY <2>4
<1>2. days \in SUBSET Int /\ r.generation + 1 \in Nat
  BY DEF Runtime
<1> DEFINE stale == r.events # {}
           loading == country # NoCountry
           error == given # NoCountry /\ country = NoCountry
<1>3. stale \in BOOLEAN /\ loading \in BOOLEAN /\ error \in BOOLEAN
  OBVIOUS
<1>4. Begun(r, period, country, given) = started(r.generation + 1, stale, loading, error, days)
  BY DEF Begun, refresh_start
<1> HIDE DEF started, days, stale, loading, error
<1>5. LET next == started(r.generation + 1, stale, loading, error, days)
      IN /\ next \in Runtime /\ next.generation = r.generation + 1
         /\ next.load = "Loading" /\ next.period = period /\ next.country = country
         /\ next.holidayLoading = loading
  BY <1>1, <1>2, <1>3
<1> QED BY <1>4, <1>5 DEF loading

LEMMA DefaultIsRuntime == DefaultRuntime \in Runtime
  BY RefreshAssumption DEF DefaultRuntime, Runtime

\* A refresh of a runtime r under the configuration c, whatever both were before: what is
\* under way then has an older generation.
LEMMA RefreshedFits ==
  ASSUME RefreshInv, NEW r \in Runtime, NEW c \in Config, Refreshed(r, c), config' = c,
         editMode' \in BOOLEAN, reused' \in BOOLEAN, UNCHANGED server,
         ~reused' => ~reused /\ \A t \in refreshes : t.generation <= r.generation
  PROVE  RefreshInv'
<1> USE DEF RefreshInv
<1>0. config' \in Config /\ server' \in [Collections -> SUBSET EventIds]
  BY DEF RefreshTypes
<1>1. CASE ~ready_validate(c)
  <2>1. runtime' = refresh_configurationRequired(r) /\ refreshes' = refreshes /\ truth' = NoTruth
    BY <1>1 DEF Refreshed
  <2>2. runtime' \in Runtime /\ runtime'.generation = r.generation + 1
        /\ runtime'.load = "ConfigurationRequired" /\ runtime'.country = NoCountry
    <3> DEFINE next == refresh_configurationRequired(r)
    <3>1. next \in Runtime /\ next.generation = r.generation + 1
          /\ next.load = "ConfigurationRequired" /\ next.country = NoCountry
      BY ConfigurationRequired
    <3> HIDE DEF next
    <3>2. runtime' = next
      BY <2>1 DEF next
    <3> QED BY <3>1, <3>2
  <2>3. RefreshTypes'
    BY <1>0, <2>2 DEF RefreshTypes
  <2>4. RefreshesFit'
    BY <2>1 DEF RefreshesFit
  <2>5. Current'
    <3> SUFFICES ASSUME ~reused'
                 PROVE  /\ \A t \in refreshes : t.generation < runtime'.generation
                        /\ \A t, u \in refreshes : t.generation = u.generation => t = u
      BY <2>1, <2>2 DEF Current, RefreshesFit, IsRefresh, Runtime
    <3>1. \A t \in refreshes : t.generation \in Nat /\ r.generation \in Nat
      BY DEF RefreshesFit, IsRefresh, Runtime
    <3> QED BY <2>2, <3>1 DEF Current
  <2>6. ReadyIsGathered' /\ HolidaysAreComplete'
    BY <2>2 DEF ReadyIsGathered, HolidaysAreComplete
  <2> QED BY <2>3, <2>4, <2>5, <2>6
<1>2. CASE ready_validate(c)
  <2> DEFINE period == refresh_period_get(r, c)
             country == holidayCountry_get(c)
             next == Begun(r, period, country, c.country)
             id == Min((1 .. MaxRefreshes) \ {t.id : t \in refreshes})
             new == [id |-> id, generation |-> next.generation,
                     identity |-> c.identity, cols |-> c.cols, period |-> period,
                     country |-> country, todo |-> c.cols, events |-> {}, read |-> {},
                     answered |-> {}, failed |-> 0, rejected |-> 0, phase |-> "events",
                     years |-> HolidayYears(period), days |-> {}]
  <2>1. runtime' = next /\ refreshes' = refreshes \cup {new} /\ truth' = NoTruth
    BY <1>2 DEF Refreshed, Begun
  <2>2. period \in Grids
    BY GridOfAnchor, ConfigFields, RefreshAssumption DEF refresh_period_get, Runtime
  <2>3. country \in Named \cup {NoCountry}
    BY ConfigFields
  <2> HIDE DEF period, country
  <2>4. next \in Runtime /\ next.generation = r.generation + 1 /\ next.load = "Loading"
        /\ next.period = period /\ next.country = country
        /\ next.holidayLoading = (country # NoCountry)
    BY <2>2, <2>3, RefreshStart
  <2> HIDE DEF next, id
  <2>5. IsRefresh(new) /\ Gathers(new) /\ YearsRead(new)
    <3>1. new.generation \in Nat
      BY <2>4 DEF Runtime
    <3>2. IsRefresh(new)
      BY <2>2, <2>3, <3>1, ConfigFields, TwoYears DEF IsRefresh
    <3>3. Gathers(new)
      <4>1. c.cols \ (c.cols \cup {}) = {} /\ Cardinality({}) = 0
        BY FS_EmptySet
      <4> QED BY <1>2, <4>1, ConfigFields DEF Gathers, Within, Readable
    <3>4. YearsRead(new)
      BY <2>2, TwoYears DEF YearsRead
    <3> QED BY <3>2, <3>3, <3>4
  <2>6. RefreshTypes'
    BY <1>0, <2>1, <2>4 DEF RefreshTypes
  <2>7. RefreshesFit'
    BY <2>1, <2>5 DEF RefreshesFit
  <2>8. Current'
    <3> SUFFICES ASSUME ~reused' PROVE Current'
      BY DEF Current
    <3>1. \A t \in refreshes : t.generation \in Nat /\ t.generation <= r.generation
      BY DEF RefreshesFit, IsRefresh
    <3>2. \A t, u \in refreshes : t.generation = u.generation => t = u
      BY DEF Current
    <3>3. new.generation = r.generation + 1 /\ r.generation \in Nat
          /\ new.period = period /\ new.country = country
          /\ new.identity = c.identity /\ new.cols = c.cols
      BY <2>4 DEF Runtime
    <3>4. \A t \in refreshes : t.generation < new.generation
      BY <3>1, <3>3
    <3>5. runtime'.generation = new.generation /\ runtime'.period = period
          /\ runtime'.country = country /\ runtime'.load = "Loading"
      BY <2>1, <2>4, <3>3
    <3> HIDE DEF new
    <3> QED BY <2>1, <3>1, <3>2, <3>3, <3>4, <3>5 DEF Current
  <2>9. ReadyIsGathered' /\ HolidaysAreComplete'
    BY <2>1, <2>4 DEF ReadyIsGathered, HolidaysAreComplete
  <2> QED BY <2>6, <2>7, <2>8, <2>9
<1> QED BY <1>1, <1>2

-----------------------------------------------------------------------------
(* The steps. *)

LEMMA StepTurn ==
  ASSUME RefreshInv,
         \/ CalendarDraw \/ calendarPeriod_shift \/ calendarPeriod_set(Today)
         \/ Refresh \/ EditLeave \/ \E m \in Modes : calendarViewMode_set(m)
  PROVE  RefreshInv'
<1>1. runtime \in Runtime /\ config \in Config /\ editMode \in BOOLEAN /\ reused \in BOOLEAN
      /\ runtime.anchor \in Anchors /\ config.mode \in Modes
  BY ConfigFields DEF RefreshInv, RefreshTypes, Runtime
<1>2. ~reused => \A t \in refreshes : t.generation <= runtime.generation
  BY DEF RefreshInv, Current
<1>3. Today \in Anchors
  BY RefreshAssumption
<1>4. ASSUME NEW anchor \in Anchors, NEW mode \in Modes, NEW c \in Config,
             Refreshed(period_set(runtime, anchor, mode), c), config' = c,
             editMode' \in BOOLEAN, UNCHANGED <<server, reused>>
      PROVE  RefreshInv'
  <2> DEFINE r == period_set(runtime, anchor, mode)
  <2>1. r \in Runtime /\ r.generation = runtime.generation
    BY <1>1, <1>4, PeriodSet
  <2> HIDE DEF r
  <2>2. Refreshed(r, c)
    BY <1>4 DEF r
  <2> QED BY <1>1, <1>2, <1>4, <2>1, <2>2, RefreshedFits
<1>5. CASE CalendarDraw
  BY <1>1, <1>3, <1>4, <1>5 DEF CalendarDraw
<1>6. ASSUME NEW anchor, calendarPeriod_set(anchor) PROVE RefreshInv'
  BY <1>1, <1>4, <1>6 DEF calendarPeriod_set
<1>7. CASE Refresh
  BY <1>1, <1>2, <1>7, RefreshedFits DEF Refresh
<1>8. CASE EditLeave
  BY <1>1, <1>3, <1>4, <1>8 DEF EditLeave
<1>9. ASSUME NEW m \in Modes, calendarViewMode_set(m) PROVE RefreshInv'
  <2>1. config' \in Config
    BY <1>1, <1>9 DEF calendarViewMode_set, Config
  <2> QED BY <1>1, <1>4, <1>9, <2>1 DEF calendarViewMode_set
<1> QED BY <1>5, <1>6, <1>7, <1>8, <1>9 DEF calendarPeriod_shift

\* The holder starts the generations anew, while nothing is under way or as the history notes.
LEMMA StepImport ==
  ASSUME RefreshInv, NEW c \in Configs, Import(c)
  PROVE  RefreshInv'
<1>1. c \in Config /\ DefaultRuntime \in Runtime
  BY RefreshAssumption, DefaultIsRuntime
<1>2. editMode' \in BOOLEAN /\ reused' \in BOOLEAN /\ UNCHANGED server /\ config' = c
      /\ Refreshed(DefaultRuntime, c)
  BY DEF Import, RefreshInv, RefreshTypes
<1>3. ~reused' => ~reused /\ \A t \in refreshes : t.generation <= DefaultRuntime.generation
  BY DEF Import
<1> QED BY <1>1, <1>2, <1>3, RefreshedFits

\* In edit mode the configuration is not compared with what is shown.
LEMMA StepEdit ==
  ASSUME RefreshInv,
         \/ EditEnter
         \/ \E i \in Identities : IdentityEdit(i)
         \/ \E k \in Countries : CountryEdit(k)
         \/ \E c \in Collections : CollectionToggle(c)
  PROVE  RefreshInv'
<1> USE DEF RefreshInv
<1>1. editMode' = TRUE /\ UNCHANGED <<refreshes, server, truth, reused>>
  BY DEF EditEnter, IdentityEdit, CountryEdit, CollectionToggle
<1>2. config' \in Config
  <2>1. CASE EditEnter
    BY <2>1 DEF EditEnter, RefreshTypes
  <2>2. ASSUME NEW i \in Identities, IdentityEdit(i) PROVE config' \in Config
    BY <2>2 DEF IdentityEdit, RefreshTypes, Config
  <2>3. ASSUME NEW k \in Countries, CountryEdit(k) PROVE config' \in Config
    BY <2>3 DEF CountryEdit, RefreshTypes, Config
  <2>4. ASSUME NEW c \in Collections, CollectionToggle(c) PROVE config' \in Config
    <3>1. \A cols \in SUBSET Collections : [config EXCEPT !.cols = cols] \in Config
      BY DEF RefreshTypes, Config
    <3>2. config.cols \in SUBSET Collections
      BY DEF RefreshTypes, Config
    <3>3. config' = [config EXCEPT !.cols = IF c \in config.cols THEN config.cols \ {c}
                                            ELSE config.cols \cup {c}]
      BY <2>4 DEF CollectionToggle, RefreshTypes, Config
    <3> QED BY <3>1, <3>2, <3>3
  <2> QED BY <2>1, <2>2, <2>3, <2>4
<1>3. runtime' = runtime \/ runtime' = [runtime EXCEPT !.discovered = {}]
  BY DEF EditEnter, IdentityEdit, CountryEdit, CollectionToggle
<1>4. runtime' \in Runtime
      /\ runtime'.generation = runtime.generation /\ runtime'.period = runtime.period
      /\ runtime'.country = runtime.country /\ runtime'.load = runtime.load
      /\ runtime'.events = runtime.events /\ runtime'.rejected = runtime.rejected
      /\ runtime'.partial = runtime.partial /\ runtime'.holidays = runtime.holidays
      /\ runtime'.holidayLoading = runtime.holidayLoading
      /\ runtime'.holidayError = runtime.holidayError
  BY <1>3 DEF RefreshTypes, Runtime
<1>5. RefreshTypes' /\ RefreshesFit'
  BY <1>1, <1>2, <1>4 DEF RefreshTypes, RefreshesFit
<1>6. Current'
  BY <1>1, <1>4 DEF Current
<1>7. ReadyIsGathered' /\ HolidaysAreComplete'
  BY <1>1, <1>4 DEF ReadyIsGathered, HolidaysAreComplete
<1> QED BY <1>5, <1>6, <1>7

LEMMA StepSearch ==
  ASSUME RefreshInv,
         calendarCollections_discover \/ \E i \in searches : DiscoverAnswer(i)
  PROVE  RefreshInv'
<1> USE DEF RefreshInv
<1>1. UNCHANGED <<config, refreshes, editMode, server, truth, reused>>
  BY DEF calendarCollections_discover, DiscoverAnswer
<1>2. \/ runtime' = runtime
      \/ \E found \in SUBSET Collections, searching \in BOOLEAN :
           runtime' = [runtime EXCEPT !.discovering = searching, !.discovered = found]
  BY DEF calendarCollections_discover, DiscoverAnswer, collections_discover
<1>4. runtime' \in Runtime
      /\ runtime'.generation = runtime.generation /\ runtime'.period = runtime.period
      /\ runtime'.country = runtime.country /\ runtime'.load = runtime.load
      /\ runtime'.events = runtime.events /\ runtime'.rejected = runtime.rejected
      /\ runtime'.partial = runtime.partial /\ runtime'.holidays = runtime.holidays
      /\ runtime'.holidayLoading = runtime.holidayLoading
      /\ runtime'.holidayError = runtime.holidayError
  BY <1>2 DEF RefreshTypes, Runtime
<1>5. RefreshTypes' /\ RefreshesFit'
  BY <1>1, <1>4 DEF RefreshTypes, RefreshesFit
<1>6. Current'
  BY <1>1, <1>4 DEF Current
<1>7. ReadyIsGathered' /\ HolidaysAreComplete'
  BY <1>1, <1>4 DEF ReadyIsGathered, HolidaysAreComplete
<1> QED BY <1>5, <1>6, <1>7

LEMMA StepOutside ==
  ASSUME RefreshInv,
         \/ \E k \in DOMAIN cache : CacheAges(k)
         \/ \E e \in EventIds : OthersEdit(e)
         \/ NetworkToggle \/ UNCHANGED rvars
  PROVE  RefreshInv'
<1> USE DEF RefreshInv
<1>1. UNCHANGED <<config, runtime, refreshes, editMode, truth, reused>>
  BY DEF CacheAges, OthersEdit, NetworkToggle, rvars
<1>2. server' \in [Collections -> SUBSET EventIds]
  <2>1. CASE UNCHANGED server
    BY <2>1 DEF RefreshTypes
  <2>2. ASSUME NEW e \in EventIds, OthersEdit(e)
        PROVE  server' \in [Collections -> SUBSET EventIds]
    <3>1. EventOf[e].col \in Collections
      BY RefreshAssumption DEF CalendarEvent
    <3> QED BY <2>2, <3>1 DEF OthersEdit, RefreshTypes
  <2> QED BY <2>1, <2>2 DEF CacheAges, NetworkToggle, rvars
<1>3. RefreshTypes' /\ RefreshesFit' /\ Current'
  BY <1>1, <1>2 DEF RefreshTypes, RefreshesFit, Current
<1>4. ReadyIsGathered' /\ HolidaysAreComplete'
  BY <1>1 DEF ReadyIsGathered, HolidaysAreComplete
<1> QED BY <1>3, <1>4

-----------------------------------------------------------------------------
(* The steps of a refresh. *)

\* What one more collection that is read adds, and what one that fails adds.
LEMMA GatherRead ==
  ASSUME NEW t, IsRefresh(t), Gathers(t), NEW c \in t.todo, NEW held \in SUBSET EventIds
  PROVE  LET asked == Within(held, t.period)
             next == [t EXCEPT !.todo = @ \ {c}, !.answered = @ \cup {c},
                               !.events = @ \cup Readable(asked), !.read = @ \cup held,
                               !.rejected = @ + Cardinality(asked \ Readable(asked))]
         IN IsRefresh(next) /\ Gathers(next)
<1> DEFINE asked == Within(held, t.period)
           bad == Cardinality(asked \ Readable(asked))
           read(todo, answered, events, all, rejected) ==
             [t EXCEPT !.todo = todo, !.answered = answered, !.events = events, !.read = all,
                       !.rejected = rejected]
           next == read(t.todo \ {c}, t.answered \cup {c}, t.events \cup Readable(asked),
                        t.read \cup held, t.rejected + bad)
<1>1. asked \subseteq EventIds /\ Readable(asked) \subseteq asked
  BY DEF Within, Readable
<1>2. bad \in Nat /\ (asked # Readable(asked) => bad > 0)
  <2>1. IsFiniteSet(asked \ Readable(asked))
    BY <1>1, RefreshAssumption, FS_Subset
  <2>2. bad \in Nat /\ (bad = 0 <=> asked \ Readable(asked) = {})
    BY <2>1, FS_CardinalityType, FS_EmptySet
  <2> QED BY <1>1, <2>2
<1> HIDE DEF bad, asked
<1>3. t.rejected + bad \in Nat /\ t.rejected \in Nat
  BY <1>2 DEF IsRefresh
<1>4. ASSUME NEW todo \in SUBSET Collections, NEW answered \in SUBSET Collections,
             NEW events \in SUBSET EventIds, NEW all \in SUBSET EventIds, NEW rejected \in Nat
      PROVE  LET n == read(todo, answered, events, all, rejected)
             IN /\ IsRefresh(n)
                /\ n.todo = todo /\ n.answered = answered /\ n.events = events /\ n.read = all
                /\ n.rejected = rejected /\ n.cols = t.cols /\ n.failed = t.failed
                /\ n.period = t.period /\ n.identity = t.identity
  BY DEF IsRefresh
<1>5. /\ t.todo \ {c} \in SUBSET Collections /\ t.answered \cup {c} \in SUBSET Collections
      /\ t.events \cup Readable(asked) \in SUBSET EventIds /\ t.read \cup held \in SUBSET EventIds
  BY <1>1 DEF IsRefresh
<1> HIDE DEF read
<1>6. /\ IsRefresh(next)
      /\ next.todo = t.todo \ {c} /\ next.answered = t.answered \cup {c}
      /\ next.events = t.events \cup Readable(asked) /\ next.read = t.read \cup held
      /\ next.rejected = t.rejected + bad /\ next.cols = t.cols /\ next.failed = t.failed
      /\ next.period = t.period /\ next.identity = t.identity
  BY <1>3, <1>4, <1>5
<1>7. next = [t EXCEPT !.todo = @ \ {c}, !.answered = @ \cup {c},
                       !.events = @ \cup Readable(asked), !.read = @ \cup held,
                       !.rejected = @ + bad]
  BY DEF read, IsRefresh
<1> HIDE DEF next
<1>8. Within(next.read, next.period) = Within(t.read, t.period) \cup asked
  BY <1>6 DEF Within, asked
<1>9. next.events = Readable(Within(next.read, next.period))
  BY <1>6, <1>8 DEF Gathers, Readable
<1>10. Within(next.read, next.period) # next.events => next.rejected > 0
  <2>1. SUFFICES ASSUME Within(next.read, next.period) # next.events
                 PROVE  t.rejected > 0 \/ bad > 0
    BY <1>2, <1>3, <1>6
  <2>2. Within(t.read, t.period) # t.events \/ asked # Readable(asked)
    BY <1>6, <1>8, <2>1
  <2> QED BY <1>2, <2>2 DEF Gathers
<1>11. /\ next.todo \subseteq next.cols /\ next.answered \subseteq next.cols \ next.todo
       /\ next.failed = Cardinality(next.cols \ (next.todo \cup next.answered))
       /\ \A col \in next.cols : OwnerOf[col] = next.identity
  <2>1. (t.todo \ {c}) \cup (t.answered \cup {c}) = t.todo \cup t.answered
    OBVIOUS
  <2> QED BY <1>6, <2>1 DEF Gathers
<1>12. Gathers(next)
  BY <1>9, <1>10, <1>11 DEF Gathers
<1> QED BY <1>6, <1>7, <1>12 DEF bad, asked

LEMMA GatherFailed ==
  ASSUME NEW t, IsRefresh(t), Gathers(t), NEW c \in t.todo
  PROVE  LET next == [t EXCEPT !.todo = @ \ {c}, !.failed = @ + 1]
         IN IsRefresh(next) /\ Gathers(next)
<1> DEFINE missed(todo, failed) == [t EXCEPT !.todo = todo, !.failed = failed]
           next == missed(t.todo \ {c}, t.failed + 1)
<1>1. ASSUME NEW todo \in SUBSET Collections, NEW failed \in Nat
      PROVE  LET n == missed(todo, failed)
             IN /\ IsRefresh(n) /\ n.todo = todo /\ n.failed = failed
                /\ n.answered = t.answered /\ n.events = t.events /\ n.read = t.read
                /\ n.rejected = t.rejected /\ n.cols = t.cols
                /\ n.period = t.period /\ n.identity = t.identity
  BY DEF IsRefresh
<1>2. t.todo \ {c} \in SUBSET Collections /\ t.failed + 1 \in Nat
  BY DEF IsRefresh
<1> HIDE DEF missed
<1>3. /\ IsRefresh(next) /\ next.todo = t.todo \ {c} /\ next.failed = t.failed + 1
      /\ next.answered = t.answered /\ next.events = t.events /\ next.read = t.read
      /\ next.rejected = t.rejected /\ next.cols = t.cols
      /\ next.period = t.period /\ next.identity = t.identity
  BY <1>1, <1>2
<1>4. next = [t EXCEPT !.todo = @ \ {c}, !.failed = @ + 1]
  BY DEF missed, IsRefresh
<1> HIDE DEF next
<1>5. next.failed = Cardinality(next.cols \ (next.todo \cup next.answered))
  <2> DEFINE missing == t.cols \ (t.todo \cup t.answered)
  <2>1. next.cols \ (next.todo \cup next.answered) = missing \cup {c} /\ c \notin missing
    BY <1>3 DEF Gathers
  <2>2. IsFiniteSet(missing)
    BY RefreshAssumption, FS_Subset DEF IsRefresh
  <2>3. Cardinality(missing \cup {c}) = Cardinality(missing) + 1
    BY <2>1, <2>2, FS_AddElement
  <2> QED BY <1>3, <2>1, <2>3 DEF Gathers
<1>6. Gathers(next)
  BY <1>3, <1>5 DEF Gathers
<1> QED BY <1>3, <1>4, <1>6

\* A refresh that reads on is as current as it was.
LEMMA ReadsOn ==
  ASSUME RefreshInv, NEW t \in refreshes, NEW next, Step(t, next),
         IsRefresh(next), Gathers(next), YearsRead(next),
         next.generation = t.generation, next.period = t.period, next.country = t.country,
         next.phase = t.phase, next.identity = t.identity, next.cols = t.cols,
         UNCHANGED <<config, runtime, editMode, server, reused, truth>>
  PROVE  RefreshInv'
<1> USE DEF RefreshInv
<1>1. RefreshTypes'
  BY DEF RefreshTypes
<1>2. RefreshesFit'
  BY DEF RefreshesFit, Step
<1>3. Current'
  <2>1. ASSUME ~reused PROVE \A u \in refreshes : u # t => u.generation # t.generation
    BY <2>1 DEF Current
  <2> QED BY <2>1 DEF Current, Step
<1>4. ReadyIsGathered' /\ HolidaysAreComplete'
  BY DEF ReadyIsGathered, HolidaysAreComplete
<1> QED BY <1>1, <1>2, <1>3, <1>4

\* One that ends leaves the others as they were.
LEMMA Ends ==
  ASSUME RefreshInv, NEW t \in refreshes, refreshes' = refreshes \ {t},
         UNCHANGED <<config, runtime, editMode, server, reused, truth>>
  PROVE  RefreshInv'
<1> USE DEF RefreshInv
<1>1. RefreshTypes' /\ RefreshesFit' /\ Current'
  BY DEF RefreshTypes, RefreshesFit, Current
<1>2. ReadyIsGathered' /\ HolidaysAreComplete'
  BY DEF ReadyIsGathered, HolidaysAreComplete
<1> QED BY <1>1, <1>2

LEMMA StepEventsGet ==
  ASSUME RefreshInv, NEW t \in refreshes, EventsGet(t)
  PROVE  RefreshInv'
<1>1. IsRefresh(t) /\ Gathers(t) /\ YearsRead(t)
  BY DEF RefreshInv, RefreshesFit
<1>2. CASE offline
  BY <1>2, Ends DEF EventsGet, Gone
<1>3. CASE ~offline
  <2> DEFINE c == CHOOSE x \in t.todo : TRUE
  <2>1. c \in t.todo
    BY DEF EventsGet
  <2> HIDE DEF c
  <2>2. events_get(t, c) /\ UNCHANGED <<config, runtime, editMode, server, reused, truth>>
    BY <1>3 DEF EventsGet, c
  <2>3. server[c] \in SUBSET EventIds
    BY <1>1, <2>1 DEF RefreshInv, RefreshTypes, IsRefresh
  <2>4. Asked(t, c) = Within(server[c], t.period)
    BY DEF Asked, Within
  <2>5. PICK next : /\ Step(t, next)
                    /\ \/ next = [t EXCEPT !.todo = @ \ {c}, !.failed = @ + 1]
                       \/ next = [t EXCEPT !.todo = @ \ {c}, !.answered = @ \cup {c},
                            !.events = @ \cup Readable(Asked(t, c)), !.read = @ \cup server[c],
                            !.rejected = @ + Cardinality(Asked(t, c) \ Readable(Asked(t, c)))]
    BY <2>2 DEF events_get
  <2>6. IsRefresh(next) /\ Gathers(next)
    <3>1. CASE next = [t EXCEPT !.todo = @ \ {c}, !.failed = @ + 1]
      BY <1>1, <2>1, <3>1, GatherFailed
    <3>2. CASE next = [t EXCEPT !.todo = @ \ {c}, !.answered = @ \cup {c},
                         !.events = @ \cup Readable(Asked(t, c)), !.read = @ \cup server[c],
                         !.rejected = @ + Cardinality(Asked(t, c) \ Readable(Asked(t, c)))]
      BY <1>1, <2>1, <2>3, <2>4, <3>2, GatherRead
    <3> QED BY <2>5, <3>1, <3>2
  <2>7. /\ next.generation = t.generation /\ next.period = t.period /\ next.country = t.country
        /\ next.phase = t.phase /\ next.identity = t.identity /\ next.cols = t.cols
        /\ next.years = t.years /\ next.days = t.days
    BY <1>1, <2>5 DEF IsRefresh
  <2>8. YearsRead(next)
    BY <1>1, <2>7 DEF YearsRead
  <2> QED BY <2>2, <2>5, <2>6, <2>7, <2>8, ReadsOn
<1> QED BY <1>2, <1>3

\* The runtime after the events of the newest refresh, and after an answer to an older one.
LEMMA RefreshEnded ==
  ASSUME NEW r \in Runtime, NEW t, IsRefresh(t)
  PROVE  LET next == refresh_finish(r, t)
         IN /\ next \in Runtime
            /\ next.generation = r.generation /\ next.period = r.period /\ next.country = r.country
            /\ next.holidays = r.holidays /\ next.holidayLoading = r.holidayLoading
            /\ next.holidayError = r.holidayError
            /\ r.generation # t.generation => next = r
            /\ r.generation = t.generation /\ next.load = "Ready" =>
                 /\ next.events = t.events /\ next.rejected = t.rejected /\ next.partial = t.failed
<1> DEFINE ended(events, load, stale) ==
             [r EXCEPT !.events = events, !.load = load, !.stale = stale,
                       !.partial = t.failed, !.rejected = t.rejected]
           stale == r.events # {}
           fresh == FALSE
<1>1. ASSUME NEW events \in SUBSET EventIds, NEW load \in {"Ready", "Error"}, NEW old \in BOOLEAN
      PROVE  LET next == ended(events, load, old)
             IN /\ next \in Runtime
                /\ next.generation = r.generation /\ next.period = r.period
                /\ next.country = r.country /\ next.holidays = r.holidays
                /\ next.holidayLoading = r.holidayLoading
                /\ next.holidayError = r.holidayError /\ next.load = load
                /\ next.events = events /\ next.rejected = t.rejected /\ next.partial = t.failed
  BY DEF Runtime, IsRefresh
<1>2. r.generation # t.generation => refresh_finish(r, t) = r
  BY DEF refresh_finish
<1>3. r.generation = t.generation /\ t.answered # {} =>
        refresh_finish(r, t) = ended(t.events, "Ready", fresh)
  BY DEF refresh_finish, Runtime
<1>4. r.generation = t.generation /\ t.answered = {} =>
        refresh_finish(r, t) = ended(r.events, "Error", stale)
  BY DEF refresh_finish, Runtime
<1>5. stale \in BOOLEAN /\ fresh \in BOOLEAN /\ t.events \in SUBSET EventIds /\ r.events \in SUBSET EventIds
  BY DEF IsRefresh, Runtime
<1> HIDE DEF ended, stale, fresh
<1>6. CASE r.generation # t.generation
  BY <1>2, <1>6
<1>7. CASE r.generation = t.generation /\ t.answered # {}
  BY <1>1, <1>3, <1>5, <1>7
<1>8. CASE r.generation = t.generation /\ t.answered = {}
  BY <1>1, <1>4, <1>5, <1>8
<1> QED BY <1>6, <1>7, <1>8

LEMMA StepRefreshFinish ==
  ASSUME RefreshInv, NEW t \in refreshes, RefreshFinish(t)
  PROVE  RefreshInv'
<1> USE DEF RefreshInv
<1>1. IsRefresh(t) /\ Gathers(t) /\ YearsRead(t) /\ runtime \in Runtime
  BY DEF RefreshesFit, RefreshTypes
<1>2. CASE offline
  BY <1>2, Ends DEF RefreshFinish, Gone
<1>3. CASE ~offline
  <2> DEFINE next == [t EXCEPT !.phase = "holidays", !.cols = {}, !.events = {}, !.read = {},
                               !.answered = {}, !.failed = 0, !.rejected = 0]
  <2>1. /\ t.phase = "events" /\ t.todo = {} /\ runtime' = refresh_finish(runtime, t)
        /\ truth' = IF runtime'.load = "Ready" /\ runtime.generation = t.generation
                    THEN [period |-> t.period, identity |-> t.identity, cols |-> t.cols,
                          read |-> t.read, answered |-> t.answered]
                    ELSE truth
        /\ IF t.country = NoCountry THEN refreshes' = refreshes \ {t}
           ELSE refreshes' = (refreshes \ {t}) \cup {next}
        /\ UNCHANGED <<config, editMode, server, reused>>
    BY <1>3 DEF RefreshFinish, Step
  <2>2. /\ runtime' \in Runtime
        /\ runtime'.generation = runtime.generation /\ runtime'.period = runtime.period
        /\ runtime'.country = runtime.country /\ runtime'.holidays = runtime.holidays
        /\ runtime'.holidayLoading = runtime.holidayLoading
        /\ runtime'.holidayError = runtime.holidayError
        /\ runtime.generation # t.generation => runtime' = runtime
        /\ runtime.generation = t.generation /\ runtime'.load = "Ready" =>
             /\ runtime'.events = t.events /\ runtime'.rejected = t.rejected
             /\ runtime'.partial = t.failed
    BY <1>1, <2>1, RefreshEnded
  <2>3. t.country # NoCountry =>
          /\ IsRefresh(next) /\ Gathers(next) /\ YearsRead(next)
          /\ next.generation = t.generation /\ next.period = t.period
          /\ next.country = t.country /\ next.phase = "holidays"
    <3>1. /\ IsRefresh(next) /\ next.todo = {} /\ next.answered = {} /\ next.events = {}
          /\ next.read = {} /\ next.cols = {} /\ next.failed = 0
          /\ next.generation = t.generation /\ next.period = t.period
          /\ next.country = t.country /\ next.phase = "holidays"
          /\ next.years = t.years /\ next.days = t.days
      BY <1>1, <2>1 DEF IsRefresh
    <3> HIDE DEF next
    <3>2. Gathers(next)
      <4>1. Cardinality({}) = 0
        BY FS_EmptySet
      <4> QED BY <3>1, <4>1 DEF Gathers, Within, Readable
    <3>3. t.country # NoCountry => t.country \in Named
      BY <1>1 DEF IsRefresh
    <3>4. t.country # NoCountry => YearsRead(next)
      BY <1>1, <3>1, <3>3 DEF YearsRead
    <3> QED BY <3>1, <3>2, <3>4
  <2> HIDE DEF next
  <2>4. RefreshTypes'
    BY <2>1, <2>2 DEF RefreshTypes
  <2>5. RefreshesFit'
    BY <2>1, <2>3 DEF RefreshesFit
  <2>6. Current'
    <3> SUFFICES ASSUME ~reused
                 PROVE  Current'
      BY <2>1 DEF Current
    <3>1. \A u \in refreshes : u # t => u.generation # t.generation
      BY DEF Current
    <3>2. \A u \in refreshes' : u.generation = runtime'.generation /\ u.phase = "events" =>
            u \in refreshes /\ runtime' = runtime
      BY <2>1, <2>2, <2>3, <3>1
    <3> QED BY <2>1, <2>2, <2>3, <3>1, <3>2 DEF Current
  <2>7. ReadyIsGathered'
    <3> SUFFICES ASSUME runtime'.load = "Ready", ~reused
                 PROVE  ReadyIsGathered'
      BY <2>1 DEF ReadyIsGathered
    <3>1. CASE runtime.generation # t.generation
      BY <2>1, <2>2, <3>1 DEF ReadyIsGathered
    <3>2. CASE runtime.generation = t.generation
      <4>1. t.period = runtime.period
            /\ (~editMode => t.identity = config.identity /\ t.cols = config.cols)
        BY <2>1, <3>2 DEF Current
      <4>2. truth' = [period |-> t.period, identity |-> t.identity, cols |-> t.cols,
                      read |-> t.read, answered |-> t.answered]
        BY <2>1, <3>2
      <4>3. t.period \in Grids /\ t.read \in SUBSET EventIds
        BY <1>1 DEF IsRefresh
      <4>4. t.failed = Cardinality(t.cols \ t.answered)
        BY <1>1, <2>1 DEF Gathers
      <4> QED BY <1>1, <2>1, <2>2, <3>2, <4>1, <4>2, <4>3, <4>4 DEF ReadyIsGathered, Gathers
    <3> QED BY <3>1, <3>2
  <2>8. HolidaysAreComplete'
    BY <2>1, <2>2 DEF HolidaysAreComplete
  <2> QED BY <2>4, <2>5, <2>6, <2>7, <2>8
<1> QED BY <1>2, <1>3

\* The runtime after the holidays of a refresh.
HolidaysEnd(r, t, result, days) == holidays_finish(r, t, result = "ready", days)

HolidaysStep(r, next, t, result, days) ==
    /\ next \in Runtime
    /\ next.generation = r.generation /\ next.period = r.period /\ next.country = r.country
    /\ next.load = r.load /\ next.events = r.events /\ next.rejected = r.rejected
    /\ next.partial = r.partial
    /\ \/ next = r
       \/ next.holidayError = TRUE
       \/ r.generation = t.generation /\ r.country = t.country /\ result = "ready"
            /\ next.holidays = days

LEMMA HolidaysFinished ==
  ASSUME NEW r \in Runtime, NEW t, NEW result, NEW days \in SUBSET Int
  PROVE  HolidaysStep(r, HolidaysEnd(r, t, result, days), t, result, days)
BY DEF HolidaysStep, HolidaysEnd, holidays_finish, Runtime

LEMMA StepHolidaysGet ==
  ASSUME RefreshInv, NEW t \in refreshes, HolidaysGet(t)
  PROVE  RefreshInv'
<1> USE DEF RefreshInv
<1>1. IsRefresh(t) /\ Gathers(t) /\ YearsRead(t) /\ runtime \in Runtime
  BY DEF RefreshesFit, RefreshTypes
<1> DEFINE year == Min(t.years)
           found == t.days \cup (HolidaysOf[t.country, year] \cap Days(t.period))
           next == [t EXCEPT !.years = @ \ {year}, !.days = found]
<1>2. t.phase = "holidays" /\ t.country \in Named /\ t.years # {} /\ t.years \subseteq HolidayYears(t.period)
      /\ t.period \in Grids
  BY <1>1 DEF HolidaysGet, YearsRead, IsRefresh
<1>3. year \in t.years
  <2>1. \A y \in t.years : y \in Int
    BY <1>1, DatesAssumption DEF IsRefresh
  <2>2. PICK a, b : t.years \subseteq {a, b}
    BY <1>2 DEF HolidayYears
  <2>3. \E x \in t.years : \A y \in t.years : x =< y
    <3>1. CASE a \in t.years /\ b \in t.years
      BY <2>1, <2>2, <3>1
    <3>2. CASE a \notin t.years \/ b \notin t.years
      BY <1>2, <2>1, <2>2, <3>2
    <3> QED BY <3>1, <3>2
  <2> QED BY <2>3 DEF Min
<1>4. found = {d \in Days(t.period) :
                 \E y \in HolidayYears(t.period) \ (t.years \ {year}) : d \in HolidaysOf[t.country, y]}
  <2> HIDE DEF year
  <2> QED BY <1>1, <1>2, <1>3 DEF YearsRead
<1> HIDE DEF year
<1>5. found \in SUBSET Int
  BY <1>4, <1>2, YearOfDay
<1> HIDE DEF found
<1>6. PICK result \in {"ready", "failed"} :
        IF result = "failed" \/ t.years = {year}
        THEN /\ refreshes' = refreshes \ {t}
             /\ runtime' = IF offline THEN runtime
                           ELSE holidays_finish(runtime, t, result = "ready", found)
        ELSE Step(t, next) /\ UNCHANGED runtime
  BY DEF HolidaysGet, year, found
<1>7. UNCHANGED <<config, editMode, server, reused, truth>>
  BY DEF HolidaysGet
<1>8. CASE ~(result = "failed" \/ t.years = {year})
  <2>1. Step(t, next) /\ UNCHANGED runtime
    BY <1>6, <1>8
  <2>2. t.years \ {year} \in SUBSET YearStarts
    BY <1>1 DEF IsRefresh
  <2>3. /\ IsRefresh(next) /\ next.years = t.years \ {year} /\ next.days = found
        /\ next.todo = t.todo /\ next.answered = t.answered /\ next.events = t.events
        /\ next.read = t.read /\ next.cols = t.cols /\ next.failed = t.failed
        /\ next.rejected = t.rejected /\ next.generation = t.generation
        /\ next.period = t.period /\ next.identity = t.identity
        /\ next.country = t.country /\ next.phase = t.phase
    BY <1>1, <1>5, <2>2 DEF IsRefresh
  <2> HIDE DEF next
  <2>4. Gathers(next)
    BY <1>1, <2>3 DEF Gathers
  <2>5. YearsRead(next)
    BY <1>2, <1>3, <1>4, <1>8, <2>3 DEF YearsRead
  <2> QED BY <1>7, <2>1, <2>3, <2>4, <2>5, ReadsOn
<1>9. CASE result = "failed" \/ t.years = {year}
  <2>1. refreshes' = refreshes \ {t}
    BY <1>6, <1>9
  <2>2. runtime' = runtime \/ runtime' = HolidaysEnd(runtime, t, result, found)
    BY <1>6, <1>9 DEF HolidaysEnd
  <2>3. result = "ready" => t.years = {year}
    BY <1>9
  <2>4. HolidaysStep(runtime, runtime', t, result, found)
    <3>1. CASE runtime' = runtime
      BY <1>1, <3>1 DEF HolidaysStep, Runtime
    <3>2. CASE runtime' = HolidaysEnd(runtime, t, result, found)
      BY <1>1, <1>5, <3>2, HolidaysFinished
    <3> QED BY <2>2, <3>1, <3>2
  <2>5. RefreshTypes' /\ RefreshesFit'
    BY <1>7, <2>1, <2>4 DEF HolidaysStep, RefreshTypes, RefreshesFit
  <2>6. Current'
    BY <1>7, <2>1, <2>4 DEF HolidaysStep, Current
  <2>7. ReadyIsGathered'
    BY <1>7, <2>4 DEF HolidaysStep, ReadyIsGathered
  <2>8. HolidaysAreComplete'
    <3>1. CASE runtime' = runtime
      BY <1>7, <3>1 DEF HolidaysAreComplete
    <3>2. CASE runtime'.holidayError = TRUE
      BY <3>2 DEF HolidaysAreComplete
    <3>3. CASE /\ runtime.generation = t.generation /\ runtime.country = t.country
               /\ result = "ready" /\ runtime'.holidays = found
      <4> SUFFICES ASSUME ~reused PROVE HolidaysAreComplete'
        BY <1>7 DEF HolidaysAreComplete
      <4>1. t.period = runtime.period
        BY <3>3 DEF Current
      <4>2. t.years \ {year} = {}
        BY <2>3, <3>3
      <4>3. found = {d \in Days(t.period) :
                       \E y \in HolidayYears(t.period) : d \in HolidaysOf[t.country, y]}
        BY <1>4, <4>2
      <4>4. found = {d \in Days(t.period) : d \in HolidaysOf[t.country, YearOf(d)]}
        BY <1>2, <4>3, HolidaysOfGrid
      <4> QED BY <2>4, <3>3, <4>1, <4>4 DEF HolidaysStep, HolidaysAreComplete
    <3> QED BY <2>4, <3>1, <3>2, <3>3 DEF HolidaysStep
  <2> QED BY <2>5, <2>6, <2>7, <2>8
<1> QED BY <1>8, <1>9

-----------------------------------------------------------------------------
(* The theorems. *)

LEMMA RefreshAtFirst == RefreshInit => RefreshInv
<1> SUFFICES ASSUME RefreshInit PROVE RefreshInv
  OBVIOUS
<1>1. config \in Config /\ editMode \in BOOLEAN /\ runtime \in Runtime /\ reused \in BOOLEAN
  BY RefreshAssumption, DefaultIsRuntime DEF RefreshInit
<1>2. server \in [Collections -> SUBSET EventIds]
  BY DEF RefreshInit
<1>3. RefreshTypes /\ RefreshesFit /\ Current
  BY <1>1, <1>2 DEF RefreshInit, RefreshTypes, RefreshesFit, Current
<1>4. ReadyIsGathered /\ HolidaysAreComplete
  BY DEF RefreshInit, DefaultRuntime, ReadyIsGathered, HolidaysAreComplete
<1> QED BY <1>3, <1>4 DEF RefreshInv

LEMMA RefreshEachStep == RefreshInv /\ [RefreshNext]_rvars => RefreshInv'
<1> SUFFICES ASSUME RefreshInv, [RefreshNext]_rvars PROVE RefreshInv'
  OBVIOUS
<1>1. CASE Working
  <2>1. CASE \E t \in refreshes : EventsGet(t) \/ RefreshFinish(t) \/ HolidaysGet(t)
    <3>1. PICK t \in refreshes : EventsGet(t) \/ RefreshFinish(t) \/ HolidaysGet(t)
      BY <2>1
    <3> QED BY <3>1, StepEventsGet, StepRefreshFinish, StepHolidaysGet
  <2>2. CASE \E i \in searches : DiscoverAnswer(i)
    BY <2>2, StepSearch
  <2> QED BY <1>1, <2>1, <2>2 DEF Working
<1>2. CASE \/ CalendarDraw \/ calendarPeriod_shift \/ calendarPeriod_set(Today)
           \/ Refresh \/ EditLeave \/ \E m \in Modes : calendarViewMode_set(m)
  BY <1>2, StepTurn
<1>3. CASE \E c \in Configs : Import(c)
  BY <1>3, StepImport
<1>4. CASE \/ EditEnter
           \/ \E i \in Identities : IdentityEdit(i)
           \/ \E k \in Countries : CountryEdit(k)
           \/ \E c \in Collections : CollectionToggle(c)
  BY <1>4, StepEdit
<1>5. CASE calendarCollections_discover
  BY <1>5, StepSearch
<1>6. CASE \/ \E k \in DOMAIN cache : CacheAges(k)
           \/ \E e \in EventIds : OthersEdit(e)
           \/ NetworkToggle \/ UNCHANGED rvars
  BY <1>6, StepOutside
<1> QED BY <1>1, <1>2, <1>3, <1>4, <1>5, <1>6 DEF RefreshNext

\* Whatever is under way in a calendar belongs to one generation, and what is shown as ready is
\* what the refresh of the newest generation had gathered.
THEOREM RefreshInvariant == RefreshSpec => []RefreshInv
<1> QED BY RefreshAtFirst, RefreshEachStep, PTL DEF RefreshSpec

\* The type invariant, for any collections, events, dates and bounds.
THEOREM RefreshTypesKept == RefreshSpec => []CalendarTypeOK
<1>1. RefreshInv => CalendarTypeOK
  <2> SUFFICES ASSUME RefreshInv PROVE CalendarTypeOK
    OBVIOUS
  <2>1. ASSUME NEW t \in refreshes
        PROVE  t.failed + Cardinality(t.answered) + Cardinality(t.todo) = Cardinality(t.cols)
    <3>1. IsRefresh(t) /\ Gathers(t)
      BY DEF RefreshInv, RefreshesFit
    <3> DEFINE asked == t.todo \cup t.answered
    <3>2. IsFiniteSet(t.cols) /\ IsFiniteSet(t.todo) /\ IsFiniteSet(t.answered) /\ IsFiniteSet(asked)
      <4>1. t.cols \in SUBSET Collections /\ t.todo \in SUBSET Collections
            /\ t.answered \in SUBSET Collections
        BY <3>1 DEF IsRefresh
      <4> QED BY <4>1, RefreshAssumption, FS_Subset, FS_Union
    <3>3. Cardinality(t.cols \ asked) = Cardinality(t.cols) - Cardinality(t.cols \cap asked)
      BY <3>2, FS_Difference
    <3>4. t.cols \cap asked = asked /\ t.todo \cap t.answered = {}
      BY <3>1 DEF Gathers
    <3>5. Cardinality(asked) = Cardinality(t.todo) + Cardinality(t.answered) - Cardinality({})
      BY <3>2, <3>4, FS_Union
    <3>6. Cardinality({}) = 0 /\ Cardinality(t.cols) \in Nat /\ Cardinality(t.todo) \in Nat
          /\ Cardinality(t.answered) \in Nat
      BY <3>2, FS_EmptySet, FS_CardinalityType
    <3>7. t.failed = Cardinality(t.cols \ asked) /\ t.failed \in Nat
      BY <3>1 DEF Gathers, IsRefresh
    <3>8. Cardinality(t.cols \ asked) = Cardinality(t.cols) - Cardinality(asked)
      BY <3>3, <3>4
    <3> QED BY <3>5, <3>6, <3>7, <3>8
  <2>2. reused \/ \A t \in refreshes : t.generation <= runtime.generation
    BY DEF RefreshInv, Current
  <2>3. runtime.load \in {"Idle", "Loading", "Ready", "ConfigurationRequired", "Error"}
        /\ runtime.events \subseteq EventIds /\ runtime.discovered \subseteq Collections
    BY DEF RefreshInv, RefreshTypes, Runtime
  <2> QED BY <2>1, <2>2, <2>3 DEF CalendarTypeOK
<1> QED BY <1>1, RefreshInvariant, PTL

\* Each day of a calendar that is ready draws the readable events its collections had on that
\* date, wherever the browser is, and what is missing was counted.
THEOREM GridIsTrue == RefreshSpec => []GridTellsTheTruth
<1>1. RefreshInv => GridTellsTheTruth
  <2> SUFFICES ASSUME RefreshInv, runtime.load = "Ready", ~reused PROVE GridTellsTheTruth
    BY DEF GridTellsTheTruth
  <2>1. /\ truth.period = runtime.period /\ runtime.period \in Grids
        /\ ~editMode => truth.identity = config.identity /\ truth.cols = config.cols
        /\ truth.read \subseteq EventIds
        /\ runtime.events = Readable(Within(truth.read, runtime.period))
        /\ Within(truth.read, runtime.period) # runtime.events => runtime.rejected > 0
        /\ runtime.partial = Cardinality(truth.cols \ truth.answered)
        /\ \A c \in truth.cols : OwnerOf[c] = truth.identity
    BY DEF RefreshInv, ReadyIsGathered
  <2>2. ASSUME NEW date \in Days(runtime.period), NEW offset \in Offsets
        PROVE  /\ Drawn(date, offset) = Readable(There(date, offset))
               /\ There(date, offset) # Drawn(date, offset) => runtime.rejected > 0
    <3>1. ASSUME NEW e \in There(date, offset)
          PROVE  e \in Within(truth.read, runtime.period)
      <4>1. e \in truth.read /\ e \in EventIds /\ event_overlapsLocalDate(EventOf[e], date, offset)
        BY <2>1 DEF There
      <4>2. EventOf[e] \in CalendarEvent /\ EventOf[e].from <= EventOf[e].to
        BY <4>1, RefreshAssumption
      <4> QED BY <2>1, <4>1, <4>2, DrawnIsAsked DEF Within
    <3>2. Within(truth.read, runtime.period) \subseteq truth.read
      BY DEF Within
    <3>3. Drawn(date, offset) = Readable(There(date, offset))
      BY <2>1, <3>1, <3>2 DEF Drawn, There, Readable
    <3>4. There(date, offset) # Drawn(date, offset) => runtime.rejected > 0
      BY <2>1, <3>1, <3>3 DEF Readable
    <3> QED BY <3>3, <3>4
  <2> QED BY <2>1, <2>2 DEF GridTellsTheTruth
<1> QED BY <1>1, RefreshInvariant, PTL

\* The holidays shown are all those of the country in the days shown, also of a grid that spans
\* two years.
THEOREM HolidaysAreAll == RefreshSpec => []HolidaysAreComplete
<1>1. RefreshInv => HolidaysAreComplete
  BY DEF RefreshInv
<1> QED BY <1>1, RefreshInvariant, PTL

-----------------------------------------------------------------------------
(* DavMultistatus: the inductive invariant. *)

Docs ==
  [open : Seq(Kinds), all : Seq(Responses), here : Responses, stat : PropStats,
   told : SUBSET Kinds, begun : BOOLEAN, prop : BOOLEAN, broken : BOOLEAN, chunks : Nat]

\* The elements that may be open: multistatus, response, href or propstat, status
\* or prop, a property, and what is in one.
PathFits(path) ==
  LET n == Len(path)
  IN /\ n >= 1 => path[1] = "Other"
     /\ n >= 2 => path[2] = "Response"
     /\ n >= 3 => path[3] \in {"Href", "PropStat"}
     /\ n >= 4 => path[3] = "PropStat" /\ path[4] \in {"Other", "Status"}
     /\ n >= 5 => path[4] = "Other" /\ path[5] \in Served \cup {"Other"}
     /\ n >= 6 => \/ n = 6 /\ path[5] \in Links /\ path[6] = "Href"
                  \/ n = 6 /\ path[5] = "ResourceType" /\ path[6] = "Calendar"
                  \/ path[5] = "Other" /\ \A k \in 6 .. n : path[k] \in {"Href", "Other"}

InPropStat(d) == Len(d.open) >= 3 /\ d.open[3] = "PropStat"

\* The parser has read what the server has written.
KeepsUp(d) ==
  /\ stack = d.open /\ responses = d.all
  /\ response = IF Len(d.open) >= 2 THEN d.here ELSE Nothing
  /\ propStat = IF InPropStat(d) THEN d.stat ELSE Nothing

\* A property is told once in a response: the propstat that is open has nothing
\* of what the response has.
ToldOnce(d) ==
  /\ \A p \in Values :
       /\ Len(d.open) >= 2 /\ d.here.properties.text[p] # <<>> => p \in d.told
       /\ InPropStat(d) /\ d.stat.properties.text[p] # <<>>
            => p \in d.told /\ d.here.properties.text[p] = <<>>
  /\ Len(d.open) >= 5 /\ d.open[5] \in Values
       => d.open[5] \in d.told /\ d.here.properties.text[d.open[5]] = <<>>

Reading(d) == d \in Docs /\ PathFits(d.open) /\ KeepsUp(d) /\ ToldOnce(d)

MultistatusInv ==
  /\ outcome \in {"reading", "ok", "error"}
  /\ outcome = "reading" => Reading(doc)
  /\ ParsedIsMeant

-----------------------------------------------------------------------------
(* The operators. *)

LEMMA EmptyIs ==
  /\ NoProperties \in PropertySets /\ DavResponse \in Responses /\ DavPropStat \in PropStats
  /\ \A p \in Values : NoProperties.text[p] = <<>>
  /\ DavResponse.properties = NoProperties /\ DavPropStat.properties = NoProperties
  /\ DavPropStat.status = <<>> /\ DavResponse.href = <<>>
<1>1. <<>> \in Seq(Chunks)
  OBVIOUS
<1> QED BY <1>1 DEF NoProperties, PropertySets, DavResponse, Responses, DavPropStat, PropStats

LEMMA NotNothing ==
  /\ \A r \in Responses : r # Nothing
  /\ \A s \in PropStats : s # Nothing
BY MultistatusAssumption

LEMMA KindsAre ==
  /\ Served \subseteq Kinds /\ Values \subseteq Texts \cup Links
  /\ Texts \subseteq Kinds /\ Links \subseteq Kinds
  /\ {"Response", "Href", "PropStat", "Status", "ResourceType", "Calendar", "Other"} \subseteq Kinds
  /\ \A p \in Texts \cup Links :
       p \notin {"Response", "Href", "PropStat", "Status", "ResourceType", "Calendar", "Other"}
  /\ Texts \cap Links = {}
BY MultistatusAssumption DEF Kinds, Texts, Links, Values

LEMMA DocParts ==
  ASSUME NEW d \in Docs
  PROVE  /\ d.open \in Seq(Kinds) /\ d.all \in Seq(Responses) /\ d.here \in Responses /\ d.stat \in PropStats
         /\ d.told \subseteq Kinds /\ Len(d.open) \in Nat /\ (Len(d.open) = 0 <=> d.open = <<>>)
         /\ Len(d.all) \in Nat
         /\ d.here.properties \in PropertySets /\ d.stat.properties \in PropertySets
         /\ d.here.properties.text \in [Values -> Seq(Chunks)]
         /\ d.stat.properties.text \in [Values -> Seq(Chunks)]
         /\ d.here.properties.isCalendar \in BOOLEAN /\ d.stat.properties.isCalendar \in BOOLEAN
         /\ d.stat.status \in Seq(Chunks) /\ d.here.href \in Seq(Chunks)
<1>1. /\ d.open \in Seq(Kinds) /\ d.all \in Seq(Responses) /\ d.here \in Responses /\ d.stat \in PropStats
      /\ d.told \subseteq Kinds
  BY DEF Docs
<1>2. d.here.properties \in PropertySets /\ d.stat.properties \in PropertySets
      /\ d.stat.status \in Seq(Chunks) /\ d.here.href \in Seq(Chunks)
  BY <1>1 DEF Responses, PropStats
<1>3. Len(d.open) \in Nat /\ Len(d.all) \in Nat /\ (Len(d.open) = 0 <=> d.open = <<>>)
  BY <1>1, EmptySeq, LenProperties
<1> QED BY <1>1, <1>2, <1>3 DEF PropertySets

LEMMA DocForm ==
  ASSUME NEW d \in Docs
  PROVE  d = [open |-> d.open, all |-> d.all, here |-> d.here, stat |-> d.stat, told |-> d.told,
              begun |-> d.begun, prop |-> d.prop, broken |-> d.broken, chunks |-> d.chunks]
BY DEF Docs

LEMMA ResponseFilled ==
  ASSUME NEW r \in Responses, NEW m, NEW t
  PROVE  [r EXCEPT !.properties = m, !.hasSuccessfulProperties = t]
           = [href |-> r.href, hasSuccessfulProperties |-> t, properties |-> m]
<1>1. r = [href |-> r.href, properties |-> r.properties, hasSuccessfulProperties |-> r.hasSuccessfulProperties]
  BY DEF Responses
<1>2. PICK h, q, b : r = [href |-> h, properties |-> q, hasSuccessfulProperties |-> b]
  BY <1>1
<1>3. PICK d : d = [r EXCEPT !.properties = m, !.hasSuccessfulProperties = t]
  OBVIOUS
<1>4. d = [href |-> h, hasSuccessfulProperties |-> t, properties |-> m]
  BY <1>2, <1>3
<1> QED BY <1>2, <1>3, <1>4

\* What may be written next.
LEMMA ChildrenAre ==
  ASSUME doc \in Docs, NEW kind \in Children
  PROVE  LET path == doc.open
         IN \/ Len(path) = 0 /\ kind = "Other"
            \/ Len(path) = 1 /\ kind = "Response"
            \/ Len(path) = 2 /\ kind \in {"Href", "PropStat"}
            \/ Len(path) = 3 /\ path[3] = "PropStat" /\ kind \in {"Other", "Status"}
            \/ Len(path) = 4 /\ path[4] = "Other" /\ kind \in (Served \ doc.told) \cup {"Other"}
            \/ Len(path) = 5 /\ path[5] \in Links /\ kind = "Href"
            \/ Len(path) = 5 /\ path[5] = "ResourceType" /\ kind = "Calendar"
            \/ Len(path) >= 5 /\ path[5] = "Other" /\ kind \in {"Href", "Other"}
<1> DEFINE path == doc.open
<1>1. Len(path) \in Nat /\ (Len(path) = 0 <=> path = <<>>)
  BY DocParts
<1>2. Len(path) = 2 /\ Len(doc.all) < CALDAV_MAX_RESPONSES => Children \subseteq {"Href", "PropStat"}
  BY <1>1 DEF Children
<1> QED BY <1>1, <1>2 DEF Children

\* An element that is opened is in its place.
LEMMA PathGrows ==
  ASSUME doc \in Docs, PathFits(doc.open), NEW kind \in Children
  PROVE  LET path == doc.open
             longer == Append(path, kind)
         IN /\ kind \in Kinds /\ longer \in Seq(Kinds) /\ PathFits(longer) /\ Len(longer) = Len(path) + 1
            /\ (kind = "Response" <=> Len(path) = 1) /\ (kind = "PropStat" => Len(path) = 2)
            /\ (kind = "Calendar" <=> Len(path) = 5 /\ path[5] = "ResourceType")
            /\ \A k \in 1 .. Len(path) : longer[k] = path[k]
            /\ longer[Len(path) + 1] = kind
            /\ Len(path) = 4 /\ kind \in Served => kind \notin doc.told
<1> DEFINE path == doc.open
           longer == Append(path, kind)
           n == Len(path)
<1>1. path \in Seq(Kinds) /\ n \in Nat
  BY DocParts
<1>2. \/ n = 0 /\ kind = "Other"
      \/ n = 1 /\ kind = "Response"
      \/ n = 2 /\ kind \in {"Href", "PropStat"}
      \/ n = 3 /\ path[3] = "PropStat" /\ kind \in {"Other", "Status"}
      \/ n = 4 /\ path[4] = "Other" /\ kind \in (Served \ doc.told) \cup {"Other"}
      \/ n = 5 /\ path[5] \in Links /\ kind = "Href"
      \/ n = 5 /\ path[5] = "ResourceType" /\ kind = "Calendar"
      \/ n >= 5 /\ path[5] = "Other" /\ kind \in {"Href", "Other"}
  BY ChildrenAre
<1>3. kind \in Kinds
  BY <1>2, KindsAre
<1>4. /\ longer \in Seq(Kinds) /\ Len(longer) = n + 1
      /\ \A k \in 1 .. n : longer[k] = path[k]
      /\ longer[n + 1] = kind
  BY <1>1, <1>3, AppendProperties
<1>5. \A p \in Served : p \notin {"Response", "PropStat", "Calendar", "Other"}
  BY KindsAre, MultistatusAssumption
<1> HIDE DEF longer
<1>6. PathFits(longer)
  <2> DEFINE m == Len(longer)
  <2>1. m = n + 1
    BY <1>4
  <2>2. m >= 1 => longer[1] = "Other"
    BY <1>1, <1>2, <1>4 DEF PathFits
  <2>3. m >= 2 => longer[2] = "Response"
    BY <1>1, <1>2, <1>4 DEF PathFits
  <2>4. m >= 3 => longer[3] \in {"Href", "PropStat"}
    BY <1>1, <1>2, <1>4 DEF PathFits
  <2>5. m >= 4 => longer[3] = "PropStat" /\ longer[4] \in {"Other", "Status"}
    BY <1>1, <1>2, <1>4 DEF PathFits
  <2>6. m >= 5 => longer[4] = "Other" /\ longer[5] \in Served \cup {"Other"}
    BY <1>1, <1>2, <1>4 DEF PathFits
  <2>7. m >= 6 => \/ m = 6 /\ longer[5] \in Links /\ longer[6] = "Href"
                  \/ m = 6 /\ longer[5] = "ResourceType" /\ longer[6] = "Calendar"
                  \/ longer[5] = "Other" /\ \A k \in 6 .. m : longer[k] \in {"Href", "Other"}
    <3> SUFFICES ASSUME m >= 6
                 PROVE  \/ m = 6 /\ longer[5] \in Links /\ longer[6] = "Href"
                        \/ m = 6 /\ longer[5] = "ResourceType" /\ longer[6] = "Calendar"
                        \/ longer[5] = "Other" /\ \A k \in 6 .. m : longer[k] \in {"Href", "Other"}
      OBVIOUS
    <3>1. n >= 5 /\ longer[5] = path[5]
      BY <1>1, <1>4
    <3>2. CASE n >= 5 /\ path[5] = "Other" /\ kind \in {"Href", "Other"}
      <4>1. \A k \in 6 .. n : path[k] \in {"Href", "Other"}
        BY <1>1, <3>2, KindsAre DEF PathFits
      <4>2. ASSUME NEW k \in 6 .. m PROVE longer[k] \in {"Href", "Other"}
        <5>1. k = n + 1 \/ (k \in 6 .. n /\ k \in 1 .. n)
          BY <1>1, <1>4
        <5> QED BY <1>4, <3>2, <4>1, <5>1
      <4> QED BY <3>1, <3>2, <4>2
    <3>3. CASE n = 5 /\ path[5] \in Links /\ kind = "Href"
      BY <1>4, <3>1, <3>3
    <3>4. CASE n = 5 /\ path[5] = "ResourceType" /\ kind = "Calendar"
      BY <1>4, <3>1, <3>4
    <3> QED BY <1>2, <3>1, <3>2, <3>3, <3>4
  <2> QED BY <2>2, <2>3, <2>4, <2>5, <2>6, <2>7 DEF PathFits
<1>7. (kind = "Response" <=> n = 1) /\ (kind = "PropStat" => n = 2)
  <2>1. n = 1 => kind = "Response"
    BY <1>2
  <2>2. kind = "Response" => n = 1
    BY <1>2, <1>5
  <2>3. kind = "PropStat" => n = 2
    BY <1>2, <1>5
  <2> QED BY <2>1, <2>2, <2>3
<1>8. kind = "Calendar" <=> n = 5 /\ path[5] = "ResourceType"
  BY <1>1, <1>2, <1>5, KindsAre
<1>9. n = 4 /\ kind \in Served => kind \notin doc.told
  BY <1>2, <1>5
<1> QED BY <1>3, <1>4, <1>6, <1>7, <1>8, <1>9 DEF longer

\* What an element means by being there.
LEMMA MarkedIs ==
  ASSUME doc \in Docs, NEW kind \in Kinds
  PROVE  LET d == Marked(doc, kind)
             calendar == kind = "Calendar" /\ Len(doc.open) = 5 /\ doc.open[5] = "ResourceType"
         IN /\ d \in Docs /\ d.open = doc.open /\ d.all = doc.all /\ d.here = doc.here
            /\ d.told = IF Len(doc.open) >= 4 THEN doc.told \cup {kind} ELSE doc.told
            /\ d.stat = IF calendar
                        THEN [doc.stat EXCEPT !.properties = [doc.stat.properties EXCEPT !.isCalendar = TRUE]]
                        ELSE doc.stat
            /\ d.stat.properties.text = doc.stat.properties.text
<1> DEFINE d == Marked(doc, kind)
           calendar == kind = "Calendar" /\ Len(doc.open) = 5 /\ doc.open[5] = "ResourceType"
           marked == [doc.stat.properties EXCEPT !.isCalendar = doc.stat.properties.isCalendar \/ calendar]
<1>1. /\ d.open = doc.open /\ d.all = doc.all /\ d.here = doc.here /\ d.begun = doc.begun
      /\ d.broken = doc.broken /\ d.chunks = doc.chunks
      /\ d.told = IF Len(doc.open) >= 4 THEN doc.told \cup {kind} ELSE doc.told
      /\ d.prop = (doc.prop \/ (Len(doc.open) = 3 /\ kind = "Other"))
      /\ d.stat = [doc.stat EXCEPT !.properties = marked]
      /\ d = [open |-> d.open, all |-> d.all, here |-> d.here, stat |-> d.stat, told |-> d.told,
              begun |-> d.begun, prop |-> d.prop, broken |-> d.broken, chunks |-> d.chunks]
  <2>1. doc = [open |-> doc.open, all |-> doc.all, here |-> doc.here, stat |-> doc.stat, told |-> doc.told,
               begun |-> doc.begun, prop |-> doc.prop, broken |-> doc.broken, chunks |-> doc.chunks]
    BY DEF Docs
  <2>2. d = [doc EXCEPT !.told = IF Len(doc.open) >= 4 THEN doc.told \cup {kind} ELSE doc.told,
                        !.prop = doc.prop \/ (Len(doc.open) = 3 /\ kind = "Other"),
                        !.stat = [doc.stat EXCEPT !.properties = marked]]
    BY <2>1 DEF Marked
  <2> HIDE DEF d, marked
  <2> QED BY <2>1, <2>2
<1>2. /\ doc.stat = [properties |-> doc.stat.properties, status |-> doc.stat.status]
      /\ doc.stat.properties = [text |-> doc.stat.properties.text, isCalendar |-> doc.stat.properties.isCalendar]
      /\ doc.stat.properties.isCalendar \in BOOLEAN
      /\ doc.stat.properties.text \in [Values -> Seq(Chunks)] /\ doc.stat.status \in Seq(Chunks)
  BY DEF Docs, PropStats, PropertySets
<1>3. marked \in PropertySets /\ marked.text = doc.stat.properties.text
  BY <1>2 DEF PropertySets
<1>4. calendar => marked = [doc.stat.properties EXCEPT !.isCalendar = TRUE]
  BY <1>2
<1>5. ~calendar => marked = doc.stat.properties
  BY <1>2
<1> HIDE DEF d, marked, calendar
<1>6. d.stat \in PropStats /\ d.stat.properties = marked
  BY <1>1, <1>2, <1>3 DEF PropStats
<1>7. ~calendar => d.stat = doc.stat
  BY <1>1, <1>2, <1>5
<1>8. calendar => d.stat = [doc.stat EXCEPT !.properties = [doc.stat.properties EXCEPT !.isCalendar = TRUE]]
  BY <1>1, <1>4
<1>9. d \in Docs
  <2>1. d.told \subseteq Kinds /\ d.prop \in BOOLEAN
    BY <1>1 DEF Docs
  <2> QED BY <1>1, <1>6, <2>1 DEF Docs
<1> QED BY <1>1, <1>3, <1>6, <1>7, <1>8, <1>9 DEF d, calendar

\* The place of a text, or of a mark, from the path.
LEMMA WhereIs ==
  ASSUME Reading(doc)
  PROVE  /\ doc \in Docs /\ PathFits(doc.open) /\ KeepsUp(doc) /\ ToldOnce(doc)
         /\ stack = doc.open /\ responses = doc.all
         /\ Len(doc.open) >= 2 => response = doc.here /\ response # Nothing
         /\ Len(doc.open) < 2 => response = Nothing
         /\ InPropStat(doc) => propStat = doc.stat /\ propStat # Nothing
         /\ ~InPropStat(doc) => propStat = Nothing
         /\ Len(doc.open) >= 4 => InPropStat(doc)
         /\ Len(doc.open) \in Nat
         /\ doc.open # <<>> => Last(stack) = doc.open[Len(doc.open)]
<1>1. doc \in Docs /\ PathFits(doc.open) /\ KeepsUp(doc) /\ ToldOnce(doc)
  BY DEF Reading
<1>2. /\ stack = doc.open /\ responses = doc.all
      /\ response = IF Len(doc.open) >= 2 THEN doc.here ELSE Nothing
      /\ propStat = IF InPropStat(doc) THEN doc.stat ELSE Nothing
  BY <1>1 DEF KeepsUp
<1>3. doc.here \in Responses /\ doc.stat \in PropStats /\ Len(doc.open) \in Nat
  BY <1>1, DocParts
<1>4. Len(doc.open) >= 4 => InPropStat(doc)
  BY <1>1, <1>3 DEF PathFits, InPropStat
<1> QED BY <1>1, <1>2, <1>3, <1>4, NotNothing DEF Last

\* An element begins: it joins the path, and opens its response or its propstat.
LEMMA StartKeeps ==
  ASSUME MultistatusInv, NEW kind \in Kinds, StartTag(kind)
  PROVE  MultistatusInv'
<1> DEFINE path == doc.open
           n == Len(path)
           d == Marked(doc, kind)
           longer == Append(path, kind)
           calendar == kind = "Calendar" /\ n = 5 /\ path[5] = "ResourceType"
<1>1. /\ outcome = "reading" /\ kind \in Children /\ Start(kind)
      /\ doc' = [d EXCEPT !.open = Append(@, kind), !.begun = TRUE,
                   !.stat = IF kind = "PropStat" THEN DavPropStat ELSE @,
                   !.prop = @ /\ kind # "PropStat",
                   !.here = IF kind = "Response" THEN DavResponse ELSE @]
  BY DEF StartTag
<1>2. Reading(doc)
  BY <1>1 DEF MultistatusInv
<1>3. doc \in Docs /\ PathFits(path) /\ ToldOnce(doc) /\ stack = path /\ responses = doc.all
      /\ n \in Nat /\ (n = 0 <=> path = <<>>)
  BY <1>2, WhereIs, DocParts
<1>4. /\ longer \in Seq(Kinds) /\ PathFits(longer) /\ Len(longer) = n + 1
      /\ (kind = "Response" <=> n = 1) /\ (kind = "PropStat" => n = 2)
      /\ (kind = "Calendar" <=> n = 5 /\ path[5] = "ResourceType")
      /\ \A k \in 1 .. n : longer[k] = path[k]
      /\ longer[n + 1] = kind
      /\ n = 4 /\ kind \in Served => kind \notin doc.told
  BY <1>1, <1>3, PathGrows
<1>5. /\ d \in Docs /\ d.open = path /\ d.all = doc.all /\ d.here = doc.here
      /\ d.told = IF n >= 4 THEN doc.told \cup {kind} ELSE doc.told
      /\ d.stat = IF calendar
                  THEN [doc.stat EXCEPT !.properties = [doc.stat.properties EXCEPT !.isCalendar = TRUE]]
                  ELSE doc.stat
      /\ d.stat.properties.text = doc.stat.properties.text
  BY <1>3, MarkedIs
<1> HIDE DEF d, longer
<1>6. /\ doc'.open = longer /\ doc'.all = doc.all /\ doc'.told = d.told
      /\ doc'.here = (IF kind = "Response" THEN DavResponse ELSE doc.here)
      /\ doc'.stat = (IF kind = "PropStat" THEN DavPropStat ELSE d.stat)
      /\ doc' \in Docs
  <2>1. /\ doc'.open = Append(d.open, kind) /\ doc'.all = d.all /\ doc'.told = d.told
        /\ doc'.here = (IF kind = "Response" THEN DavResponse ELSE d.here)
        /\ doc'.stat = (IF kind = "PropStat" THEN DavPropStat ELSE d.stat)
        /\ doc'.begun = TRUE /\ doc'.prop = (d.prop /\ kind # "PropStat") /\ doc'.broken = d.broken
        /\ doc'.chunks = d.chunks
        /\ doc' = [open |-> doc'.open, all |-> doc'.all, here |-> doc'.here, stat |-> doc'.stat,
                   told |-> doc'.told, begun |-> doc'.begun, prop |-> doc'.prop, broken |-> doc'.broken,
                   chunks |-> doc'.chunks]
    BY <1>1, <1>5 DEF Docs
  <2>2. /\ d.all \in Seq(Responses) /\ d.here \in Responses /\ d.stat \in PropStats /\ d.told \subseteq Kinds
        /\ d.prop \in BOOLEAN /\ d.broken \in BOOLEAN /\ d.chunks \in Nat
    BY <1>5 DEF Docs
  <2>3. Append(d.open, kind) = longer
    BY <1>5 DEF longer
  <2>4. doc' \in Docs
    <3>1. doc'.here \in Responses /\ doc'.stat \in PropStats
      BY <2>1, <2>2, EmptyIs
    <3>2. doc'.open \in Seq(Kinds) /\ doc'.prop \in BOOLEAN
      BY <1>4, <2>1, <2>2, <2>3
    <3> QED BY <2>1, <2>2, <3>1, <3>2 DEF Docs
  <2> QED BY <1>5, <2>1, <2>3, <2>4
<1>7. /\ (n >= 2 => response = doc.here /\ response # Nothing) /\ (n < 2 => response = Nothing)
      /\ (InPropStat(doc) => propStat = doc.stat /\ propStat # Nothing)
      /\ (~InPropStat(doc) => propStat = Nothing) /\ (n >= 4 => InPropStat(doc))
      /\ (InPropStat(doc) <=> n >= 3 /\ path[3] = "PropStat")
      /\ (path # <<>> => Last(stack) = path[n])
  BY <1>2, WhereIs DEF InPropStat
<1>8. IsCalendar(kind) <=> calendar
  <2>1. kind = "Calendar" => stack # <<>> /\ Last(stack) = path[5] /\ n = 5 /\ path[5] = "ResourceType"
    BY <1>3, <1>4, <1>7
  <2> QED BY <1>4, <2>1 DEF IsCalendar
<1>11. /\ n = 0 \/ n = 1 \/ n >= 2
       /\ n >= 5 \/ n = 4 \/ n < 4
       /\ n + 1 >= 2 /\ n # 1 => n >= 2
  <2>1. n \in Nat
    BY <1>3
  <2> HIDE DEF n
  <2> QED BY <2>1
<1>9. CASE n >= CALDAV_MAX_XML_DEPTH
  <2>1. outcome' = "error"
    BY <1>1, <1>3, <1>9 DEF Start, Refuses
  <2>2. Len(doc'.open) > CALDAV_MAX_XML_DEPTH
    BY <1>3, <1>4, <1>6, <1>9, MultistatusAssumption
  <2> QED BY <2>1, <2>2 DEF MultistatusInv, ParsedIsMeant
<1>10. CASE ~(n >= CALDAV_MAX_XML_DEPTH)
  <2>1. ~(kind = "Response" /\ response # Nothing)
    BY <1>4, <1>7
  <2>2. ~(kind = "PropStat" /\ propStat # Nothing)
    BY <1>4, <1>7
  <2>3. ~(IsCalendar(kind) /\ response = Nothing /\ propStat = Nothing)
    BY <1>7, <1>8
  <2>4. /\ stack' = Append(stack, kind) /\ responses' = responses /\ outcome' = outcome
        /\ IsCalendar(kind) => MarkCalendar
        /\ ~IsCalendar(kind) => /\ response' = (IF kind = "Response" THEN DavResponse ELSE response)
                                /\ propStat' = (IF kind = "PropStat" THEN DavPropStat ELSE propStat)
    <3>1. Start(kind) /\ ~(Len(stack) >= CALDAV_MAX_XML_DEPTH)
      BY <1>1, <1>3, <1>10
    <3> QED BY <2>1, <2>2, <2>3, <3>1 DEF Start
  <2>5. response' = IF n + 1 >= 2 THEN doc'.here ELSE Nothing
    <3>1. CASE calendar
      <4>1. response' = response /\ n >= 2 /\ kind # "Response"
        BY <1>7, <1>8, <2>4, <3>1 DEF MarkCalendar, property_set_mut
      <4> QED BY <1>6, <1>7, <4>1
    <3>2. CASE ~calendar
      <4>1. response' = (IF kind = "Response" THEN DavResponse ELSE response)
        BY <1>8, <2>4, <3>2
      <4>2. CASE n = 1
        BY <1>4, <1>6, <4>1, <4>2
      <4>3. CASE n >= 2
        BY <1>3, <1>4, <1>6, <1>7, <4>1, <4>3
      <4>4. CASE n = 0
        BY <1>4, <1>7, <4>1, <4>4
      <4>5. n = 0 \/ n = 1 \/ n >= 2
        BY <1>11
      <4> HIDE DEF n
      <4> QED BY <4>2, <4>3, <4>4, <4>5
    <3> QED BY <3>1, <3>2
  <2>6. InPropStat(doc') <=> (kind = "PropStat" \/ InPropStat(doc))
    <3>1. n >= 3 => longer[3] = path[3]
      BY <1>3, <1>4
    <3>2. n = 2 => longer[3] = kind
      BY <1>4
    <3> QED BY <1>3, <1>4, <1>6, <1>7, <3>1, <3>2 DEF InPropStat
  <2>7. propStat' = IF InPropStat(doc') THEN doc'.stat ELSE Nothing
    <3>1. CASE calendar
      <4>1. propStat' = [propStat EXCEPT !.properties = [propStat.properties EXCEPT !.isCalendar = TRUE]]
        BY <1>7, <1>8, <2>4, <3>1 DEF MarkCalendar, property_set_mut, property_set
      <4>2. propStat = doc.stat /\ kind # "PropStat" /\ InPropStat(doc)
        BY <1>7, <3>1
      <4> QED BY <1>5, <1>6, <2>6, <3>1, <4>1, <4>2
    <3>2. CASE ~calendar
      <4>1. propStat' = (IF kind = "PropStat" THEN DavPropStat ELSE propStat) /\ d.stat = doc.stat
        BY <1>5, <1>8, <2>4, <3>2
      <4> QED BY <1>6, <1>7, <2>6, <4>1
    <3> QED BY <3>1, <3>2
  <2>8. KeepsUp(doc)'
    <3>1. stack' = longer /\ responses' = doc'.all
      BY <1>3, <1>6, <2>4 DEF longer
    <3> QED BY <1>4, <1>6, <2>5, <2>7, <3>1 DEF KeepsUp, InPropStat
  <2>9. ToldOnce(doc)'
    <3>1. ASSUME NEW p \in Values
          PROVE  /\ Len(doc'.open) >= 2 /\ doc'.here.properties.text[p] # <<>> => p \in doc'.told
                 /\ InPropStat(doc') /\ doc'.stat.properties.text[p] # <<>>
                      => p \in doc'.told /\ doc'.here.properties.text[p] = <<>>
      <4>1. n >= 2 /\ doc.here.properties.text[p] # <<>> => p \in doc'.told
        BY <1>3, <1>5, <1>6 DEF ToldOnce
      <4>2. Len(doc'.open) >= 2 /\ doc'.here.properties.text[p] # <<>> => p \in doc'.told
        <5>1. kind = "Response" => doc'.here.properties.text[p] = <<>>
          BY <1>6, EmptyIs
        <5>2. kind # "Response" => doc'.here = doc.here
          BY <1>6
        <5>3. kind # "Response" /\ Len(doc'.open) >= 2 => n >= 2
          BY <1>4, <1>6, <1>11
        <5> QED BY <4>1, <5>1, <5>2, <5>3
      <4>3. InPropStat(doc) /\ doc.stat.properties.text[p] # <<>>
                  => p \in doc'.told /\ doc.here.properties.text[p] = <<>>
        BY <1>3, <1>5, <1>6 DEF ToldOnce
      <4>4. kind # "PropStat" => doc'.stat.properties.text[p] = doc.stat.properties.text[p]
        BY <1>5, <1>6
      <4>5. kind = "PropStat" => doc'.stat.properties.text[p] = <<>>
        BY <1>6, EmptyIs
      <4>6. InPropStat(doc) => doc'.here = doc.here
        BY <1>3, <1>4, <1>6, <1>7
      <4> QED BY <2>6, <4>2, <4>3, <4>4, <4>5, <4>6
    <3>2. Len(doc'.open) >= 5 /\ doc'.open[5] \in Values
            => doc'.open[5] \in doc'.told /\ doc'.here.properties.text[doc'.open[5]] = <<>>
      <4>1. CASE n >= 5
        <5>1. longer[5] = path[5] /\ doc'.here = doc.here /\ doc.told \subseteq doc'.told
          BY <1>3, <1>4, <1>5, <1>6, <4>1
        <5> QED BY <1>3, <1>6, <4>1, <5>1 DEF ToldOnce
      <4>2. CASE n = 4
        <5>1. longer[5] = kind /\ doc'.here = doc.here /\ doc'.told = doc.told \cup {kind}
          BY <1>3, <1>4, <1>5, <1>6, <4>2
        <5>2. kind \in Values => doc.here.properties.text[kind] = <<>>
          BY <1>3, <1>4, <4>2 DEF ToldOnce, Values
        <5> QED BY <1>6, <5>1, <5>2
      <4>3. CASE n < 4
        BY <1>3, <1>4, <1>6, <4>3
      <4>4. n >= 5 \/ n = 4 \/ n < 4
        BY <1>11
      <4> HIDE DEF n
      <4> QED BY <4>1, <4>2, <4>3, <4>4
    <3> QED BY <3>1, <3>2 DEF ToldOnce, InPropStat
  <2>10. Reading(doc)'
    BY <1>4, <1>6, <2>8, <2>9 DEF Reading
  <2> QED BY <1>1, <2>4, <2>10 DEF MultistatusInv, ParsedIsMeant
<1> QED BY <1>9, <1>10

\* An empty element adds nothing but, perhaps, the mark of a calendar.
LEMMA EmptyTagKeeps ==
  ASSUME MultistatusInv, NEW kind \in Kinds, EmptyTag(kind)
  PROVE  MultistatusInv'
<1> DEFINE path == doc.open
           n == Len(path)
           calendar == kind = "Calendar" /\ n = 5 /\ path[5] = "ResourceType"
<1>1. /\ outcome = "reading" /\ kind \in Children /\ n >= 4 /\ Empty(kind) /\ doc' = Marked(doc, kind)
  BY DEF EmptyTag
<1>2. Reading(doc)
  BY <1>1 DEF MultistatusInv
<1>3. doc \in Docs /\ PathFits(path) /\ ToldOnce(doc) /\ stack = path /\ responses = doc.all
      /\ n \in Nat /\ (n = 0 <=> path = <<>>)
  BY <1>2, WhereIs, DocParts
<1>4. kind = "Calendar" <=> n = 5 /\ path[5] = "ResourceType"
  BY <1>1, <1>3, PathGrows
<1>5. /\ doc' \in Docs /\ doc'.open = path /\ doc'.all = doc.all /\ doc'.here = doc.here
      /\ doc'.told = doc.told \cup {kind}
      /\ doc'.stat = IF calendar
                     THEN [doc.stat EXCEPT !.properties = [doc.stat.properties EXCEPT !.isCalendar = TRUE]]
                     ELSE doc.stat
      /\ doc'.stat.properties.text = doc.stat.properties.text
  BY <1>1, <1>3, MarkedIs
<1>6. /\ response = doc.here /\ propStat = doc.stat /\ propStat # Nothing
      /\ InPropStat(doc) /\ Last(stack) = path[n] /\ n >= 2 /\ stack # <<>>
  BY <1>1, <1>2, <1>3, WhereIs
<1>7. IsCalendar(kind) <=> calendar
  BY <1>4, <1>6 DEF IsCalendar
<1>8. stack' = stack /\ responses' = responses /\ outcome' = outcome
  BY <1>1 DEF Empty
<1>9. response' = doc'.here /\ propStat' = doc'.stat
  <2>1. CASE calendar
    BY <1>1, <1>5, <1>6, <1>7, <2>1 DEF Empty, MarkCalendar, property_set_mut, property_set
  <2>2. CASE ~calendar
    BY <1>1, <1>5, <1>6, <1>7, <2>2 DEF Empty
  <2> QED BY <2>1, <2>2
<1>10. KeepsUp(doc)'
  BY <1>3, <1>5, <1>6, <1>8, <1>9 DEF KeepsUp, InPropStat
<1>11. ToldOnce(doc)'
  BY <1>3, <1>5 DEF ToldOnce, InPropStat
<1>12. Reading(doc)'
  BY <1>3, <1>5, <1>10, <1>11 DEF Reading
<1> QED BY <1>1, <1>8, <1>12 DEF MultistatusInv, ParsedIsMeant

\* The propstat with one more chunk in the text of a property.
Longer(stat, p, chunk) ==
  [stat EXCEPT !.properties =
     [stat.properties EXCEPT !.text =
        [stat.properties.text EXCEPT ![p] = Append(stat.properties.text[p], chunk)]]]

Grows(d, p, chunk) ==
  /\ d \in Docs /\ d.open = doc.open /\ d.all = doc.all /\ d.here = doc.here /\ d.told = doc.told
  /\ d.stat = Longer(doc.stat, p, chunk)
  /\ ToldOnce(d)

\* A text is that of the property that is open, which the response does not have.
LEMMA PropertyGrows ==
  ASSUME Reading(doc), InPropStat(doc), NEW p \in Values, NEW chunk \in Chunks, NEW d,
         p \in doc.told, doc.here.properties.text[p] = <<>>,
         d = [doc EXCEPT !.stat.properties.text[p] = Append(@, chunk), !.chunks = @ + 1]
  PROVE  Grows(d, p, chunk)
<1> DEFINE text == [doc.stat.properties.text EXCEPT ![p] = Append(doc.stat.properties.text[p], chunk)]
           properties == [doc.stat.properties EXCEPT !.text = text]
           stat == [doc.stat EXCEPT !.properties = properties]
<1>1. /\ doc \in Docs /\ ToldOnce(doc)
      /\ doc.stat.properties.text \in [Values -> Seq(Chunks)] /\ doc.chunks \in Nat
      /\ doc.stat = [properties |-> doc.stat.properties, status |-> doc.stat.status]
      /\ doc.stat.properties = [text |-> doc.stat.properties.text, isCalendar |-> doc.stat.properties.isCalendar]
      /\ doc.stat.properties.isCalendar \in BOOLEAN /\ doc.stat.status \in Seq(Chunks)
  BY DEF Reading, Docs, PropStats, PropertySets
<1>2. doc = [open |-> doc.open, all |-> doc.all, here |-> doc.here, stat |-> doc.stat, told |-> doc.told,
             begun |-> doc.begun, prop |-> doc.prop, broken |-> doc.broken, chunks |-> doc.chunks]
  BY <1>1 DEF Docs
<1>3. d = [doc EXCEPT !.stat = stat, !.chunks = doc.chunks + 1]
  BY <1>1, <1>2
<1>4. text \in [Values -> Seq(Chunks)] /\ \A q \in Values : q # p => text[q] = doc.stat.properties.text[q]
  <2>1. Append(doc.stat.properties.text[p], chunk) \in Seq(Chunks)
    BY <1>1, AppendProperties
  <2> QED BY <1>1, <2>1
<1> HIDE DEF text
<1>5. properties = [text |-> text, isCalendar |-> doc.stat.properties.isCalendar]
  BY <1>1
<1> HIDE DEF properties
<1>6. stat = [properties |-> properties, status |-> doc.stat.status]
  BY <1>1
<1> HIDE DEF stat
<1>7. stat \in PropStats /\ stat.properties.text = text
  BY <1>1, <1>4, <1>5, <1>6 DEF PropStats, PropertySets
<1>8. /\ d.open = doc.open /\ d.all = doc.all /\ d.here = doc.here /\ d.told = doc.told /\ d.stat = stat
      /\ d = [open |-> doc.open, all |-> doc.all, here |-> doc.here, stat |-> stat, told |-> doc.told,
              begun |-> doc.begun, prop |-> doc.prop, broken |-> doc.broken, chunks |-> doc.chunks + 1]
  BY <1>2, <1>3
<1>9. d \in Docs
  BY <1>1, <1>7, <1>8 DEF Docs
<1>10. ToldOnce(d)
  <2>1. ASSUME NEW q \in Values
        PROVE  /\ Len(d.open) >= 2 /\ d.here.properties.text[q] # <<>> => q \in d.told
               /\ InPropStat(d) /\ d.stat.properties.text[q] # <<>>
                    => q \in d.told /\ d.here.properties.text[q] = <<>>
    <3>1. CASE q = p
      BY <1>1, <1>8, <3>1
    <3>2. CASE q # p
      <4>1. d.stat.properties.text[q] = doc.stat.properties.text[q]
        BY <1>4, <1>7, <1>8, <3>2
      <4> QED BY <1>1, <1>8, <4>1 DEF ToldOnce, InPropStat
    <3> QED BY <3>1, <3>2
  <2>2. Len(d.open) >= 5 /\ d.open[5] \in Values
          => d.open[5] \in d.told /\ d.here.properties.text[d.open[5]] = <<>>
    BY <1>1, <1>8 DEF ToldOnce
  <2> QED BY <2>1, <2>2 DEF ToldOnce
<1> QED BY <1>8, <1>9, <1>10 DEF Grows, Longer, stat, properties, text

\* A chunk goes to the href, to the status or to the property that is open, or nowhere.
LEMMA TextKeeps ==
  ASSUME MultistatusInv, NEW chunk \in Chunks, TextChunk(chunk)
  PROVE  MultistatusInv'
<1> DEFINE path == doc.open
           n == Len(path)
           parent == IF Len(stack) < 2 THEN "Other" ELSE stack[Len(stack) - 1]
<1>1. outcome = "reading" /\ path # <<>> /\ text_append(chunk)
  BY DEF TextChunk
<1>2. Reading(doc)
  BY <1>1 DEF MultistatusInv
<1>3. /\ doc \in Docs /\ PathFits(path) /\ ToldOnce(doc) /\ KeepsUp(doc) /\ stack = path /\ responses = doc.all
      /\ n \in Nat /\ n # 0
  BY <1>1, <1>2, WhereIs, DocParts
<1>4. /\ stack # <<>> /\ Last(stack) = path[n]
      /\ (n >= 2 => response = doc.here /\ response # Nothing)
      /\ (InPropStat(doc) => propStat = doc.stat /\ propStat # Nothing)
      /\ (~InPropStat(doc) => propStat = Nothing) /\ (n >= 4 => InPropStat(doc))
  BY <1>1, <1>2, <1>3, WhereIs
<1>5. stack' = stack /\ responses' = responses /\ outcome' = outcome
  BY <1>1 DEF text_append
<1>6. parent = IF n < 2 THEN "Other" ELSE path[n - 1]
  BY <1>3
<1>7. /\ path[n] = "Href" /\ parent = "Response"
           => response' = [response EXCEPT !.href = Append(@, chunk)] /\ propStat' = propStat
      /\ path[n] = "Href" /\ parent \in Links
           => property_set_mut([property_set EXCEPT !.text[parent] = Append(@, chunk)])
      /\ path[n] \in Texts => property_set_mut([property_set EXCEPT !.text[path[n]] = Append(@, chunk)])
      /\ path[n] = "Status" /\ parent = "PropStat"
           => propStat' = [propStat EXCEPT !.status = Append(@, chunk)] /\ response' = response
      /\ path[n] \notin Texts /\ path[n] # "Status" /\ ~(path[n] = "Href" /\ parent \in Links \cup {"Response"})
           => response' = response /\ propStat' = propStat
  <2>1. "Response" \notin Links /\ "Href" \notin Texts /\ "Status" \notin Texts /\ "Href" # "Status"
    BY DEF Links, Texts
  <2> HIDE DEF path, n
  <2> QED BY <1>1, <1>4, <2>1 DEF text_append
<1> SUFFICES Reading(doc)'
  BY <1>1, <1>5 DEF MultistatusInv, ParsedIsMeant
<1>8. CASE /\ n = 3 /\ path[3] = "Href"
           /\ doc' = [doc EXCEPT !.here.href = Append(@, chunk), !.chunks = @ + 1]
  <2> DEFINE here == [doc.here EXCEPT !.href = Append(doc.here.href, chunk)]
  <2>1. doc.here.href \in Seq(Chunks) /\ doc.chunks \in Nat /\ doc.here.properties \in PropertySets
    BY <1>3 DEF Docs, Responses
  <2>2. here \in Responses /\ here.properties = doc.here.properties
    <3>1. Append(doc.here.href, chunk) \in Seq(Chunks)
      BY <2>1, AppendProperties
    <3> QED BY <1>3, <3>1 DEF Docs, Responses
  <2>3. doc' = [doc EXCEPT !.here = here, !.chunks = doc.chunks + 1]
    BY <1>3, <1>8 DEF Docs, Responses
  <2>4. response' = here /\ propStat' = propStat
    <3>1. path[n] = "Href" /\ parent = "Response"
      BY <1>3, <1>6, <1>8 DEF PathFits
    <3> QED BY <1>4, <1>7, <1>8, <3>1
  <2> HIDE DEF here
  <2>5. /\ doc'.open = path /\ doc'.all = doc.all /\ doc'.here = here /\ doc'.told = doc.told
        /\ doc'.stat = doc.stat /\ doc' \in Docs
    <3>1. doc' = [open |-> path, all |-> doc.all, here |-> here, stat |-> doc.stat, told |-> doc.told,
                  begun |-> doc.begun, prop |-> doc.prop, broken |-> doc.broken, chunks |-> doc.chunks + 1]
      <4>1. doc = [open |-> doc.open, all |-> doc.all, here |-> doc.here, stat |-> doc.stat, told |-> doc.told,
                   begun |-> doc.begun, prop |-> doc.prop, broken |-> doc.broken, chunks |-> doc.chunks]
        BY <1>3, DocForm
      <4> QED BY <2>3, <4>1
    <3>2. doc' \in Docs
      BY <1>3, <2>1, <2>2, <3>1 DEF Docs
    <3> QED BY <3>1, <3>2
  <2>6. KeepsUp(doc)'
    BY <1>3, <1>4, <1>5, <1>8, <2>4, <2>5 DEF KeepsUp, InPropStat
  <2>7. ToldOnce(doc)'
    BY <1>3, <2>2, <2>5 DEF ToldOnce, InPropStat
  <2> QED BY <1>3, <2>5, <2>6, <2>7 DEF Reading
<1>9. CASE /\ n = 4 /\ path[4] = "Status" /\ doc.stat.status = <<>>
           /\ doc' = [doc EXCEPT !.stat.status = <<chunk>>]
  <2> DEFINE stat == [doc.stat EXCEPT !.status = <<chunk>>]
  <2>1. stat \in PropStats /\ stat.properties = doc.stat.properties
    <3>1. <<chunk>> \in Seq(Chunks)
      OBVIOUS
    <3>2. doc.stat = [properties |-> doc.stat.properties, status |-> doc.stat.status]
          /\ doc.stat.properties \in PropertySets
      BY <1>3 DEF Docs, PropStats
    <3>3. stat = [properties |-> doc.stat.properties, status |-> <<chunk>>]
      BY <3>2
    <3> HIDE DEF stat
    <3> QED BY <3>1, <3>2, <3>3 DEF PropStats
  <2>2. doc' = [doc EXCEPT !.stat = stat]
    BY <1>3, <1>9 DEF Docs
  <2>3. propStat' = stat /\ response' = response
    <3>1. path[n] = "Status" /\ parent = "PropStat"
      BY <1>3, <1>6, <1>9 DEF PathFits
    <3>2. propStat' = [propStat EXCEPT !.status = Append(propStat.status, chunk)] /\ response' = response
      BY <1>7, <3>1
    <3>3. propStat = doc.stat /\ propStat.status = <<>>
      BY <1>4, <1>9
    <3>4. Append(<<>>, chunk) = <<chunk>>
      OBVIOUS
    <3> QED BY <3>2, <3>3, <3>4
  <2> HIDE DEF stat
  <2>4. /\ doc'.open = path /\ doc'.all = doc.all /\ doc'.here = doc.here /\ doc'.told = doc.told
        /\ doc'.stat = stat /\ doc' \in Docs
    BY <1>3, <2>1, <2>2 DEF Docs
  <2>5. KeepsUp(doc)'
    BY <1>3, <1>4, <1>5, <1>9, <2>3, <2>4 DEF KeepsUp, InPropStat
  <2>6. ToldOnce(doc)'
    BY <1>3, <2>1, <2>4 DEF ToldOnce, InPropStat
  <2> QED BY <1>3, <2>4, <2>5, <2>6 DEF Reading
<1>10. CASE /\ \/ n = 5 /\ path[5] \in Texts
               \/ n = 6 /\ path[5] \in Links
            /\ doc' = [doc EXCEPT !.stat.properties.text[path[5]] = Append(@, chunk), !.chunks = @ + 1]
  <2> DEFINE p == path[5]
  <2>1. p \in Values /\ InPropStat(doc) /\ p \in doc.told /\ doc.here.properties.text[p] = <<>>
    <3>1. p \in Served \cup {"Other"} /\ n >= 5
      BY <1>3, <1>10 DEF PathFits
    <3>2. p \in Values
      BY <1>10, <3>1, KindsAre DEF Values
    <3> QED BY <1>3, <1>4, <3>1, <3>2 DEF ToldOnce
  <2>2. property_set_mut([property_set EXCEPT !.text[p] = Append(@, chunk)])
    <3>1. CASE n = 5 /\ path[5] \in Texts
      BY <1>7, <3>1
    <3>2. CASE n = 6 /\ path[5] \in Links
      <4>1. path[n] = "Href" /\ parent = path[5]
        BY <1>3, <1>6, <3>2, KindsAre DEF PathFits
      <4> QED BY <1>7, <3>2, <4>1
    <3> QED BY <1>10, <3>1, <3>2
  <2>3. Grows(doc', p, chunk)
    <3>1. PICK q : q = p
      OBVIOUS
    <3>2. PICK d : d = doc'
      OBVIOUS
    <3>3. d = [doc EXCEPT !.stat.properties.text[q] = Append(@, chunk), !.chunks = @ + 1]
      BY <1>10, <3>1, <3>2
    <3>4. q \in Values /\ q \in doc.told /\ doc.here.properties.text[q] = <<>>
      BY <2>1, <3>1
    <3> HIDE DEF p
    <3>5. Grows(d, q, chunk)
      BY <1>2, <2>1, <3>3, <3>4, PropertyGrows
    <3> QED BY <3>1, <3>2, <3>5
  <2>7. /\ doc' \in Docs /\ doc'.open = path /\ doc'.all = doc.all /\ doc'.here = doc.here
        /\ doc'.told = doc.told /\ doc'.stat = Longer(doc.stat, p, chunk) /\ ToldOnce(doc')
    BY <2>3 DEF Grows
  <2>4. response' = response /\ propStat' = doc'.stat
    <3>1. propStat = doc.stat /\ propStat # Nothing
      BY <1>4, <2>1
    <3>2. property_set = doc.stat.properties
      BY <3>1 DEF property_set
    <3>3. [property_set EXCEPT !.text[p] = Append(@, chunk)]
            = [doc.stat.properties EXCEPT !.text =
                [doc.stat.properties.text EXCEPT ![p] = Append(doc.stat.properties.text[p], chunk)]]
      BY <3>2
    <3> QED BY <2>2, <2>7, <3>1, <3>3 DEF property_set_mut, Longer
  <2>5. KeepsUp(doc)'
    BY <1>3, <1>4, <1>5, <1>10, <2>1, <2>7, <2>4 DEF KeepsUp, InPropStat
  <2>6. ToldOnce(doc)'
    BY <2>7 DEF ToldOnce, InPropStat
  <2> QED BY <1>3, <2>7, <2>5, <2>6 DEF Reading
<1>11. CASE n >= 5 /\ path[5] = "Other" /\ doc' = doc
  <2>1. path[n] \in {"Href", "Other"} /\ (n = 5 => path[n] = "Other")
    BY <1>3, <1>11, KindsAre DEF PathFits
  <2>2. n >= 6 => parent \in {"Href", "Other"}
    BY <1>3, <1>6, <1>11, KindsAre DEF PathFits
  <2>3. response' = response /\ propStat' = propStat
    <3>1. path[n] \notin Texts /\ path[n] # "Status"
      BY <2>1 DEF Texts
    <3>2. path[n] = "Href" => parent \notin Links \cup {"Response"}
      BY <1>3, <1>11, <2>1, <2>2 DEF Links
    <3> HIDE DEF path, n, parent
    <3> QED BY <1>7, <3>1, <3>2
  <2> QED BY <1>2, <1>5, <1>11, <2>3 DEF Reading, KeepsUp, ToldOnce, InPropStat
<1> QED BY <1>8, <1>9, <1>10, <1>11 DEF TextChunk

\* The answer ends: it is accepted when nothing is open, and else was broken off.
LEMMA EofKeeps ==
  ASSUME MultistatusInv, Eof
  PROVE  MultistatusInv'
<1> DEFINE path == doc.open
           n == Len(path)
<1>1. /\ outcome = "reading" /\ stack' = stack /\ responses' = responses
      /\ outcome' = IF stack # <<>> \/ response # Nothing \/ propStat # Nothing THEN "error" ELSE "ok"
      /\ doc' = [doc EXCEPT !.broken = path # <<>> \/ ~doc.begun]
  BY DEF Eof, parser
<1>2. Reading(doc)
  BY <1>1 DEF MultistatusInv
<1>3. doc \in Docs /\ stack = path /\ responses = doc.all /\ n \in Nat /\ (n = 0 <=> path = <<>>)
  BY <1>2, WhereIs, DocParts
<1>4. doc'.open = path /\ doc'.all = doc.all /\ doc'.broken = (path # <<>> \/ ~doc.begun) /\ doc'.begun = doc.begun
  <2>1. doc = [open |-> doc.open, all |-> doc.all, here |-> doc.here, stat |-> doc.stat, told |-> doc.told,
               begun |-> doc.begun, prop |-> doc.prop, broken |-> doc.broken, chunks |-> doc.chunks]
    BY <1>3, DocForm
  <2> QED BY <1>1, <2>1
<1>5. CASE path = <<>>
  <2>1. response = Nothing /\ propStat = Nothing
    BY <1>2, <1>3, <1>5, WhereIs DEF InPropStat
  <2>2. outcome' = "ok"
    BY <1>1, <1>3, <1>5, <2>1
  <2> QED BY <1>1, <1>3, <1>4, <1>5, <2>2 DEF MultistatusInv, ParsedIsMeant
<1>6. CASE path # <<>>
  BY <1>1, <1>3, <1>4, <1>6 DEF MultistatusInv, ParsedIsMeant
<1> QED BY <1>5, <1>6

\* The path of the elements that stay open.
LEMMA PathShrinks ==
  ASSUME NEW path \in Seq(Kinds), PathFits(path), path # <<>>
  PROVE  LET n == Len(path)
             shorter == Front(path)
         IN /\ n \in Nat /\ n >= 1 /\ shorter \in Seq(Kinds) /\ Len(shorter) = n - 1 /\ PathFits(shorter)
            /\ \A k \in 1 .. n - 1 : shorter[k] = path[k]
            /\ Last(path) = path[n]
            /\ (path[n] = "PropStat" => n = 3) /\ (path[n] = "Response" <=> n = 2)
<1> DEFINE n == Len(path)
           shorter == Front(path)
<1>1. n \in Nat /\ n >= 1
  BY LenProperties, EmptySeq
<1>2. /\ shorter \in Seq(Kinds) /\ Len(shorter) = n - 1
      /\ \A k \in 1 .. n - 1 : shorter[k] = path[k]
      /\ Last(path) = path[n]
  BY <1>1 DEF Front, Last
<1> HIDE DEF shorter
<1>7. n >= 6 => \/ n = 6 /\ path[6] \in {"Href", "Calendar"}
                \/ path[5] = "Other" /\ \A k \in 6 .. n : path[k] \in {"Href", "Other"}
  BY DEF PathFits
<1>3. PathFits(shorter)
  <2> DEFINE m == Len(shorter)
  <2>1. /\ m >= 1 => shorter[1] = "Other"
        /\ m >= 2 => shorter[2] = "Response"
        /\ m >= 3 => shorter[3] \in {"Href", "PropStat"}
        /\ m >= 4 => shorter[3] = "PropStat" /\ shorter[4] \in {"Other", "Status"}
        /\ m >= 5 => shorter[4] = "Other" /\ shorter[5] \in Served \cup {"Other"}
    BY <1>1, <1>2 DEF PathFits
  <2>2. m >= 6 => shorter[5] = "Other" /\ \A k \in 6 .. m : shorter[k] \in {"Href", "Other"}
    <3> SUFFICES ASSUME m >= 6
                 PROVE  shorter[5] = "Other" /\ \A k \in 6 .. m : shorter[k] \in {"Href", "Other"}
      OBVIOUS
    <3>1. n >= 7 /\ shorter[5] = path[5]
      BY <1>1, <1>2
    <3>2. path[5] = "Other" /\ \A k \in 6 .. n : path[k] \in {"Href", "Other"}
      <4> HIDE DEF n
      <4> QED BY <1>1, <1>7, <3>1
    <3>3. ASSUME NEW k \in 6 .. m PROVE shorter[k] \in {"Href", "Other"}
      <4>1. k \in 6 .. n /\ k \in 1 .. n - 1
        BY <1>1, <1>2
      <4> QED BY <1>2, <3>2, <4>1
    <3> QED BY <3>1, <3>2, <3>3
  <2> QED BY <2>1, <2>2 DEF PathFits
<1>4. \A p \in Served : p \notin {"Response", "PropStat", "Other"}
  BY KindsAre, MultistatusAssumption
<1>8. n >= 6 => path[n] \in {"Href", "Calendar", "Other"}
  <2> HIDE DEF n
  <2>1. n >= 6 => n \in 6 .. n
    BY <1>1
  <2> QED BY <1>7, <2>1
<1>5. path[n] = "PropStat" => n = 3
  <2> SUFFICES ASSUME path[n] = "PropStat" PROVE n = 3
    OBVIOUS
  <2>2. n = 1 \/ n = 2 \/ n = 3 \/ n = 4 \/ n = 5 \/ n >= 6
    <3> HIDE DEF n
    <3> QED BY <1>1
  <2>3. n = 1 => path[1] = "Other"
    BY DEF PathFits
  <2>4. n = 2 => path[2] = "Response"
    BY DEF PathFits
  <2>5. n = 4 => path[4] \in {"Other", "Status"}
    BY DEF PathFits
  <2>6. n = 5 => path[5] \in Served \cup {"Other"}
    BY DEF PathFits
  <2> HIDE DEF n
  <2> QED BY <1>4, <1>8, <2>2, <2>3, <2>4, <2>5, <2>6
<1>6. path[n] = "Response" <=> n = 2
  <2>1. n = 2 => path[n] = "Response"
    BY DEF PathFits
  <2>3. n = 1 \/ n = 2 \/ n = 3 \/ n = 4 \/ n = 5 \/ n >= 6
    <3> HIDE DEF n
    <3> QED BY <1>1
  <2> QED BY <1>4, <1>8, <2>1, <2>3 DEF PathFits
<1> QED BY <1>1, <1>2, <1>3, <1>5, <1>6 DEF shorter

\* A property that is told once in a response: replacing its text by that of the
\* propstat is putting it at the end.
LEMMA MergeIsAll ==
  ASSUME Reading(doc), InPropStat(doc)
  PROVE  merge(doc.here.properties, doc.stat.properties)
           = [text |-> [p \in Values |-> doc.here.properties.text[p] \o doc.stat.properties.text[p]],
              isCalendar |-> doc.here.properties.isCalendar \/ doc.stat.properties.isCalendar]
<1> DEFINE here == doc.here.properties.text
           stat == doc.stat.properties.text
<1>1. /\ here \in [Values -> Seq(Chunks)] /\ stat \in [Values -> Seq(Chunks)]
      /\ ToldOnce(doc)
  BY DocParts DEF Reading
<1>2. ASSUME NEW p \in Values
      PROVE  (IF stat[p] # <<>> THEN stat[p] ELSE here[p]) = here[p] \o stat[p]
  <2>1. here[p] \in Seq(Chunks) /\ stat[p] \in Seq(Chunks)
    BY <1>1
  <2>2. stat[p] # <<>> => here[p] = <<>>
    BY <1>1 DEF ToldOnce
  <2> HIDE DEF here, stat
  <2> QED BY <2>1, <2>2, ConcatEmptySeq
<1>3. [p \in Values |-> IF stat[p] # <<>> THEN stat[p] ELSE here[p]] = [p \in Values |-> here[p] \o stat[p]]
  BY <1>2
<1> QED BY <1>3 DEF merge

\* An element ends: a propstat is merged or dropped, a response is put with the others.
LEMMA EndKeeps ==
  ASSUME MultistatusInv, EndTag
  PROVE  MultistatusInv'
<1> DEFINE path == doc.open
           n == Len(path)
           kind == Last(path)
           shorter == Front(path)
           merged == [text |-> [p \in Values |-> doc.here.properties.text[p] \o doc.stat.properties.text[p]],
                      isCalendar |-> doc.here.properties.isCalendar \/ doc.stat.properties.isCalendar]
           full == [href |-> doc.here.href, hasSuccessfulProperties |-> TRUE, properties |-> merged]
           here == IF kind = "PropStat" /\ doc.stat.status = <<"ok">> THEN full ELSE doc.here
           told == IF kind = "Response" THEN {} ELSE doc.told
           all == IF kind = "Response" THEN Append(doc.all, doc.here) ELSE doc.all
<1>1. /\ outcome = "reading" /\ path # <<>> /\ End(kind)
      /\ doc' = [doc EXCEPT !.open = shorter, !.all = all, !.told = told, !.here = here]
  <2>1. /\ outcome = "reading" /\ path # <<>> /\ End(kind)
        /\ doc' = [doc EXCEPT !.open = Front(@), !.all = IF kind = "Response" THEN Append(@, doc.here) ELSE @,
                      !.told = IF kind = "Response" THEN {} ELSE @, !.here = here]
    BY DEF EndTag
  <2> HIDE DEF here, kind
  <2> QED BY <2>1
<1>2. Reading(doc)
  BY <1>1 DEF MultistatusInv
<1>3. doc \in Docs /\ PathFits(path) /\ ToldOnce(doc) /\ stack = path /\ responses = doc.all
  BY <1>2, WhereIs
<1>4. /\ n \in Nat /\ n >= 1 /\ shorter \in Seq(Kinds) /\ Len(shorter) = n - 1 /\ PathFits(shorter)
      /\ \A k \in 1 .. n - 1 : shorter[k] = path[k]
      /\ kind = path[n]
      /\ (kind = "PropStat" => n = 3) /\ (kind = "Response" <=> n = 2)
  BY <1>1, <1>3, PathShrinks, DocParts
<1>5. /\ (n >= 2 => response = doc.here /\ response # Nothing) /\ (n < 2 => response = Nothing)
      /\ (InPropStat(doc) => propStat = doc.stat /\ propStat # Nothing)
      /\ (~InPropStat(doc) => propStat = Nothing)
      /\ (InPropStat(doc) <=> n >= 3 /\ path[3] = "PropStat")
  BY <1>2, WhereIs DEF InPropStat
<1>6. full \in Responses /\ full.properties.text = [p \in Values |-> doc.here.properties.text[p] \o doc.stat.properties.text[p]]
  <2>1. /\ doc.here.properties.text \in [Values -> Seq(Chunks)] /\ doc.stat.properties.text \in [Values -> Seq(Chunks)]
        /\ doc.here.properties.isCalendar \in BOOLEAN /\ doc.stat.properties.isCalendar \in BOOLEAN
        /\ doc.here.href \in Seq(Chunks)
    BY <1>3, DocParts
  <2>2. \A p \in Values : doc.here.properties.text[p] \o doc.stat.properties.text[p] \in Seq(Chunks)
    BY <2>1, ConcatProperties
  <2>3. merged \in PropertySets
    BY <2>1, <2>2 DEF PropertySets
  <2> QED BY <2>1, <2>3 DEF Responses
<1>7. /\ doc'.open = shorter /\ doc'.all = all /\ doc'.here = here /\ doc'.told = told /\ doc'.stat = doc.stat
      /\ doc' \in Docs
  <2>1. doc = [open |-> doc.open, all |-> doc.all, here |-> doc.here, stat |-> doc.stat, told |-> doc.told,
               begun |-> doc.begun, prop |-> doc.prop, broken |-> doc.broken, chunks |-> doc.chunks]
    BY <1>3, DocForm
  <2>2. here \in Responses
    BY <1>3, <1>6 DEF Docs
  <2>3. all \in Seq(Responses) /\ told \subseteq Kinds
    BY <1>3, AppendProperties DEF Docs
  <2> HIDE DEF here, all, told, shorter
  <2>4. doc' = [open |-> shorter, all |-> all, here |-> here, stat |-> doc.stat, told |-> told,
                begun |-> doc.begun, prop |-> doc.prop, broken |-> doc.broken, chunks |-> doc.chunks]
    BY <1>1, <2>1
  <2>5. doc' \in Docs
    BY <1>3, <1>4, <2>2, <2>3, <2>4 DEF Docs
  <2> QED BY <2>4, <2>5
<1> HIDE DEF kind, shorter
<1>8. kind = "PropStat" => InPropStat(doc)
  <2>1. kind = "PropStat" => n = 3 /\ path[3] = "PropStat"
    BY <1>4
  <2> HIDE DEF n, path
  <2> QED BY <1>5, <2>1
<1>9. CASE kind = "Response" /\ Len(responses) >= CALDAV_MAX_RESPONSES
  <2>1. outcome' = "error"
    BY <1>1, <1>9 DEF End, Refuses
  <2>2. Len(doc'.all) > CALDAV_MAX_RESPONSES
    <3>1. doc'.all = Append(doc.all, doc.here) /\ doc.all \in Seq(Responses) /\ doc.here \in Responses
      BY <1>3, <1>7, <1>9, DocParts
    <3>2. Len(doc'.all) = Len(doc.all) + 1 /\ Len(doc.all) \in Nat
      BY <3>1, AppendProperties, LenProperties
    <3> QED BY <1>3, <1>9, <3>2, MultistatusAssumption
  <2> QED BY <2>1, <2>2 DEF MultistatusInv, ParsedIsMeant
<1>10. CASE ~(kind = "Response" /\ Len(responses) >= CALDAV_MAX_RESPONSES)
  <2>1. stack # <<>> /\ Last(stack) = kind /\ Front(stack) = shorter
    BY <1>1, <1>3 DEF kind, shorter
  <2>2. ~(kind = "PropStat" /\ propStat = Nothing) /\ ~(kind = "Response" /\ response = Nothing)
    <3> HIDE DEF n, path
    <3> QED BY <1>4, <1>5, <1>8
  <2>3. /\ stack' = shorter /\ outcome' = outcome
        /\ kind = "PropStat" => CompletePropStat
        /\ kind # "PropStat" => /\ response' = (IF kind = "Response" THEN Nothing ELSE response)
                                /\ propStat' = propStat
        /\ responses' = (IF kind = "Response" THEN Append(responses, response) ELSE responses)
    BY <1>1, <1>10, <2>1, <2>2 DEF End
  <2>4. responses' = doc'.all
    <3>1. kind = "Response" => response = doc.here
      <4> HIDE DEF n, path
      <4> QED BY <1>4, <1>5
    <3>2. kind = "Response" => doc'.all = Append(doc.all, doc.here)
      BY <1>7
    <3>3. kind # "Response" => doc'.all = doc.all
      BY <1>7
    <3> QED BY <1>3, <2>3, <3>1, <3>2, <3>3
  <2>5. CASE kind = "PropStat"
    <3>1. n = 3 /\ InPropStat(doc) /\ response = doc.here /\ propStat = doc.stat /\ Len(shorter) = 2
      BY <1>4, <1>5, <1>8, <2>5
    <3>2. propStat' = Nothing /\ ~InPropStat(doc')
      BY <1>7, <2>3, <2>5, <3>1 DEF CompletePropStat, InPropStat
    <3>3. response' = doc'.here
      <4>1. CASE doc.stat.status = <<"ok">>
        <5>1. response' = [doc.here EXCEPT !.properties = merge(doc.here.properties, doc.stat.properties),
                                           !.hasSuccessfulProperties = TRUE]
          BY <2>3, <2>5, <3>1, <4>1 DEF CompletePropStat, http_status_is_success
        <5>2. merge(doc.here.properties, doc.stat.properties) = merged
          BY <1>2, <3>1, MergeIsAll
        <5>3. PICK m : m = merged
          OBVIOUS
        <5>4. [doc.here EXCEPT !.properties = merged, !.hasSuccessfulProperties = TRUE] = full
          <6>1. doc.here \in Responses
            BY <1>3, DocParts
          <6> HIDE DEF merged
          <6>2. [doc.here EXCEPT !.properties = m, !.hasSuccessfulProperties = TRUE]
                  = [href |-> doc.here.href, hasSuccessfulProperties |-> TRUE, properties |-> m]
            BY <6>1, ResponseFilled
          <6> QED BY <5>3, <6>2
        <5>5. doc'.here = full
          BY <1>7, <2>5, <4>1
        <5> QED BY <5>1, <5>2, <5>4, <5>5
      <4>2. CASE doc.stat.status # <<"ok">>
        BY <1>7, <2>3, <2>5, <3>1, <4>2 DEF CompletePropStat, http_status_is_success
      <4> QED BY <4>1, <4>2
    <3>4. KeepsUp(doc)'
      <4>1. doc'.open = shorter /\ Len(doc'.open) >= 2
        BY <1>7, <3>1
      <4> QED BY <2>3, <2>4, <3>2, <3>3, <4>1 DEF KeepsUp
    <3>5. ASSUME NEW p \in Values, doc'.here.properties.text[p] # <<>>
          PROVE  p \in doc'.told
      <4>1. /\ doc.here.properties.text[p] # <<>> => p \in doc.told
            /\ doc.stat.properties.text[p] # <<>> => p \in doc.told
        BY <1>3, <3>1 DEF ToldOnce
      <4>2. doc'.told = doc.told
        BY <1>7, <2>5
      <4>3. CASE doc.here.properties.text[p] = <<>> /\ doc.stat.properties.text[p] = <<>>
        <5>1. <<>> \o <<>> = <<>>
          OBVIOUS
        <5>2. full.properties.text[p] = <<>>
          BY <1>6, <4>3, <5>1
        <5> QED BY <1>7, <3>5, <4>3, <5>2
      <4> QED BY <4>1, <4>2, <4>3
    <3>6. ToldOnce(doc)'
      BY <1>7, <3>1, <3>2, <3>5 DEF ToldOnce
    <3>7. Reading(doc)'
      BY <1>4, <1>7, <3>4, <3>6 DEF Reading
    <3> QED BY <1>1, <2>3, <3>7 DEF MultistatusInv, ParsedIsMeant
  <2>6. CASE kind = "Response"
    <3>1. n = 2 /\ Len(shorter) = 1 /\ propStat = Nothing
      BY <1>4, <1>5, <2>6
    <3>2. response' = Nothing /\ propStat' = Nothing
      BY <2>3, <2>6, <3>1
    <3>3. KeepsUp(doc)'
      <4>1. doc'.open = shorter /\ ~(Len(doc'.open) >= 2) /\ ~(Len(doc'.open) >= 3)
        BY <1>7, <3>1
      <4> QED BY <2>3, <2>4, <3>2, <4>1 DEF KeepsUp, InPropStat
    <3>4. ToldOnce(doc)'
      BY <1>7, <3>1 DEF ToldOnce, InPropStat
    <3>5. Reading(doc)'
      BY <1>4, <1>7, <3>3, <3>4 DEF Reading
    <3> QED BY <1>1, <2>3, <3>5 DEF MultistatusInv, ParsedIsMeant
  <2>7. CASE kind \notin {"PropStat", "Response"}
    <3>1. response' = response /\ propStat' = propStat /\ doc'.here = doc.here /\ doc'.told = doc.told
      BY <1>7, <2>3, <2>7
    <3>2. n = 1 \/ n = 3 \/ n >= 4
      <4> HIDE DEF n
      <4> QED BY <1>4, <2>7
    <3>3. InPropStat(doc') <=> InPropStat(doc)
      <4>1. n >= 4 => shorter[3] = path[3]
        BY <1>4
      <4>2. n = 3 => path[3] # "PropStat"
        BY <1>4, <2>7
      <4>3. InPropStat(doc') <=> n - 1 >= 3 /\ shorter[3] = "PropStat"
        BY <1>4, <1>7 DEF InPropStat
      <4> HIDE DEF n
      <4> QED BY <1>4, <1>5, <3>2, <4>1, <4>2, <4>3
    <3>4. Len(doc'.open) = n - 1 /\ (n - 1 >= 2 <=> n >= 2)
      <4>1. Len(doc'.open) = n - 1
        BY <1>4, <1>7
      <4> HIDE DEF n
      <4> QED BY <1>4, <3>2, <4>1
    <3>5. KeepsUp(doc)'
      <4>1. n < 2 \/ n >= 2
        <5> HIDE DEF n
        <5> QED BY <1>4
      <4> QED BY <1>5, <1>7, <2>3, <2>4, <3>1, <3>3, <3>4, <4>1 DEF KeepsUp
    <3>6. ToldOnce(doc)'
      <4>1. ASSUME NEW p \in Values
            PROVE  /\ Len(doc'.open) >= 2 /\ doc'.here.properties.text[p] # <<>> => p \in doc'.told
                   /\ InPropStat(doc') /\ doc'.stat.properties.text[p] # <<>>
                        => p \in doc'.told /\ doc'.here.properties.text[p] = <<>>
        BY <1>3, <1>7, <3>1, <3>3, <3>4 DEF ToldOnce
      <4>2. Len(doc'.open) >= 5 => n >= 5 /\ doc'.open[5] = path[5]
        BY <1>4, <1>7, <3>4
      <4>3. Len(doc'.open) >= 5 /\ doc'.open[5] \in Values
              => doc'.open[5] \in doc'.told /\ doc'.here.properties.text[doc'.open[5]] = <<>>
        BY <1>3, <3>1, <4>2 DEF ToldOnce
      <4> QED BY <4>1, <4>3 DEF ToldOnce
    <3>7. Reading(doc)'
      BY <1>4, <1>7, <3>5, <3>6 DEF Reading
    <3> QED BY <1>1, <2>3, <3>7 DEF MultistatusInv, ParsedIsMeant
  <2> QED BY <2>5, <2>6, <2>7
<1> QED BY <1>9, <1>10

-----------------------------------------------------------------------------
\* The inductive invariant: while a document is read, the open elements have one of the
\* shapes of RFC 4918, the parser has what was written, and no propstat repeats what its
\* response has.
THEOREM MultistatusInvariant == MultistatusSpec => []MultistatusInv
<1>1. MultistatusInit => MultistatusInv
  <2> SUFFICES ASSUME MultistatusInit PROVE MultistatusInv
    OBVIOUS
  <2>1. /\ stack = <<>> /\ response = Nothing /\ propStat = Nothing /\ responses = <<>> /\ outcome = "reading"
        /\ doc = [open |-> <<>>, all |-> <<>>, here |-> DavResponse, stat |-> DavPropStat,
                  told |-> {}, begun |-> FALSE, prop |-> FALSE, broken |-> FALSE, chunks |-> 0]
    BY DEF MultistatusInit
  <2>2. doc \in Docs
    <3>1. <<>> \in Seq(Kinds) /\ <<>> \in Seq(Responses)
      OBVIOUS
    <3> QED BY <2>1, <3>1, EmptyIs DEF Docs
  <2>3. doc.open = <<>> /\ doc.all = <<>> /\ Len(doc.open) = 0
    BY <2>1
  <2>4. PathFits(doc.open) /\ KeepsUp(doc) /\ ToldOnce(doc)
    BY <2>1, <2>3 DEF PathFits, KeepsUp, ToldOnce, InPropStat
  <2> QED BY <2>1, <2>2, <2>4 DEF Reading, MultistatusInv, ParsedIsMeant
<1>2. MultistatusInv /\ [MultistatusNext]_xvars => MultistatusInv'
  <2> SUFFICES ASSUME MultistatusInv, [MultistatusNext]_xvars PROVE MultistatusInv'
    OBVIOUS
  <2>1. ASSUME NEW kind \in Kinds, StartTag(kind) PROVE MultistatusInv'
    BY <2>1, StartKeeps
  <2>2. ASSUME NEW kind \in Kinds, EmptyTag(kind) PROVE MultistatusInv'
    BY <2>2, EmptyTagKeeps
  <2>3. ASSUME NEW chunk \in Chunks, TextChunk(chunk) PROVE MultistatusInv'
    BY <2>3, TextKeeps
  <2>4. CASE EndTag
    BY <2>4, EndKeeps
  <2>5. CASE Eof
    BY <2>5, EofKeeps
  <2>6. CASE UNCHANGED xvars
    BY <2>6 DEF xvars, MultistatusInv, Reading, KeepsUp, ToldOnce, InPropStat, ParsedIsMeant
  <2> QED BY <2>1, <2>2, <2>3, <2>4, <2>5, <2>6 DEF MultistatusNext
<1> QED BY <1>1, <1>2, PTL DEF MultistatusSpec

\* What is read of an answer is what the server means: of each resource its own href and the
\* properties of its successful propstats, whole; of the answers that were broken off only one with
\* nothing in it is accepted, as one without resources; and only an answer that was broken off or is
\* beyond the limits is refused.
THEOREM AnswersAreRead == MultistatusSpec => []ParsedIsMeant
<1>1. MultistatusInv => ParsedIsMeant
  BY DEF MultistatusInv
<1> QED BY <1>1, MultistatusInvariant, PTL

=============================================================================
