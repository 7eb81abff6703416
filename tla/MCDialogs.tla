------------------------------- MODULE MCDialogs -------------------------------
(***************************************************************************)
(* What the dialogs of a page write: the events of the calendar, and the   *)
(* preferences and the password of the account; and the parser that reads  *)
(* the answers of the CalDAV server.  They share the dialog host and        *)
(* nothing else, so one of them runs at a time: `part` tells which.        *)
(***************************************************************************)
EXTENDS CalendarWrites, OptionsMenu, DavMultistatus, TLC

VARIABLE part

MCContents == {[kind |-> "gone", dates |-> {}, overridden |-> {}],
               [kind |-> "single", dates |-> {"d1"}, overridden |-> {}],
               [kind |-> "series", dates |-> {"d1", "d2"}, overridden |-> {"d2"}]}
MCDates == {"d1", "d2"}
MCServed == {"Etag", "CalendarHomeSet", "ResourceType"}
\* Languages are only compared.
LangSymmetry == Permutations(Langs)

calendarvars == <<resource, created, grid, ops, pending, lost, suspended, reported, exposed>>
optionsvars == <<server, session, local, tasks, late, flags, minted, faults, agreed>>

MCInit ==
    /\ part \in {"writes", "options", "multistatus"}
    /\ WritesInit /\ OptionsInit /\ MultistatusInit
    \* The version of a series is told in the report or in the header, that of the rest in the report.
    /\ IF part = "writes" THEN reported = ~exposed /\ (resource.kind # "series" => reported)
       ELSE resource.kind = "gone" /\ ~reported /\ ~exposed

MCNext ==
    /\ UNCHANGED part
    /\ \/ part = "writes" /\ WritesNext /\ UNCHANGED <<optionsvars, xvars>>
       \/ part = "options" /\ OptionsNext /\ UNCHANGED <<calendarvars, xvars>>
       \/ part = "multistatus" /\ MultistatusNext /\ UNCHANGED <<hostvars, calendarvars, optionsvars>>

MCSpec == MCInit /\ [][MCNext]_<<part, hostvars, calendarvars, optionsvars, xvars>>

\* The options are opened twice at most; and once a dialog came up over another (`disturbed`),
\* nothing is claimed of them any more.
OptionsBound == part = "options" => opened <= 2 /\ ~disturbed

\* A dialog whose attempts are lost twice is the only one of its page to lose any.
WritesBound == \A i, j \in 1 .. MaxDialogs : i < j => lost[i] + lost[j] <= MaxLost
===============================================================================
