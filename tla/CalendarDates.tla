---------------------------- MODULE CalendarDates ----------------------------
(***************************************************************************)
(* The dates of the calendar module: the grid of days a view shows, the    *)
(* range it asks the server for, the days an event is drawn on, and the    *)
(* years whose public holidays are needed.                                 *)
(*                                                                         *)
(* A date is the number of days since some Monday.  An instant is a number *)
(* of half days, which is as fine as the properties need: the offset of    *)
(* the browser's time zone is -1, 0 or 1 half days.  Months and years are  *)
(* given by the dates of their first days.                                 *)
(***************************************************************************)
EXTENDS Integers, FiniteSets, FiniteSetsExt

CONSTANTS MonthStarts,   \* the first days of consecutive months
          YearStarts,    \* the first days of the years they lie in
          FirstDate, LastDate  \* bounds: the dates a view can be opened on

Anchors == FirstDate .. LastDate

ASSUME DatesAssumption ==
    /\ YearStarts \subseteq Int /\ MonthStarts \subseteq Int
    /\ FirstDate \in Int /\ LastDate \in Int
    /\ \A d \in Anchors : \E m, n \in MonthStarts : m <= d /\ d < n /\ n - m <= 31
    /\ \E y \in YearStarts : y <= FirstDate - 37     \* the first grid has a year
    /\ \A y, z \in YearStarts : y < z => z - y >= 365

Modes == {"week", "month"}
HalfDays == 2

Weekday(d) == d % 7
MonthOf(d) == Max({m \in MonthStarts : m <= d})
MonthAfter(d) == Min({m \in MonthStarts : m > d})
YearOf(d) == Max({y \in YearStarts : y <= d})

\* Whole weeks, Monday to Sunday: the week of the anchor, or the weeks its month touches.
from_anchor(anchor, mode) ==
    IF mode = "week"
    THEN LET start == anchor - Weekday(anchor) IN [start |-> start, end |-> start + 7]
    ELSE LET first == MonthOf(anchor)
             next == MonthAfter(anchor)
         IN [start |-> first - Weekday(first), end |-> next + ((7 - Weekday(next)) % 7)]

Days(period) == period.start .. (period.end - 1)

\* A week on, or the first day of the month before or after.
Shifted(anchor, mode, direction) ==
    IF mode = "week" THEN anchor + 7 * direction
    ELSE IF direction > 0 THEN MonthAfter(anchor) ELSE MonthOf(MonthOf(anchor) - 1)

\* The range a view asks for, in half days of UTC: its grid and a day on either side.
query_start_utc(period) == (period.start - 1) * HalfDays
query_end_utc(period) == (period.end + 1) * HalfDays

\* RFC 4791: an event is in a range when it overlaps it.
InRange(event, from, to) == event.from < to /\ (event.to > from \/ event.from = from)

\* The browser's date of an instant, at its offset.
LocalDate(instant, offset) == (instant + offset) \div HalfDays

\* An all-day event keeps its dates; a timed one is drawn from the day it begins to the day it ends.
event_overlapsLocalDate(event, date, offset) ==
    IF event.allDay
    THEN event.from \div HalfDays <= date /\ date < event.to \div HalfDays
    ELSE LET last == IF event.to > event.from THEN event.to - 1 ELSE event.from
         IN LocalDate(event.from, offset) <= date /\ date <= LocalDate(last, offset)

\* A faulty variant: the year of the first day only.
FirstYear(period) == {YearOf(period.start)}

\* A grid may span two years: the holidays of both are asked for.
HolidayYears(period) == {YearOf(period.start), YearOf(period.end - 1)}
=============================================================================
