------------------------------ MODULE MCCalendar ------------------------------
EXTENDS CalendarRefresh, TLC
CONSTANTS home, work, c1, c2

\* Day 0 is Monday 30 November 2026; day 29 is Tuesday 29 December, whose week spans two years.
MCMonthStarts == {-121, -90, -60, -29, 1, 32, 63, 91, 122, 152}
MCYearStarts == {-333, 32}
MCFirstDate == -90
MCLastDate == 121
MCToday == 29
MCOffsets == {-1, 1}
MCIdentities == {home, work}
MCCollections == {c1, c2}
MCOwnerOf == (c1 :> home) @@ (c2 :> home)
Timed(col, from, to, allDay, bad) == [col |-> col, from |-> from, to |-> to, allDay |-> allDay, bad |-> bad]
\* The night before the week, an event that cannot be read, a whole day.
MCEventOf == ("eve" :> Timed(c1, 55, 56, FALSE, FALSE))
             @@ ("odd" :> Timed(c2, 60, 61, FALSE, TRUE))
             @@ ("day" :> Timed(c2, 60, 62, TRUE, FALSE))
MCEventIds == DOMAIN MCEventOf
MCCountries == {"fr", "be"}
MCHolidaysOf == (<<"fr", -333>> :> {25}) @@ (<<"fr", 32>> :> {32}) @@ (<<"be", -333>> :> {25}) @@ (<<"be", 32>> :> {33})
Configured(i, cols, mode, country) == [identity |-> i, cols |-> cols, mode |-> mode, country |-> country]
MCConfigs == {Configured(home, {c1, c2}, "week", "fr"), Configured(home, {c2}, "month", NoCountry)}
MCNewConfig == Configured(home, {}, "week", BadCountry)
=============================================================================
