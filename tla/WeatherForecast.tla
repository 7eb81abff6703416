--------------------------- MODULE WeatherForecast ---------------------------
(***************************************************************************)
(* The weather module of src/front/modules/weather.rs: the place and the   *)
(* number of days it is configured for, the requests it has under way to   *)
(* the forecast service, and the cards it shows, one per day.              *)
(*                                                                         *)
(* Time is counted in hours of UTC.  The service is asked for dates (those *)
(* of UTC) and answers with the hours these dates have where the browser   *)
(* is; the module sorts the hours into dates again, with the offset that   *)
(* holds when it reads the answer.                                         *)
(***************************************************************************)
EXTENDS Integers, Sequences, FiniteSetsExt

CONSTANTS
  Places,       \* a latitude and a longitude
  DayCounts,    \* what the field `maxday` may say
  Zones,        \* browsers: [before, after, at], an offset that changes at one hour
  HoursPerDay,  \* 24
  ShownFrom, ShownTo, \* weatherHour_isDisplayed: 8 and 22
  FirstHour, LastHour, Hop, \* the hours at which the clock is looked at
  MaxRequests,  \* bound on the requests under way
  Forecast,     \* what the service says: place -> hour -> [temp, rain, wind, code]
  Nothing       \* no content yet; no wind in a day without displayed hours (-inf)

VARIABLES
  zone,         \* the offsets of the browser
  now,
  config,       \* WeatherConfig: [place, maxday]
  active,       \* lifecycle_isActive
  requests,     \* the futures of sync_weather_api
  content       \* weatherContent; `of`, `kind` and `offset` are history

forecastvars == <<zone, now, config, active, requests, content>>

\* What is asked of the service: dates of UTC.
Request ==
  [place: Places, start: {h \div HoursPerDay : h \in FirstHour .. LastHour},
   days: {d \in DayCounts \cup {1} : d >= 1}]

\* The hours among which those of an answer are.
Around(r) == (r.start - 1) * HoursPerDay .. (r.start + r.days + 1) * HoursPerDay

\* An offset is at most a day, and a change of the clock leaves the first displayed hour
\* within its date.
ASSUME WeatherAssumption ==
  /\ HoursPerDay \in Nat \ {0} /\ ShownTo \in Nat /\ ShownFrom \in 1 .. ShownTo
  /\ FirstHour \in Int /\ LastHour \in Int /\ FirstHour <= LastHour /\ Hop \in Nat
  /\ DayCounts \subseteq Int /\ MaxRequests \in Nat
  /\ \A z \in Zones :
       /\ z \in [before: -HoursPerDay .. HoursPerDay, after: -HoursPerDay .. HoursPerDay, at: Int]
       /\ ShownFrom + (z.after - z.before) \in 1 .. HoursPerDay - 1
       /\ ShownFrom + (z.before - z.after) \in 1 .. HoursPerDay - 1
  /\ \A r \in Request : \A h \in Around(r) :
       Forecast[r.place][h].temp \in Int /\ Forecast[r.place][h].wind \in Int

IsContent(c) ==
  c \in [cards: {c.cards}, lastUpdate: {0}, of: Request, kind: {"full", "empty"},
         offset: -HoursPerDay .. HoursPerDay]

WeatherTypeOK ==
  /\ zone \in Zones /\ now \in FirstHour .. LastHour
  /\ config \in [place: Places, maxday: DayCounts]
  /\ active \in BOOLEAN
  /\ requests \subseteq Request
  /\ content # Nothing => IsContent(content)

OffsetAt(h) == IF h < zone.at THEN zone.before ELSE zone.after

WeatherInit ==
  /\ zone \in Zones /\ now = FirstHour
  /\ config \in [place: Places, maxday: DayCounts]
  /\ active = TRUE
  /\ requests = {} /\ content = Nothing

-----------------------------------------------------------------------------
(* The request and the service's answer. *)

\* The result of an answer never sets `lastUpdate`, which stays at the epoch.
Throttled == content # Nothing /\ (now - content.lastUpdate) * 3600 < 30

\* start_hour and end_hour of the request.
Asked ==
  [place |-> config.place, start |-> now \div HoursPerDay,
   days |-> IF config.maxday < 1 THEN 1 ELSE config.maxday]

\* A refresh of the cron, of the page or of the button, until the fetch.
Refresh ==
  /\ active /\ ~Throttled
  /\ Cardinality(requests) < MaxRequests
  /\ requests' = requests \cup {Asked}
  /\ UNCHANGED <<zone, now, config, active, content>>

TrueDate(h) == (h + OffsetAt(h)) \div HoursPerDay
TrueHour(h) == (h + OffsetAt(h)) % HoursPerDay

\* The hours of a full answer: from 00:01 of the first date to 23:59 of the last.
Given(r) ==
  {h \in Around(r) :
     /\ TrueDate(h) \in r.start .. (r.start + r.days - 1)
     /\ TrueDate(h) = r.start => TrueHour(h) # 0}

-----------------------------------------------------------------------------
(* Reading an answer: json_read_hourly and the conversion of a day. *)

\* A faulty ReadOffset: the dates of UTC.
NoOffset == 0

\* current_local_offset, of the moment of the reading.
ReadOffset == OffsetAt(now)

DateRead(h) == (h + ReadOffset) \div HoursPerDay
HourRead(h) == (h + ReadOffset) % HoursPerDay
Displayed(hour) == hour >= ShownFrom /\ hour <= ShownTo

\* The most frequent codes: a hash map's order tells which of them is shown.
Frequent(code, hours) ==
  LET count(c) == Cardinality({h \in hours : code[h] = c})
      codes == {code[h] : h \in hours}
  IN  IF hours = {} THEN {0} ELSE {c \in codes : \A d \in codes : count(d) <= count(c)}

Rain(hours, said) == MapThenSumSet(LAMBDA h : said[h].rain, hours) \div Cardinality(hours)

Card(date, hours, said) ==
  LET shown == {h \in hours : Displayed(HourRead(h))}
  IN  [day |-> date,
       min |-> Min({said[h].temp : h \in hours}),
       max |-> Max({said[h].temp : h \in hours}),
       rain |-> Rain(hours, said),
       wind |-> IF shown = {} THEN Nothing ELSE Max({said[h].wind : h \in shown}),
       codes |-> Frequent([h \in hours |-> said[h].code], shown)]

\* The days of the hours, in order.
Cards(hours, said) ==
  LET dates == {DateRead(h) : h \in hours}
      nth(i) == CHOOSE date \in dates : Cardinality({d \in dates : d < date}) = i - 1
  IN  [i \in 1 .. Cardinality(dates) |->
         Card(nth(i), {h \in hours : DateRead(h) = nth(i)}, said)]

\* The answer replaces what was shown, whatever was asked since.  One that is
\* no JSON, or has no hours, leaves no card.  One whose arrays are shorter than
\* its times stops the reading at an index out of bounds (Broken).
Answered(r, kind) ==
  /\ r \in requests /\ active
  /\ requests' = requests \ {r}
  /\ content' = [cards |-> IF kind = "full" THEN Cards(Given(r), Forecast[r.place]) ELSE <<>>,
                 lastUpdate |-> 0, of |-> r, kind |-> kind, offset |-> OffsetAt(now)]
  /\ UNCHANGED <<zone, now, config, active>>
AnswerFull(r) == Answered(r, "full")
AnswerEmpty(r) == Answered(r, "empty")

\* No connection, no text, or a broken document; or the network was suspended
\* when the answer came: what is shown stays.
Broken(r) ==
  /\ r \in requests
  /\ requests' = requests \ {r}
  /\ UNCHANGED <<zone, now, config, active, content>>

-----------------------------------------------------------------------------
(* The form of the edit mode, and the network. *)

EditPlace(place) == config' = [config EXCEPT !.place = place]
EditDays(days) == config' = [config EXCEPT !.maxday = days]
\* The browser tells where it is, at any time after the click; unlike the fields
\* it does not mark the module as changed, so that the place may never be saved.
Locate(place) == config' = [config EXCEPT !.place = place]
\* The page brings what another browser has saved.
Import(place, days) == config' = [place |-> place, maxday |-> days]

Configure ==
  /\ \/ \E place \in Places : EditPlace(place) \/ Locate(place)
     \/ \E days \in DayCounts : EditDays(days)
     \/ \E place \in Places, days \in DayCounts : Import(place, days)
  /\ UNCHANGED <<zone, now, active, requests, content>>

SuspendOrResume == active' = ~active /\ UNCHANGED <<zone, now, config, requests, content>>

HoursPass ==
  /\ now + Hop <= LastHour
  /\ now' = now + Hop
  /\ UNCHANGED <<zone, config, active, requests, content>>

WeatherNext ==
  \/ Refresh \/ Configure \/ SuspendOrResume \/ HoursPass
  \/ \E r \in requests : AnswerFull(r) \/ AnswerEmpty(r) \/ Broken(r)

WeatherSpec == WeatherInit /\ [][WeatherNext]_forecastvars

-----------------------------------------------------------------------------
(* What the cards say. *)

\* The offset changes among the hours of the answer, or changed since it was
\* asked for: hours are then sorted into the wrong date, and one that falls
\* out of the dates asked for gets a card of its own, with a wind of -inf.
Shifted == \E h \in Given(content.of) : OffsetAt(h) # content.offset

\* What is shown of a full answer is what the service said of the dates asked for: one card for
\* each, in order, with the extremes of its own hours, and a wind and a sky of its displayed ones,
\* wherever the browser is and whenever it asks; unless the clocks change within the forecast.
ForecastTellsTheDay ==
  (content # Nothing /\ content.kind = "full" /\ ~Shifted) =>
    LET r == content.of
        said == Forecast[r.place]
    IN  /\ Len(content.cards) = r.days
        /\ \A i \in 1 .. r.days :
             LET card == content.cards[i]
                 hours == {h \in Given(r) : TrueDate(h) = card.day}
                 displayed == {h \in hours : TrueHour(h) \in ShownFrom .. ShownTo}
             IN  /\ card.day = r.start + i - 1
                 /\ \A h \in hours : said[h].temp \in card.min .. card.max
                 /\ \E h \in hours : said[h].temp = card.min
                 /\ \E h \in hours : said[h].temp = card.max
                 /\ \A h \in displayed : said[h].wind <= card.wind
                 /\ \E h \in displayed : said[h].wind = card.wind
                 /\ \A c \in card.codes : \E h \in displayed : said[h].code = c
=============================================================================
