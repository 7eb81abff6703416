--------------------------- MODULE CalendarRefresh ---------------------------
(***************************************************************************)
(* One calendar module in one browser: the period it shows, the refreshes  *)
(* that read the collections of its configuration one after the other, the *)
(* public holidays, the search for collections, and the configuration the  *)
(* user edits or the module holder replaces while answers are under way.   *)
(*                                                                         *)
(* A collection holds events, which other clients of the CalDAV server add *)
(* and remove.  An identity is the origin of a server: a user name is      *)
(* edited in the same way, and the check of the collections does not see   *)
(* it.  The dialogs of the module are in CalendarWrites.                   *)
(***************************************************************************)
EXTENDS CalendarDates

CONSTANTS Identities, Collections, OwnerOf, EventIds, EventOf, Countries, HolidaysOf,
          Configs, NewConfig, Today, Offsets, MaxEdits, MaxRefreshes

NoPeriod == [start |-> 0, end |-> 0]
NoCountry == "none"          \* the field is empty
BadCountry == "invalid"      \* the field does not name a country
Named == Countries \ {NoCountry, BadCountry}

Config == [identity : Identities, cols : SUBSET Collections, mode : Modes,
           country : Countries \cup {NoCountry, BadCountry}]
CalendarEvent == [col : Collections, from : Int, to : Int, allDay : BOOLEAN, bad : BOOLEAN]

ASSUME RefreshAssumption ==
    /\ OwnerOf \in [Collections -> Identities]
    /\ IsFiniteSet(EventIds) /\ IsFiniteSet(Collections)
    /\ \A e \in EventIds : EventOf[e] \in CalendarEvent /\ EventOf[e].from <= EventOf[e].to
    /\ \A k \in Named, y \in YearStarts : HolidaysOf[k, y] \subseteq {d \in y .. y + 366 : YearOf(d) = y}
    /\ Configs \subseteq Config /\ NewConfig \in Config
    /\ Today \in Anchors /\ Offsets \subseteq -1 .. 1
    /\ MaxEdits \in Nat /\ MaxRefreshes \in Nat \ {0}

VARIABLES
    config,       \* identity, collections, view mode and country of the module
    runtime,      \* CalendarRuntime
    refreshes,    \* the refreshes under way
    searches,     \* the searches for collections under way, by their identity
    cache,        \* the holiday cache: what is known of a country's year
    editMode,     \* the page is in edit mode
    offline,      \* the holder's network is suspended
    server,       \* the events of each collection
    truth,        \* what the last refresh applied had asked and read
    reused,       \* the generation restarted while refreshes were under way
    edits         \* user actions and outside events so far

rvars == <<config, runtime, refreshes, searches, cache, editMode, offline, server,
           truth, reused, edits>>

DefaultRuntime ==
    [anchor |-> Today, period |-> NoPeriod, events |-> {}, load |-> "Idle", partial |-> 0,
     rejected |-> 0, holidays |-> {}, country |-> NoCountry, holidayLoading |-> FALSE,
     holidayError |-> FALSE, stale |-> FALSE, discovered |-> {}, discovering |-> FALSE,
     generation |-> 0]

NoTruth == [period |-> NoPeriod, identity |-> "none", cols |-> {}, read |-> {}, answered |-> {}]

\* The configuration can be asked: it has collections, all of its own server.
ready_validate(c) == c.cols # {} /\ \A col \in c.cols : OwnerOf[col] = c.identity
holidayCountry_get(c) == IF c.country = BadCountry THEN NoCountry ELSE c.country

Cleared(r) ==
    [r EXCEPT !.events = {}, !.partial = 0, !.rejected = 0, !.holidays = {}, !.country = NoCountry,
              !.holidayLoading = FALSE, !.holidayError = FALSE, !.stale = FALSE]

period_set(r, anchor, mode) ==
    LET period == from_anchor(anchor, mode)
    IN IF r.period = period THEN [r EXCEPT !.anchor = anchor]
       ELSE [Cleared(r) EXCEPT !.anchor = anchor, !.period = period, !.load = "Idle"]

refresh_start(r, anchor, period, country, configured) ==
    [r EXCEPT !.generation = @ + 1, !.anchor = anchor, !.period = period,
              !.stale = r.events # {}, !.load = "Loading", !.partial = 0, !.rejected = 0,
              !.holidays = IF r.country # country THEN {} ELSE @, !.country = country,
              !.holidayLoading = country # NoCountry,
              !.holidayError = configured /\ country = NoCountry]

refresh_configurationRequired(r) ==
    [Cleared(r) EXCEPT !.generation = @ + 1, !.load = "ConfigurationRequired"]

\* A faulty variant: the generation is not compared.
StaleFinish(r, t) ==
    [r EXCEPT !.events = t.events, !.load = "Ready", !.stale = FALSE, !.partial = t.failed, !.rejected = t.rejected]
refresh_finish(r, t) ==
    IF r.generation # t.generation THEN r
    ELSE IF t.answered # {}
    THEN [r EXCEPT !.events = t.events, !.load = "Ready", !.stale = FALSE,
                   !.partial = t.failed, !.rejected = t.rejected]
    ELSE [r EXCEPT !.load = "Error", !.stale = r.events # {},
                   !.partial = t.failed, !.rejected = t.rejected]

holidays_finish(r, t, read, days) ==
    IF r.generation # t.generation \/ r.country # t.country THEN r
    ELSE IF ~read THEN [r EXCEPT !.holidayLoading = FALSE, !.holidayError = TRUE]
    ELSE [r EXCEPT !.holidayLoading = FALSE, !.holidayError = FALSE, !.holidays = days]

refresh_period_get(r, c) == IF r.period # NoPeriod THEN r.period ELSE from_anchor(Today, c.mode)

\* The module's refresh: it captures the configuration and takes the next generation.
Refreshed(r, c) ==
    /\ truth' = NoTruth
    /\ IF ~ready_validate(c)
       THEN runtime' = refresh_configurationRequired(r) /\ UNCHANGED refreshes
       ELSE LET period == refresh_period_get(r, c)
                country == holidayCountry_get(c)
                next == refresh_start(r, r.anchor, period, country, c.country # NoCountry)
            IN /\ Cardinality(refreshes) < MaxRefreshes
               /\ runtime' = next
               /\ refreshes' = refreshes \cup
                    {[id |-> Min((1 .. MaxRefreshes) \ {t.id : t \in refreshes}), generation |-> next.generation,
                      identity |-> c.identity, cols |-> c.cols, period |-> period, country |-> country, todo |-> c.cols,
                      events |-> {}, read |-> {}, answered |-> {}, failed |-> 0, rejected |-> 0,
                      phase |-> "events", years |-> HolidayYears(period), days |-> {}]}

Restless == edits < MaxEdits /\ edits' = edits + 1
Visible == ~editMode /\ ~offline /\ runtime.period # NoPeriod

\* The drawing's effect, when the module is first drawn: today, and a refresh of the new period.
CalendarDraw ==
    /\ ~editMode /\ ~offline /\ runtime.period = NoPeriod
    /\ Refreshed(period_set(runtime, Today, config.mode), config)
    /\ UNCHANGED <<config, searches, cache, editMode, offline, server, reused, edits>>

(* ---- the user, outside edit mode ---- *)
calendarPeriod_set(anchor) ==
    /\ Restless /\ Visible /\ anchor \in Anchors
    /\ Refreshed(period_set(runtime, anchor, config.mode), config)
    /\ UNCHANGED <<config, searches, cache, editMode, offline, server, reused>>

calendarPeriod_shift == \E direction \in {-1, 1} :
    calendarPeriod_set(Shifted(runtime.anchor, config.mode, direction))

calendarViewMode_set(mode) ==
    /\ Restless /\ Visible /\ config.mode # mode
    /\ config' = [config EXCEPT !.mode = mode]
    /\ Refreshed(period_set(runtime, runtime.anchor, mode), config')
    /\ UNCHANGED <<searches, cache, editMode, offline, server, reused>>

\* The refresh button, and the timer of the module holder every ten minutes.
Refresh ==
    /\ Restless /\ ~offline
    /\ Refreshed(runtime, config)
    /\ UNCHANGED <<config, searches, cache, editMode, offline, server, reused>>

(* ---- edit mode ---- *)
EditEnter ==
    /\ Restless /\ Visible /\ editMode' = TRUE
    /\ UNCHANGED <<config, runtime, refreshes, searches, cache, offline, server, truth, reused>>

\* The same effect on leaving: back to today, and a refresh whether the period changed or not.
EditLeave ==
    /\ editMode /\ ~offline /\ editMode' = FALSE
    /\ Refreshed(period_set(runtime, Today, config.mode), config)
    /\ UNCHANGED <<config, searches, cache, offline, server, reused, edits>>

\* The server or the user name is typed anew: the collections of the old one are let go.
IdentityEdit(i) ==
    /\ Restless /\ editMode /\ config.identity # i
    /\ config' = [config EXCEPT !.identity = i, !.cols = {}]
    /\ runtime' = [runtime EXCEPT !.discovered = {}]
    /\ UNCHANGED <<refreshes, searches, cache, editMode, offline, server, truth, reused>>

CountryEdit(k) ==
    /\ Restless /\ editMode /\ config.country # k
    /\ config' = [config EXCEPT !.country = k]
    /\ UNCHANGED <<runtime, refreshes, searches, cache, editMode, offline, server, truth, reused>>

collectionOptions_get == runtime.discovered \cup config.cols

CollectionToggle(c) ==
    /\ Restless /\ editMode /\ c \in collectionOptions_get
    /\ config' = [config EXCEPT !.cols = IF c \in @ THEN @ \ {c} ELSE @ \cup {c}]
    /\ UNCHANGED <<runtime, refreshes, searches, cache, editMode, offline, server, truth, reused>>

calendarCollections_discover ==
    /\ Restless /\ editMode /\ ~runtime.discovering
    /\ runtime' = [runtime EXCEPT !.discovering = TRUE, !.discovered = {}]
    /\ searches' = searches \cup {config.identity}
    /\ UNCHANGED <<config, refreshes, cache, editMode, offline, server, truth, reused>>

\* Three requests to the server, of which any may fail.
collections_discover(i) == {{}, {c \in Collections : OwnerOf[c] = i}}

\* What they find is shown whatever the configuration is by then.
DiscoverAnswer(i) ==
    /\ i \in searches /\ searches' = searches \ {i}
    /\ IF offline THEN UNCHANGED runtime
       ELSE \E found \in collections_discover(i) :
              runtime' = [runtime EXCEPT !.discovering = FALSE, !.discovered = found]
    /\ UNCHANGED <<config, refreshes, cache, editMode, offline, server, truth, reused, edits>>

(* ---- the steps of a refresh ---- *)
Step(t, next) == refreshes' = (refreshes \ {t}) \cup {next}
Gone(t) == refreshes' = refreshes \ {t} /\ UNCHANGED <<runtime, truth, cache>>

\* What a collection answers: its events in the range asked, without those that cannot be read.
Asked(t, c) == {e \in server[c] : InRange(EventOf[e], query_start_utc(t.period), query_end_utc(t.period))}
Readable(es) == {e \in es : ~EventOf[e].bad}

\* One collection is read, or fails as a whole: refused, too large, too late, not understood.
events_get(t, c) ==
    \/ Step(t, [t EXCEPT !.todo = @ \ {c}, !.failed = @ + 1])
    \/ Step(t, [t EXCEPT !.todo = @ \ {c}, !.answered = @ \cup {c},
                         !.events = @ \cup Readable(Asked(t, c)), !.read = @ \cup server[c],
                         !.rejected = @ + Cardinality(Asked(t, c) \ Readable(Asked(t, c)))])

\* The collections are read one after the other, in the order of the configuration.
EventsGet(t) ==
    /\ t \in refreshes /\ t.phase = "events" /\ t.todo # {}
    /\ IF offline THEN Gone(t)
       ELSE events_get(t, CHOOSE c \in t.todo : TRUE) /\ UNCHANGED <<runtime, truth, cache>>
    /\ UNCHANGED <<config, searches, editMode, offline, server, reused, edits>>

RefreshFinish(t) ==
    /\ t \in refreshes /\ t.phase = "events" /\ t.todo = {}
    /\ IF offline THEN Gone(t)
       ELSE /\ runtime' = refresh_finish(runtime, t)
            /\ truth' = IF runtime'.load = "Ready" /\ runtime.generation = t.generation
                        THEN [period |-> t.period, identity |-> t.identity, cols |-> t.cols,
                              read |-> t.read, answered |-> t.answered]
                        ELSE truth
            /\ IF t.country = NoCountry THEN refreshes' = refreshes \ {t}
               ELSE Step(t, [t EXCEPT !.phase = "holidays", !.cols = {}, !.events = {}, !.read = {},
                                      !.answered = {}, !.failed = 0, !.rejected = 0])
            /\ UNCHANGED cache
    /\ UNCHANGED <<config, searches, editMode, offline, server, reused, edits>>

\* One year from the cache or, with the cache locked, from the service.  A failure is kept too.
year_get(country, year, result) ==
    IF cache[country, year] = "ready" THEN result = "ready" /\ UNCHANGED cache
    ELSE IF cache[country, year] = "failed" THEN result = "failed" /\ UNCHANGED cache
    ELSE result \in {"ready", "failed"} /\ cache' = [cache EXCEPT ![<<country, year>>] = result]

\* The years in order; the first that fails ends the search, the last gives the days of the period.
HolidaysGet(t) ==
    /\ t \in refreshes /\ t.phase = "holidays"
    /\ \E result \in {"ready", "failed"} :
         LET year == Min(t.years)
             found == t.days \cup (HolidaysOf[t.country, year] \cap Days(t.period))
             last == result = "failed" \/ t.years = {year}
         IN /\ year_get(t.country, year, result)
            /\ IF last
               THEN /\ refreshes' = refreshes \ {t}
                    /\ runtime' = IF offline THEN runtime
                                  ELSE holidays_finish(runtime, t, result = "ready", found)
               ELSE /\ Step(t, [t EXCEPT !.years = @ \ {year}, !.days = found])
                    /\ UNCHANGED runtime
    /\ UNCHANGED <<config, searches, editMode, offline, server, truth, reused, edits>>

(* ---- what happens outside ---- *)
\* Five minutes after a failure the service is asked again.
CacheAges(k) ==
    /\ Restless /\ cache[k] = "failed" /\ cache' = [cache EXCEPT ![k] = "unknown"]
    /\ UNCHANGED <<config, runtime, refreshes, searches, editMode, offline, server, truth, reused>>

OthersEdit(e) ==
    /\ Restless
    /\ LET c == EventOf[e].col
       IN server' = [server EXCEPT ![c] = IF e \in @ THEN @ \ {e} ELSE @ \cup {e}]
    /\ UNCHANGED <<config, runtime, refreshes, searches, cache, editMode, offline, truth, reused>>

\* The holder replaces the configuration by a newer one and refreshes the module at once.
Import(c) ==
    /\ Restless /\ ~offline /\ c # config
    /\ config' = c
    /\ Refreshed(DefaultRuntime, c)
    /\ reused' = (reused \/ refreshes # {})
    /\ UNCHANGED <<searches, cache, editMode, offline, server>>

\* A password rotation suspends the network; its dialog keeps the user from the module.
NetworkToggle ==
    /\ Restless /\ offline' = ~offline
    /\ UNCHANGED <<config, runtime, refreshes, searches, cache, editMode, server, truth, reused>>

RefreshInit ==
    /\ \/ config \in Configs /\ editMode = FALSE
       \/ config = NewConfig /\ editMode = TRUE     \* a module just added to the page
    /\ runtime = DefaultRuntime
    /\ refreshes = {} /\ searches = {}
    /\ cache = [k \in Named \X YearStarts |-> "unknown"]
    /\ offline = FALSE
    /\ server = [c \in Collections |-> {e \in EventIds : EventOf[e].col = c}]
    /\ truth = NoTruth /\ reused = FALSE /\ edits = 0

Working == (\E t \in refreshes : EventsGet(t) \/ RefreshFinish(t) \/ HolidaysGet(t))
           \/ \E i \in searches : DiscoverAnswer(i)

RefreshNext ==
    \/ Working
    \/ calendarPeriod_shift \/ calendarPeriod_set(Today) \/ \E m \in Modes : calendarViewMode_set(m)
    \/ CalendarDraw \/ Refresh \/ EditEnter \/ EditLeave
    \/ \E i \in Identities : IdentityEdit(i)
    \/ \E k \in Countries : CountryEdit(k)
    \/ \E c \in Collections : CollectionToggle(c)
    \/ calendarCollections_discover
    \/ \E k \in DOMAIN cache : CacheAges(k)
    \/ \E e \in EventIds : OthersEdit(e)
    \/ \E c \in Configs : Import(c)
    \/ NetworkToggle

RefreshSpec == RefreshInit /\ [][RefreshNext]_rvars

(***************************************************************************)
(* Properties                                                              *)
(***************************************************************************)
\* The runtime keeps its shape, a refresh never counts more answers than it has collections, and
\* the newest generation is never behind one under way unless the runtime was replaced meanwhile.
CalendarTypeOK ==
    /\ runtime.load \in {"Idle", "Loading", "Ready", "ConfigurationRequired", "Error"}
    /\ runtime.events \subseteq EventIds /\ runtime.discovered \subseteq Collections
    /\ \A t \in refreshes : t.failed + Cardinality(t.answered) + Cardinality(t.todo) = Cardinality(t.cols)
    /\ reused \/ \A t \in refreshes : t.generation <= runtime.generation

\* Drawn on a date, and really there: what the server held of the collections that answered.
Drawn(date, offset) == {e \in runtime.events : event_overlapsLocalDate(EventOf[e], date, offset)}
There(date, offset) == {e \in truth.read : event_overlapsLocalDate(EventOf[e], date, offset)}

\* A calendar that says it is ready tells the truth of its grid: its events were read for the very
\* period and by the configuration it shows, each day draws the readable events the server had on
\* that local date, and a collection or an event that is missing is counted as failed or rejected.
\* The credentials of a server were only sent for its own collections, though a search that was
\* under way when the server was edited offers those of the old one.
\* Exempt: the generation that restarts when the holder replaces the module during a refresh
\* (calendar.rs:442), and the configuration being edited.
GridTellsTheTruth ==
    (runtime.load = "Ready" /\ ~reused) =>
        /\ truth.period = runtime.period
        /\ ~editMode => truth.identity = config.identity /\ truth.cols = config.cols
        /\ \A date \in Days(runtime.period), offset \in Offsets :
             /\ Drawn(date, offset) = Readable(There(date, offset))
             /\ There(date, offset) # Drawn(date, offset) => runtime.rejected > 0
        /\ Cardinality(truth.cols \ truth.answered) = runtime.partial
        /\ \A c \in truth.cols : OwnerOf[c] = truth.identity

\* The holidays shown are those of the country shown, every one of the grid, in both of its years.
HolidaysAreComplete ==
    (runtime.country # NoCountry /\ ~runtime.holidayLoading /\ ~runtime.holidayError /\ ~reused) =>
        runtime.holidays = {d \in Days(runtime.period) : d \in HolidaysOf[runtime.country, YearOf(d)]}

=============================================================================
