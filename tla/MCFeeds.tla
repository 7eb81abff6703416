------------------------------- MODULE MCFeeds -------------------------------
(***************************************************************************)
(* The two modules that show what an outside service publishes: an RSS     *)
(* feed, fetched by the proxy for every page, and a forecast, fetched by   *)
(* the browser itself.  They share nothing, so one of them runs at a time. *)
(***************************************************************************)
EXTENDS RssProxy, WeatherForecast, TLC

VARIABLE part

MCZones ==
  {[before |-> 0, after |-> 0, at |-> 0],
   [before |-> 2, after |-> 1, at |-> 32],   \* the end of summer time
   [before |-> 1, after |-> 2, at |-> 32],
   [before |-> -3, after |-> -3, at |-> 0],
   [before |-> 4, after |-> 4, at |-> 0]}

\* Values that differ from hour to hour and from place to place.
MCForecast ==
  [place \in {"home", "away"} |-> [h \in 0 .. 60 |->
     LET turn == IF place = "home" THEN 3 ELSE 5
     IN  [temp |-> ((h * turn) % 11) - 4, rain |-> (h * turn) % 7,
          wind |-> (h * h) % 13, code |-> (h * turn) % 4]]]

\* The pages are exchangeable.
Symmetry == Permutations(Pages)

MCInit ==
  /\ part \in {"rss", "weather"} /\ Init /\ WeatherInit
  /\ part = "rss" => /\ zone = CHOOSE z \in Zones : TRUE
                     /\ config = CHOOSE c \in [place : Places, maxday : DayCounts] : TRUE

MCNext ==
  /\ UNCHANGED part
  /\ \/ part = "rss" /\ Next /\ UNCHANGED forecastvars
     \/ part = "weather" /\ WeatherNext /\ UNCHANGED vars

MCSpec == MCInit /\ [][MCNext]_<<part, vars, forecastvars>>
==============================================================================
