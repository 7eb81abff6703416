SPECIFICATION MCSpec
CONSTANTS
  Pages = {p1, p2}
  Ttl = 1
  Timeout = 0
  MaxTime = 4
  MaxRevision = 2
  StepsBack = 1
  None = None
  Places = {"home", "away"}
  DayCounts = {0, 2}
  Zones <- MCZones
  HoursPerDay = 8
  ShownFrom = 3
  ShownTo = 6
  FirstHour = 19
  LastHour = 28
  Hop = 3
  MaxRequests = 2
  Forecast <- MCForecast
  Nothing = Nothing
SYMMETRY Symmetry
INVARIANTS VersionNamesContent ShownWasRecent ForecastTellsTheDay
PROPERTIES ShownGoesForward
