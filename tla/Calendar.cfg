SPECIFICATION RefreshSpec
CONSTANTS
    home = home
    work = work
    c1 = c1
    c2 = c2
    MonthStarts <- MCMonthStarts
    YearStarts <- MCYearStarts
    FirstDate <- MCFirstDate
    LastDate <- MCLastDate
    Today <- MCToday
    Identities <- MCIdentities
    Collections <- MCCollections
    OwnerOf <- MCOwnerOf
    EventOf <- MCEventOf
    EventIds <- MCEventIds
    Countries <- MCCountries
    HolidaysOf <- MCHolidaysOf
    Configs <- MCConfigs
    NewConfig <- MCNewConfig
    Offsets <- MCOffsets
    MaxEdits = 3
    MaxRefreshes = 2
INVARIANTS GridTellsTheTruth HolidaysAreComplete
CHECK_DEADLOCK FALSE
