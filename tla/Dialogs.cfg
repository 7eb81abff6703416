SPECIFICATION MCSpec
CONSTANTS
    NoDialog = NoDialog
    MaxDialogs = 3
    Dates <- MCDates
    Contents <- MCContents
    MaxVersion = 3
    MaxLost = 2
    None = None
    Langs = {en, fr}
    Hues = {hd, h1}
    DefaultHue = hd
    MaxKeys = 2
    MaxFaults = 1
    MaxRevision = 1
    Nothing = Nothing
    Served <- MCServed
    MaxChunks = 3
    CALDAV_MAX_RESPONSES = 2
    CALDAV_MAX_XML_DEPTH = 6
SYMMETRY LangSymmetry
CONSTRAINTS
    OptionsBound
    WritesBound
INVARIANTS
    PendingIsUnderWay
    CreatedOnce
    ShownIsStored
    PreviewGoesWithDialog
    KeysFit
    ParsedIsMeant
PROPERTIES
    OthersEditsSurvive
CHECK_DEADLOCK FALSE
