CONSTANTS
  Chars <- MCChars
  Wide <- MCWide
  MaxBlocks = 3
  MaxLength = 5
  TodoCases <- MCTodoCases
  Releases = {"old", "new"}
  Langs = {"EN", "FR"}
  Allowed = {"EN", "FR"}
  Files <- MCFiles
  Texts = {1, 2}
  AssetCases <- MCAssetCases
  Unknown = Unknown
SPECIFICATION MCSpec
INVARIANTS
  SourceIsDocument
  ScreenShowsDocument
  TextsShareTheirBook
PROPERTIES
  LengthKept
  EditsAreSent
  SettlesOnRelease
CHECK_DEADLOCK FALSE
