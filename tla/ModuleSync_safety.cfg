SPECIFICATION Spec
CONSTANTS
  ann = ann
  ben = ben
  lap = lap
  tab = tab
  None = None
  Browsers = {lap, tab}
  Accounts = {ann, ben}
  Cases <- BrowserCases
  Slots = {s1, s2}
  Saved <- SomeDocuments
  FirstTime = 3
  MaxTime = 7
SYMMETRY SlotsAreAlike
INVARIANTS
  ContentStaysWithItsAccount
  CronsFollowTheNetwork
  ShownHomeIsLive
PROPERTIES
  ShownBlocksGoForward
  OnlySaveAllGoesBack
CHECK_DEADLOCK FALSE
