CONSTANTS
  MailAccounts <- MCAccounts
  Boxes <- MCBoxes
  MailSlots <- MCSlots
  MailCases <- MCCases
  HeaderMaximum = 2
  MaxUid = 3
  NoMail = NoMail
SPECIFICATION MailSpec
INVARIANTS
  KnownFits
PROPERTIES
  MarkedReadStaysAway
  Converges
CHECK_DEADLOCK FALSE
