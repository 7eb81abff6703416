CONSTANTS
  Identities <- MCIdentities
  Sessions <- MCSessions
  Credentials <- MCCredentials
  Requests <- MCRequests
  LoginMax = 2
  LoginReset = 4
  SignMax = 1
  SignReset = 3
  MaxTracked = 1
  MaxTime = 6
  ThrottleCases <- MCThrottleCases
  Nobody = Nobody
SPECIFICATION ThrottleSpec
INVARIANTS
  GuessesBounded
  LocksArePassing
PROPERTIES
  SignsOneAccount
  KeepsContract
CHECK_DEADLOCK FALSE
