CONSTANTS
  PerSecond = 1
  IdleTimeout = 1
  TokenTTL = 1
  RenewBefore = 0
  Retain = 1
  Seeded = TRUE
  ClassGiven = TRUE
  MaxTime = 2
  MaxEdits = 2
  MaxFaults = 1
SPECIFICATION FairSpec
CHECK_DEADLOCK FALSE
INVARIANT TypeOK
PROPERTIES HomeKept ResetDone SuspendHonoured TokenRolledOut AutoSuspended
