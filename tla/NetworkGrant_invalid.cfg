SPECIFICATION Spec
CONSTANTS
  Grants = {g1}
  TTLs <- TTLsSet
  RequestModes <- StrictOnly
  DefaultTTL = 4
  MaxTTLSeconds = 2
  MaxTime = 3
  MaxGeneration = 3
  MaxFaults = 0
INVARIANT InvalidNeverEnforced
CHECK_DEADLOCK FALSE
