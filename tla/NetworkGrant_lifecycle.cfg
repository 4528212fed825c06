SPECIFICATION FairSpec
CONSTANTS
  Grants = {g1}
  TTLs <- TTLsCapped
  RequestModes <- StrictOnly
  DefaultTTL = 2
  MaxTTLSeconds = 1
  MaxTime = 3
  MaxGeneration = 2
  MaxFaults = 1
INVARIANTS SettledPolicy LifetimeCap
PROPERTIES NoExtension PolicyRemoved
CHECK_DEADLOCK FALSE
