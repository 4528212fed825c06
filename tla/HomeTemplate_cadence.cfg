CONSTANTS
  Interval = 2
  Stampede = 1
  Retention = 1
  ClassGiven = TRUE
  Crossing = FALSE
  MaxTime = 6
  MaxFaults = 2
SPECIFICATION FairSpec
CHECK_DEADLOCK FALSE
INVARIANT Spacing
PROPERTIES NewestKept Cadence RetentionMet Published
