CONSTANTS
  Interval = 2
  Stampede = 1
  Retention = 1
  ClassGiven = FALSE
  Crossing = FALSE
  MaxTime = 6
  MaxFaults = 0
SPECIFICATION FairSpec
CHECK_DEADLOCK FALSE
PROPERTY Cadence
