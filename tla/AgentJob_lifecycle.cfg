CONSTANTS
  None = None
  Jobs = {j1}
  MaxConcurrent = 1
  TemplateMutable = TRUE
  MaxFaults = 2
SPECIFICATION FairSpec
CHECK_DEADLOCK FALSE
INVARIANTS ConclusionTrue ReportedTold
PROPERTY ReportedOrRerun
