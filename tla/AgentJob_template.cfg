CONSTANTS
  None = None
  Jobs = {j1}
  MaxConcurrent = 1
  TemplateMutable = FALSE
  MaxFaults = 0
SPECIFICATION FairSpec
CHECK_DEADLOCK FALSE
PROPERTY CredentialsRetired
