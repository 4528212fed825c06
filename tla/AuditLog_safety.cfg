SPECIFICATION AuditSpec
CONSTANTS
  Procs = {p1}
  Events = {a, b}
  CheckEveryN = 2
  MaxDay = 2
  MaxLines = 3
  MaxFaults = 2
  MaxStarts = 2
INVARIANTS TypeOK ChainVerifies PrefixVerifies CheckpointsBacked HandlesUsable
CHECK_DEADLOCK FALSE
