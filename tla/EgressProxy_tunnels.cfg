SPECIFICATION FairSpec
CONSTANTS
  Requests = {r1}
  Loop = loop
  NumPods = 2
  Unlabelled <- NoPods
  IPs = {i1}
  Dests = {d1, d2}
  BadDest = bad
  Grants = {g1}
  Targets <- OnePod
  TTLs <- TTLsDefault
  DefaultTTL = 2
  MaxTTLSeconds = 1
INVARIANT TunnelGranted
PROPERTY LapsedDropped
CHECK_DEADLOCK FALSE
