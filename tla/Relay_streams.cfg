CONSTANTS
  None = None
  Keys = {k1}
  MaxConns = 3
  Dials = {d1, d2}
  Concurrency = 1
  MaxFaults = 1
SPECIFICATION FairSpec
CHECK_DEADLOCK FALSE
INVARIANTS TypeOK TableCurrent PendingOwned SlotsCounted
PROPERTIES RendezvousKept StreamEnds AgentReturns
