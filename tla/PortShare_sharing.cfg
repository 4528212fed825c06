SPECIFICATION Spec
CONSTANTS
  Shares = {p1, p2}
  Ports = {n1, n2}
  NoPort = none
  TTL = 1
  MaxTime = 2
  MaxEvents = 1
  Crossing = FALSE
INVARIANTS ExpiredClosed ShareServed StatusTrue
SYMMETRY Symmetry
CHECK_DEADLOCK FALSE
