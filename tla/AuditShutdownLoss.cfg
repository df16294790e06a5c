CONSTANTS
  Producers = {p1, p2}
  Capacity = 2
  WordMod = 8
  MaxEvents = 2
  MaxClock = 0
SPECIFICATION Spec
INVARIANT NothingLeftAtShutdown
