CONSTANTS
  Threads = {t1, t2}
  Signals = {SIGINT, SIGTERM}
  Level = 1
  Callback = TRUE
  MaxCalls = 4
  MaxSignals = 3
SPECIFICATION FairSpec
INVARIANTS OneWriter
PROPERTY CallsReturn
CHECK_DEADLOCK FALSE
