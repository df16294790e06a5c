CONSTANTS
  Producers = {p1, p2}
  Capacity = 2
  WordMod = 8
  MaxEvents = 2
  MaxClock = 1
SPECIFICATION FairSpec
INVARIANTS LogInOrder CallsAccounted ShutdownDrains FileOpenForFlush
PROPERTIES ImplementsFifo AcceptedIsWritten ShutdownEnds
