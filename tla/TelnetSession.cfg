CONSTANTS
  MaxAuth = 2
  LineSize = 3
  NameSize = 2
  RecvSize = 6
  MaxItems = 2
  MaxCommands = 1
  Inputs <- MCInputs
  Exits <- MCExits
SPECIFICATION Spec
INVARIANTS LineIsText 
