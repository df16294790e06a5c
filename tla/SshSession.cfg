CONSTANTS
  MaxAuth = 3
  CmdSize = 3
  Chars = {"a", "q"}
  MaxKeys = 6
  Exits <- MCExits
SPECIFICATION Spec
INVARIANTS CommandsRecorded LoginAtLastAttempt ClosedOnce
