CONSTANTS
  Listeners = {l1}
  Conns = {c1, c2}
  Fds = {5, 7}
  MaxConnections = 2
  TableSize = 2
SPECIFICATION Spec
INVARIANT ServedIsInTable
CHECK_DEADLOCK FALSE
