CONSTANTS
  Listeners = {l1, l2}
  Conns = {c1, c2, c3}
  Fds = {5, 7}
  MaxConnections = 1
  TableSize = 2
SPECIFICATION FairSpec
PROPERTIES AcceptedIsFinished StopWaitsForAcceptOnly
CHECK_DEADLOCK FALSE
