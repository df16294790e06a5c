CONSTANTS
  Listeners = {l1, l2}
  Conns = {c1, c2, c3}
  Fds = {5, 7}
  MaxConnections = 2
  TableSize = 2
SPECIFICATION Spec
SYMMETRY ConnSymmetry
INVARIANTS NoLostWakeup DescriptorsOwned TableBalanced PermitsMatchHandlers
CHECK_DEADLOCK FALSE
