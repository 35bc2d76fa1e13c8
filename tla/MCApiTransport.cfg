SPECIFICATION TransportSpec
CONSTANTS
  Callers = {c1, c2}
  Fd = fd
  Workers = {w1, w2}
  MaxRequest = 4
  MaxResponse = 2
  MaxConnections = 1
  IoBudget = 3
  Modes = {TRUE, FALSE}
  MaxStream <- StreamOf
CHECK_DEADLOCK FALSE
INVARIANTS
  BoundedConnections
PROPERTIES
  FramesInOrder
  TransactionsEnd
