SPECIFICATION Spec
CONSTANTS
  a = a
  b = b
  k1 = k1
  k2 = k2
  Peers = {a, b}
  NSessions = 2
  IndexSpace = 4
  RejectAfter = 1
  MaxQueueDepth = 1
  Psks = {k1, k2}
  Courses <- AllCourses
SYMMETRY TunnelSymmetry
INVARIANTS KeyAgreement ConfirmedBeforeUse NonceFresh PresharedKeyInForce
PROPERTY SelectionMovesForward
CHECK_DEADLOCK FALSE
