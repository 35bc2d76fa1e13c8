SPECIFICATION SessionSpec
CONSTANTS
  Senders = {s1, s2}
  WordSize = 2
  NWords = 3
  MaxU64 = 16
  RejectAfterMessages = 10
  Receivers = {r1, r2}
SYMMETRY Callers
INVARIANTS NoncesUsedOnce WindowExact
PROPERTIES ImplementsAntiReplay
CHECK_DEADLOCK FALSE
