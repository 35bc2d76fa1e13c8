SPECIFICATION Spec
CONSTANTS
  Keepalive = 1
  NewHandshake = 2
  Retransmit = 1
  RekeyAfter = 1
  RefreshReceive = 1
  Reject = 1
  Window = 2
  MaxRetransmissions = 1
  MaxQueue = 1
  Delay = 1
  MaxLag = 1
  MaxSessions = 1
  MaxChanges = 1
  Configs <- Junk
  Intervals <- Fixed
PROPERTIES
  DemandsAreServed
