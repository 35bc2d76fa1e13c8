SPECIFICATION Spec
CONSTANTS
  Keepalive = 2
  NewHandshake = 3
  Retransmit = 1
  RekeyAfter = 1
  RefreshReceive = 2
  Reject = 1
  Window = 2
  MaxRetransmissions = 1
  MaxQueue = 1
  Delay = 1
  MaxLag = 1
  MaxSessions = 1
  MaxChanges = 1
  Configs <- Bursts
  Intervals <- Ranges
INVARIANTS
  QueuedHasDriver
  BoundsMeasureTheCycle
  RefusedTickSpendsNothing
