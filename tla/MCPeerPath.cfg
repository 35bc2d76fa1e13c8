SPECIFICATION ServingSpec
CONSTANTS
  p1 = p1
  Addrs <- MCAddrs
  Host <- MCHost
  Protocols = {p1}
  None = None
  MaxConns = 2
  Workers = {w1, w2}
  k1 = k1
  k2 = k2
  Keys <- MCKeys
  Nets = {n1}
  MaxPeers = 2
  MaxLinks = 1
  MaxItr = 2
  Room = 1
  Flows <- MCFlows
INVARIANTS PathFollowsEndpoint ConnectedIsServed RemovedIsSilent
PROPERTIES RetiredHandlersReclaimed DispatchesEnd ArrivalsAreTaken
