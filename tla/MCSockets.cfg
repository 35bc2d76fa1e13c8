SPECIFICATION SocketsSpec
VIEW Observed
SYMMETRY Symmetry
CONSTANTS
  p1 = p1
  p2 = p2
  Peers = {p1, p2}
  po1 = po1
  po2 = po2
  Ports = {po1, po2}
  Marks = {0, 1}
  NoMark = NoMark
  MaxSockets = 5
  Addrs = {"v4", "v6"}
  Family <- MCFamily
  Scenes <- AllScenes
  Cooldown = 1
  MaxFailures = 1
  None = None
  MaxTime = 1
INVARIANTS
  RefusedLeavesListeners
  SocketsAsReported
  EpisodesAreTrue
PROPERTIES
  LinesAreDue
