SPECIFICATION Spec
CONSTANTS
  k1 = k1
  k2 = k2
  Keys = {k1, k2}
  Attrs = {"preshared_key"}
  AllowedIps <- Nested
  AddrBits = 2
  PrivateKeys = {"a", "b"}
  Params = {"h1", "h2"}
  Values = {"x", "y", "z"}
  Defaults <- Distinct
  Mtus = {2, 3, 4}
  MtuMax = 3
  None = None
  Clients <- BothClients
  MaxIndex = 3
  MaxLimiters = 2
SYMMETRY Symmetry
INVARIANTS
  RoutesAsClaimed
  PeersFollowDevice
  SuccessMeansApplied
