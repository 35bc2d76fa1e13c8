SPECIFICATION IngressSpec
CONSTANTS
  w1 = w1
  w2 = w2
  sA = sA
  sB = sB
  Workers = {w1, w2}
  Callers = {w1, w2}
  Sources = {sA, sB}
  NoSource = NoSource
  Slots = {1, 2}
  SlotOf <- OneSlotShared
  Limit = 1
  SourceShare = 5
  SourceFloor = 2
  Traffics <- AllTraffic
  MaxClock = 1
  MaxDatagrams = 4
  Rate = 1
  Milli = 2
  Sizes = {1, 2}
  ClockSize = 8
  MaxTime = 4
  Addresses = {"s1", "s2", "s3"}
  Protocols = {"p1", "p2"}
  NoProtocol = "none"
  MaxHints = 2
  Lifetime = 2
  MaxNow = 3
  Bits <- TwoBits
  Ranges <- OneTagEach
  Base <- Lengths
  Header = 2
  Nonce = 1
  Keystream <- Stream
  Multiple = 2
  DefaultWindow = 8
  MaxSendable = 11
  MaxFramings = 3
  Configs <- Framings
  Endpoints <- TwoPorts
  IndexSpace = 3
  CookieRefresh = 2
  MaxMessages = 3
  MaxReplies = 2
  MaxSeconds = 2
  MaxRestarts = 1
SYMMETRY WorkerSymmetry
INVARIANTS
  SharesAreFair
  AuthenticReadingWins
  Ceiling
  HintsAreLive
  DatagramsArrive
PROPERTIES CookiesMoveForward
CHECK_DEADLOCK FALSE
